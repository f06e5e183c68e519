------------------------- MODULE ErrorGroups_proofs -------------------------
(***************************************************************************)
(* Theorems about ErrorGroups, for any number of executions, calls, groups *)
(* and restarts.                                                           *)
(***************************************************************************)
EXTENDS ErrorGroups, FiniteSetTheorems, TLAPS

\* What a suspended call needs to find in its local variables when it resumes.
Context(w) ==
    /\ pc[w] # "idle" => job[w].exec \in Executions
    /\ pc[w] \in Assigning => job[w].row \in Row
    /\ pc[w] \in Grouping => job[w].gid \in GroupIds /\ job[w].seen \in Seen
    /\ pc[w] \in {"countPrevious", "applyPrevious"} => job[w].row.groupId \in GroupIds

PruneContext == prune.at = "apply" => prune.gid \in GroupIds

TypeInv == CoreTypeOK /\ (\A w \in Workers : Context(w)) /\ PruneContext

AlertsType ==
    /\ opened \in [GroupIds -> Nat]
    /\ recurred \in [GroupIds -> Nat]
    /\ regressed \in [GroupIds -> Nat]

LEMMA CountIsNat == \A g : Cardinality(Members(g)) \in Nat
<1>1. \A g : Members(g) \subseteq Executions
  BY DEF Members
<1> QED
  BY <1>1, FS_Subset, FS_CardinalityType, ConstantsAssumption

---------------------------------------------------------------------------
(* Types of the records the steps build *)

LEMMA RowUpdates ==
  ASSUME NEW row \in Row
  PROVE  /\ \A g \in GroupIds \union {None} : [row EXCEPT !.groupId = g] \in Row
         /\ \A d \in Details : Answered(row, d) \in Row
         /\ Failed(row) \in Row
<1>1. \A g \in GroupIds \union {None} : [row EXCEPT !.groupId = g] \in Row
  BY DEF Row
<1>2. ASSUME NEW d \in Details, NEW s \in {"fetched", "unavailable"}
      PROVE  [row EXCEPT !.detailState = s, !.detail = d] \in Row
  BY DEF Row
<1>3. \A d \in Details : Answered(row, d) \in Row
  BY <1>2 DEF Answered
<1>4. Failed(row) \in Row
  BY DEF Row, Failed
<1> QED
  BY <1>1, <1>3, <1>4

LEMMA NewRowType == NewRow \in Row
BY ConstantsAssumption DEF NewRow, Row

LEMMA GroupUpdates ==
  ASSUME NEW group \in Group
  PROVE  /\ \A n \in Nat : [group EXCEPT !.occurrences = n] \in Group
         /\ [group EXCEPT !.status = "open", !.regressions = @ + 1] \in Group
         /\ Notified(group) \in Group
         /\ \A s \in {"open", "resolved", "ignored"} : [group EXCEPT !.status = s] \in Group
         /\ \A t \in Nat : [group EXCEPT !.status = "resolved", !.resolvedAt = t] \in Group
<1>1. \A n \in Nat : [group EXCEPT !.occurrences = n] \in Group
  BY DEF Group
<1>2. [group EXCEPT !.status = "open", !.regressions = @ + 1] \in Group
  <2>1. group.regressions + 1 \in Nat
    BY DEF Group
  <2>2. \A n \in Nat : [group EXCEPT !.status = "open", !.regressions = n] \in Group
    BY DEF Group
  <2> QED
    BY <2>1, <2>2
<1>3. Notified(group) \in Group
  BY DEF Group, Notified
<1>4. \A s \in {"open", "resolved", "ignored"} : [group EXCEPT !.status = s] \in Group
  BY DEF Group
<1>5. \A t \in Nat : [group EXCEPT !.status = "resolved", !.resolvedAt = t] \in Group
  BY DEF Group
<1> QED
  BY <1>1, <1>2, <1>3, <1>4, <1>5

LEMMA NewGroupType == ASSUME NEW d \in Details PROVE NewGroup(d) \in Group
BY DEF NewGroup, Group

LEMMA SnapshotType == ASSUME NEW group \in Group PROVE Snapshot(group) \in Seen
BY DEF Snapshot, Seen, Group

LEMMA SnapshotNotified == ASSUME NEW group PROVE Snapshot(group).notified = group.notified
BY DEF Snapshot

LEMMA LiveType ==
  ASSUME CoreTypeOK, NEW g \in Live
  PROVE  g \in GroupIds /\ groups[g] \in Group
BY DEF Live, CoreTypeOK, AlertsType, alerts

---------------------------------------------------------------------------
(* One call moves, the others stay where they are *)

Still(w) == \A v \in Workers \ {w} : pc'[v] = pc[v] /\ job'[v] = job[v]

LEMMA FinishKeeps ==
  ASSUME CoreTypeOK, NEW w \in Workers, Finish(w)
  PROVE  /\ pc' \in [Workers -> Labels]
         /\ job' \in [Workers -> Job]
         /\ Still(w)
         /\ Context(w)'
BY DEF CoreTypeOK, AlertsType, alerts, Finish, NoJob, Job, Labels, Still, Context, Assigning, Grouping

LEMMA GotoKeeps ==
  ASSUME CoreTypeOK, NEW w \in Workers, NEW label \in Labels, Goto(w, label)
  PROVE  /\ pc' \in [Workers -> Labels]
         /\ pc'[w] = label
         /\ \A v \in Workers \ {w} : pc'[v] = pc[v]
BY DEF CoreTypeOK, AlertsType, alerts, Goto

LEMMA HoldKeeps ==
  ASSUME CoreTypeOK, NEW w \in Workers, NEW g \in GroupIds, NEW group \in Group, Hold(w, g, group)
  PROVE  /\ job' \in [Workers -> Job]
         /\ job'[w].gid = g
         /\ job'[w].seen = Snapshot(group)
         /\ job'[w].seen \in Seen
         /\ job'[w].row = job[w].row
         /\ job'[w].exec = job[w].exec
         /\ \A v \in Workers \ {w} : job'[v] = job[v]
BY SnapshotType DEF CoreTypeOK, AlertsType, alerts, Hold, Job

LEMMA TotalKeeps ==
  ASSUME CoreTypeOK, NEW w \in Workers, NEW n \in Nat, job' = [job EXCEPT ![w].total = n]
  PROVE  /\ job' \in [Workers -> Job]
         /\ job'[w].gid = job[w].gid
         /\ job'[w].seen = job[w].seen
         /\ job'[w].row = job[w].row
         /\ job'[w].exec = job[w].exec
         /\ \A v \in Workers \ {w} : job'[v] = job[v]
BY DEF CoreTypeOK, AlertsType, alerts, Job

LEMMA OthersKeep ==
  ASSUME TypeInv, NEW w \in Workers, Still(w), Context(w)'
  PROVE  \A v \in Workers : Context(v)'
BY DEF TypeInv, Still, Context

---------------------------------------------------------------------------
(* Types of the tables *)

LEMMA DeleteKeeps ==
  ASSUME CoreTypeOK, NEW g \in GroupIds, DeleteGroup(g)
  PROVE  /\ groups' \in [GroupIds -> Group \union {None}]
         /\ journal' \in [GroupIds -> Nat]
         /\ rows' \in [Executions -> Row \union {None}]
<1>1. \A e \in Members(g) : [rows[e] EXCEPT !.groupId = None] \in Row
  BY RowUpdates DEF Members, CoreTypeOK, AlertsType, alerts
<1> QED
  BY <1>1 DEF DeleteGroup, CoreTypeOK, AlertsType, alerts

LEMMA StoreKeeps ==
  ASSUME CoreTypeOK, NEW g \in Live, NEW n \in Nat, StoreCount(g, n)
  PROVE  /\ groups' \in [GroupIds -> Group \union {None}]
         /\ journal' \in [GroupIds -> Nat]
         /\ rows' \in [Executions -> Row \union {None}]
<1>1. groups' = [groups EXCEPT ![g] = [groups[g] EXCEPT !.occurrences = n]]
  BY DEF StoreCount
<1>2. [groups[g] EXCEPT !.occurrences = n] \in Group
  BY LiveType, GroupUpdates
<1> QED
  BY <1>1, <1>2 DEF StoreCount, CoreTypeOK, AlertsType, alerts

---------------------------------------------------------------------------
(* Every step keeps the types *)

LEMMA InsertType ==
  ASSUME TypeInv, NEW w \in Workers, Insert(w)
  PROVE  TypeInv'
<1> USE DEF TypeInv
<1>1. CASE rows[job[w].exec] # None \/ job[w].exec \in pruned
  <2>1. Finish(w)
    BY <1>1 DEF Insert
  <2> QED
    BY <1>1, <2>1, FinishKeeps, OthersKeep
       DEF Insert, Outside, CoreTypeOK, AlertsType, alerts, PruneContext
<1>2. CASE ~ (rows[job[w].exec] # None \/ job[w].exec \in pruned)
  <2>1. Goto(w, "lookup") /\ job' = [job EXCEPT ![w].row = NewRow]
    BY <1>2 DEF Insert
  <2>2. /\ pc' \in [Workers -> Labels]
        /\ pc'[w] = "lookup"
        /\ \A v \in Workers \ {w} : pc'[v] = pc[v]
    BY <2>1, GotoKeeps DEF Labels
  <2>3. /\ job' \in [Workers -> Job]
        /\ job'[w].row = NewRow
        /\ job'[w].exec = job[w].exec
        /\ \A v \in Workers \ {w} : job'[v] = job[v]
    BY <2>1, NewRowType DEF CoreTypeOK, AlertsType, alerts, Job
  <2>4. Still(w) /\ Context(w)'
    BY <2>2, <2>3, NewRowType DEF Still, Context, Insert, Assigning, Grouping
  <2>5. rows' \in [Executions -> Row \union {None}]
    BY <1>2, NewRowType DEF Insert, CoreTypeOK, AlertsType, alerts
  <2> QED
    BY <2>2, <2>3, <2>4, <2>5, OthersKeep
       DEF Insert, Outside, CoreTypeOK, AlertsType, alerts, PruneContext
<1> QED
  BY <1>1, <1>2

LEMMA IngestType ==
  ASSUME TypeInv, NEW w \in Workers, NEW e \in Executions, Ingest(w, e)
  PROVE  TypeInv'
BY DEF Ingest, Goto, Outside, TypeInv, CoreTypeOK, AlertsType, alerts, Context, PruneContext, Job,
       Labels, Assigning, Grouping

LEMMA PickType ==
  ASSUME TypeInv, NEW w \in Workers, NEW e \in Executions, Pick(w, e)
  PROVE  TypeInv'
BY DEF Pick, Goto, Outside, TypeInv, CoreTypeOK, AlertsType, alerts, Context, PruneContext, Job,
       Labels, Assigning, Grouping

LEMMA RegroupType ==
  ASSUME TypeInv, NEW w \in Workers, NEW e \in Executions, Regroup(w, e)
  PROVE  TypeInv'
<1> USE DEF TypeInv
<1>1. rows[e] \in Row
  BY DEF Regroup, CoreTypeOK, AlertsType, alerts
<1>2. /\ pc' \in [Workers -> Labels]
      /\ pc'[w] = "lookup"
      /\ \A v \in Workers \ {w} : pc'[v] = pc[v]
  BY GotoKeeps DEF Regroup, Labels
<1>3. /\ job' \in [Workers -> Job]
      /\ job'[w].row = rows[e]
      /\ job'[w].exec = e
      /\ \A v \in Workers \ {w} : job'[v] = job[v]
  <2>1. job \in [Workers -> Job] /\ job' = [job EXCEPT ![w].exec = e, ![w].row = rows[e]]
    BY DEF Regroup, CoreTypeOK, AlertsType, alerts
  <2> QED
    BY <1>1, <2>1 DEF Job
<1>4. Still(w) /\ Context(w)'
  BY <1>1, <1>2, <1>3 DEF Still, Context, Assigning, Grouping
<1> QED
  BY <1>2, <1>3, <1>4, OthersKeep DEF Regroup, Outside, CoreTypeOK, AlertsType, alerts, PruneContext

LEMMA FetchDetailType ==
  ASSUME TypeInv, NEW w \in Workers, FetchDetail(w)
  PROVE  TypeInv'
<1> DEFINE e == job[w].exec
<1> USE DEF TypeInv
<1>1. CASE rows[e] = None
  <2>1. Finish(w)
    BY <1>1 DEF FetchDetail
  <2> QED
    BY <1>1, <2>1, FinishKeeps, OthersKeep
       DEF FetchDetail, Outside, CoreTypeOK, AlertsType, alerts, PruneContext
<1>2. CASE rows[e] # None
  <2>1. e \in Executions /\ pc[w] = "call"
    BY DEF FetchDetail, Context
  <2>2. rows[e] \in Row
    BY <1>2, <2>1 DEF CoreTypeOK, AlertsType, alerts
  <2>3. PICK row \in {Answered(rows[e], DetailOf[e]), Answered(rows[e], NoDetail),
                      Failed(rows[e])} :
          /\ rows' = [rows EXCEPT ![e] = row]
          /\ job' = [job EXCEPT ![w].row = row]
    BY <1>2 DEF FetchDetail
  <2>4. row \in Row
    BY <2>1, <2>2, <2>3, RowUpdates, ConstantsAssumption
  <2>5. /\ pc' \in [Workers -> Labels]
        /\ pc'[w] = "lookup"
        /\ \A v \in Workers \ {w} : pc'[v] = pc[v]
    BY <1>2, GotoKeeps DEF FetchDetail, Labels
  <2>6. /\ job' \in [Workers -> Job]
        /\ job'[w].row = row
        /\ job'[w].exec = e
        /\ \A v \in Workers \ {w} : job'[v] = job[v]
    BY <2>3, <2>4 DEF CoreTypeOK, AlertsType, alerts, Job
  <2>7. Still(w) /\ Context(w)'
    BY <2>1, <2>4, <2>5, <2>6 DEF Still, Context, Assigning, Grouping
  <2>8. rows' \in [Executions -> Row \union {None}]
    BY <2>3, <2>4 DEF CoreTypeOK, AlertsType, alerts
  <2> QED
    BY <2>5, <2>6, <2>7, <2>8, OthersKeep
       DEF FetchDetail, Outside, CoreTypeOK, AlertsType, alerts, PruneContext
<1> QED
  BY <1>1, <1>2

\* Steps that only move the call: labels change, tables do not.
LEMMA ControlType ==
  ASSUME TypeInv, NEW w \in Workers,
         UNCHANGED <<rows, groups, journal, nextGroup, job>>, Outside,
         AlertsType',
         NEW label \in Labels, Goto(w, label), Context(w)'
  PROVE  TypeInv'
<1> USE DEF TypeInv
<1>1. pc' \in [Workers -> Labels] /\ Still(w)
  BY GotoKeeps DEF Still
<1> QED
  BY <1>1, OthersKeep DEF Outside, CoreTypeOK, AlertsType, alerts, PruneContext

\* A call that ends without touching the tables.
LEMMA EndType ==
  ASSUME TypeInv, NEW w \in Workers, Finish(w),
         UNCHANGED <<rows, groups, journal, nextGroup>>, Outside,
         AlertsType'
  PROVE  TypeInv'
BY FinishKeeps, OthersKeep DEF TypeInv, Outside, CoreTypeOK, AlertsType, alerts, PruneContext

\* A step that finds the group of the row.
LEMMA FoundType ==
  ASSUME TypeInv, NEW w \in Workers, NEW g \in Live, Hold(w, g, groups[g]),
         pc[w] \in Assigning, Goto(w, "grouped"),
         UNCHANGED <<rows, groups, journal, nextGroup, alerts>>, Outside
  PROVE  TypeInv'
<1> USE DEF TypeInv
<1>1. g \in GroupIds /\ groups[g] \in Group
  BY LiveType
<1>2. /\ pc' \in [Workers -> Labels]
      /\ pc'[w] = "grouped"
      /\ \A v \in Workers \ {w} : pc'[v] = pc[v]
  BY GotoKeeps DEF Labels
<1>3. Still(w) /\ Context(w)' /\ job' \in [Workers -> Job]
  BY <1>1, <1>2, HoldKeeps DEF Still, Context, Assigning
<1> QED
  BY <1>2, <1>3, OthersKeep DEF Outside, CoreTypeOK, AlertsType, alerts, PruneContext

LEMMA LookupType ==
  ASSUME TypeInv, NEW w \in Workers, Lookup(w)
  PROVE  TypeInv'
<1>1. CASE Signed(job[w].row.detail) = {}
  <2>1. Goto(w, "create") /\ UNCHANGED job
    BY <1>1 DEF Lookup
  <2>2. Context(w)'
    BY <2>1, GotoKeeps DEF Lookup, TypeInv, Context, Labels, Assigning, Grouping
  <2> QED
    BY <2>1, <2>2, ControlType DEF Lookup, TypeInv, CoreTypeOK, AlertsType, alerts, Labels
<1>2. CASE Signed(job[w].row.detail) # {}
  <2>1. PICK g \in Signed(job[w].row.detail) : Hold(w, g, groups[g])
    BY <1>2 DEF Lookup
  <2>2. g \in Live
    BY DEF Signed
  <2> QED
    BY <1>2, <2>1, <2>2, FoundType DEF Lookup, Assigning, Labels
<1> QED
  BY <1>1, <1>2

LEMMA RereadType ==
  ASSUME TypeInv, NEW w \in Workers, Reread(w)
  PROVE  TypeInv'
<1>1. CASE Signed(job[w].row.detail) = {}
  BY <1>1, EndType DEF Reread, TypeInv, CoreTypeOK, AlertsType, alerts
<1>2. CASE Signed(job[w].row.detail) # {}
  <2>1. PICK g \in Signed(job[w].row.detail) : Hold(w, g, groups[g])
    BY <1>2 DEF Reread
  <2>2. g \in Live
    BY DEF Signed
  <2> QED
    BY <1>2, <2>1, <2>2, FoundType DEF Reread, Assigning, Labels
<1> QED
  BY <1>1, <1>2

LEMMA CreateType ==
  ASSUME TypeInv, NEW w \in Workers, Create(w)
  PROVE  TypeInv'
<1> DEFINE d == job[w].row.detail
<1>1. pc[w] = "create" /\ job[w].row \in Row /\ d \in Details
  BY DEF Create, TypeInv, Context, Assigning, Labels, Row
<1>2. CASE Signed(d) # {}
  <2>1. Goto(w, "reread") /\ UNCHANGED job
    BY <1>2 DEF Create
  <2>2. Context(w)'
    BY <1>1, <2>1, GotoKeeps DEF TypeInv, Context, Labels, Assigning, Grouping
  <2> QED
    BY <1>2, <2>1, <2>2, ControlType DEF Create, TypeInv, CoreTypeOK, AlertsType, alerts, Labels
<1>3. CASE Signed(d) = {}
  <2>1. /\ nextGroup \in GroupIds
        /\ groups' = [groups EXCEPT ![nextGroup] = NewGroup(d)]
        /\ nextGroup' = nextGroup + 1
        /\ Hold(w, nextGroup, NewGroup(d))
        /\ Goto(w, "grouped")
    BY <1>3 DEF Create
  <2>2. NewGroup(d) \in Group
    BY <1>1, NewGroupType
  <2>3. /\ pc' \in [Workers -> Labels]
        /\ pc'[w] = "grouped"
        /\ \A v \in Workers \ {w} : pc'[v] = pc[v]
    BY <2>1, GotoKeeps DEF TypeInv, Labels
  <2>4. Still(w) /\ Context(w)' /\ job' \in [Workers -> Job]
    BY <1>1, <2>1, <2>2, <2>3, HoldKeeps DEF TypeInv, Still, Context, Assigning
  <2>5. groups' \in [GroupIds -> Group \union {None}]
    BY <2>1, <2>2 DEF TypeInv, CoreTypeOK, AlertsType, alerts
  <2>6. nextGroup' \in 1..(MaxGroups + 1)
    BY <2>1, ConstantsAssumption DEF GroupIds
  <2> QED
    BY <2>3, <2>4, <2>5, <2>6, OthersKeep
       DEF Create, Outside, TypeInv, CoreTypeOK, AlertsType, alerts, PruneContext
<1> QED
  BY <1>2, <1>3

LEMMA SameGroupType ==
  ASSUME TypeInv, NEW w \in Workers, SameGroup(w)
  PROVE  TypeInv'
<1>1. Context(w)'
  BY GotoKeeps DEF SameGroup, TypeInv, Context, Labels, Assigning, Grouping
<1> QED
  BY <1>1, ControlType DEF SameGroup, TypeInv, CoreTypeOK, AlertsType, alerts, Labels

LEMMA AttachType ==
  ASSUME TypeInv, NEW w \in Workers, Attach(w)
  PROVE  TypeInv'
<1> DEFINE e == job[w].exec
           g == job[w].gid
           previous == job[w].row.groupId
<1> USE DEF TypeInv
<1>1. CASE rows[e] = None \/ g \notin Live
  BY <1>1, EndType DEF Attach, CoreTypeOK, AlertsType, alerts
<1>2. CASE ~ (rows[e] = None \/ g \notin Live)
  <2>1. /\ pc[w] = "grouped"
        /\ e \in Executions /\ g \in GroupIds /\ rows[e] \in Row /\ job[w].row \in Row
    BY <1>2 DEF Attach, Context, Assigning, Grouping, Labels, CoreTypeOK, AlertsType, alerts
  <2>2. previous \in GroupIds \union {None}
    BY <2>1 DEF Row
  <2>3. AfterAttach(previous) \in Labels
    BY DEF AfterAttach, Labels
  <2>4. /\ pc' \in [Workers -> Labels]
        /\ pc'[w] = AfterAttach(previous)
        /\ \A v \in Workers \ {w} : pc'[v] = pc[v]
    BY <1>2, <2>3, GotoKeeps DEF Attach
  <2>5. Still(w) /\ Context(w)'
    BY <1>2, <2>1, <2>2, <2>4
       DEF Attach, AfterAttach, Still, Context, Labels, Assigning, Grouping
  <2>6. rows' \in [Executions -> Row \union {None}]
    <3>1. [rows[e] EXCEPT !.groupId = g] \in Row
      BY <2>1, RowUpdates
    <3>2. rows' = [rows EXCEPT ![e] = [rows[e] EXCEPT !.groupId = g]]
      BY <1>2 DEF Attach
    <3> QED
      BY <3>1, <3>2 DEF CoreTypeOK, AlertsType, alerts
  <2> QED
    BY <1>2, <2>4, <2>5, <2>6, OthersKeep
       DEF Attach, Outside, CoreTypeOK, AlertsType, alerts, PruneContext
<1> QED
  BY <1>1, <1>2

\* recount: the aggregate, then the write of what it returned.
LEMMA AggregateType ==
  ASSUME TypeInv, NEW w \in Workers, NEW g, NEW label \in Labels,
         Aggregate(w, g), Goto(w, label),
         pc[w] \in Grouping,
         label \in {"countPrevious", "applyPrevious"} => job[w].row.groupId \in GroupIds,
         UNCHANGED <<rows, groups, journal, nextGroup, alerts>>, Outside
  PROVE  TypeInv'
<1> USE DEF TypeInv
<1>1. /\ pc' \in [Workers -> Labels]
      /\ pc'[w] = label
      /\ \A v \in Workers \ {w} : pc'[v] = pc[v]
  BY GotoKeeps
<1>2. Cardinality(Members(g)) \in Nat
  BY CountIsNat
<1>3. /\ job' \in [Workers -> Job]
      /\ job'[w].gid = job[w].gid
      /\ job'[w].seen = job[w].seen
      /\ job'[w].row = job[w].row
      /\ job'[w].exec = job[w].exec
      /\ \A v \in Workers \ {w} : job'[v] = job[v]
  BY <1>2, TotalKeeps DEF Aggregate
<1>4. Still(w) /\ Context(w)'
  BY <1>1, <1>3 DEF Still, Context, Assigning, Grouping, Labels
<1> QED
  BY <1>1, <1>3, <1>4, OthersKeep DEF Outside, CoreTypeOK, AlertsType, alerts, PruneContext

LEMMA CountPreviousType ==
  ASSUME TypeInv, NEW w \in Workers, CountPrevious(w)
  PROVE  TypeInv'
<1>1. pc[w] \in Grouping /\ job[w].row.groupId \in GroupIds /\ "applyPrevious" \in Labels
  BY DEF CountPrevious, TypeInv, Context, Assigning, Grouping, Labels
<1> QED
  BY <1>1, AggregateType DEF CountPrevious

LEMMA CountType ==
  ASSUME TypeInv, NEW w \in Workers, Count(w)
  PROVE  TypeInv'
<1>1. pc[w] \in Grouping /\ "apply" \in Labels
  BY DEF Count, Assigning, Grouping, Labels
<1> QED
  BY <1>1, AggregateType DEF Count

\* A recount that wrote, then moved on without reading the group again.
LEMMA RecountedType ==
  ASSUME TypeInv, NEW w \in Workers, NEW label \in Labels \ {"countPrevious", "applyPrevious"},
         Goto(w, label), Forget(w), pc[w] \in Grouping,
         rows' \in [Executions -> Row \union {None}],
         groups' \in [GroupIds -> Group \union {None}],
         journal' \in [GroupIds -> Nat],
         UNCHANGED <<nextGroup, alerts>>, Outside
  PROVE  TypeInv'
<1> USE DEF TypeInv
<1>1. /\ pc' \in [Workers -> Labels]
      /\ pc'[w] = label
      /\ \A v \in Workers \ {w} : pc'[v] = pc[v]
  BY GotoKeeps
<1>2. /\ job' \in [Workers -> Job]
      /\ job'[w].gid = job[w].gid
      /\ job'[w].seen = job[w].seen
      /\ job'[w].row = job[w].row
      /\ job'[w].exec = job[w].exec
      /\ \A v \in Workers \ {w} : job'[v] = job[v]
  BY TotalKeeps DEF Forget
<1>3. Still(w) /\ Context(w)'
  BY <1>1, <1>2 DEF Still, Context, Assigning, Grouping, Labels
<1> QED
  BY <1>1, <1>2, <1>3, OthersKeep DEF Outside, CoreTypeOK, AlertsType, alerts, PruneContext

LEMMA ApplyPreviousType ==
  ASSUME TypeInv, NEW w \in Workers, ApplyPrevious(w)
  PROVE  TypeInv'
<1> DEFINE g == job[w].row.groupId
           n == job[w].total
<1>1. pc[w] \in Grouping /\ g \in GroupIds /\ n \in Nat /\ CoreTypeOK
  BY DEF ApplyPrevious, TypeInv, CoreTypeOK, AlertsType, alerts, Context, Assigning, Grouping,
         Labels, Job
<1>2. CASE n = 0
  <2>1. DeleteGroup(g) /\ Goto(w, "count") /\ Forget(w)
    BY <1>2 DEF ApplyPrevious
  <2> QED
    BY <1>1, <2>1, DeleteKeeps, RecountedType DEF ApplyPrevious, Labels
<1>3. CASE n > 0 /\ g \in Live
  <2>1. StoreCount(g, n) /\ Goto(w, "count") /\ Forget(w)
    BY <1>3 DEF ApplyPrevious
  <2> QED
    BY <1>1, <1>3, <2>1, StoreKeeps, RecountedType DEF ApplyPrevious, Labels
<1>4. CASE n > 0 /\ g \notin Live
  BY <1>1, <1>4, EndType DEF ApplyPrevious, CoreTypeOK, AlertsType, alerts
<1> QED
  BY <1>1, <1>2, <1>3, <1>4

LEMMA ApplyType ==
  ASSUME TypeInv, NEW w \in Workers, Apply(w)
  PROVE  TypeInv'
<1> DEFINE g == job[w].gid
           n == job[w].total
<1>1. /\ pc[w] \in Grouping /\ g \in GroupIds /\ n \in Nat /\ CoreTypeOK
      /\ job[w].row \in Row /\ job[w].exec \in Executions
  BY DEF Apply, TypeInv, CoreTypeOK, AlertsType, alerts, Context, Assigning, Grouping, Labels, Job
<1>2. CASE n = 0
  <2>1. DeleteGroup(g) /\ Goto(w, "alert") /\ Forget(w)
    BY <1>2 DEF Apply
  <2> QED
    BY <1>1, <2>1, DeleteKeeps, RecountedType DEF Apply, Labels
<1>3. CASE n > 0 /\ g \in Live
  <2>1. StoreCount(g, n) /\ Hold(w, g, groups[g]) /\ Goto(w, "alert")
    BY <1>3 DEF Apply
  <2>2. groups[g] \in Group
    BY <1>1, <1>3, LiveType
  <2>3. /\ pc' \in [Workers -> Labels]
        /\ pc'[w] = "alert"
        /\ \A v \in Workers \ {w} : pc'[v] = pc[v]
    BY <1>1, <2>1, GotoKeeps DEF Labels
  <2>4. Still(w) /\ Context(w)' /\ job' \in [Workers -> Job]
    BY <1>1, <2>1, <2>2, <2>3, HoldKeeps DEF Still, Context, Assigning
  <2>5. /\ groups' \in [GroupIds -> Group \union {None}]
        /\ journal' \in [GroupIds -> Nat]
        /\ rows' \in [Executions -> Row \union {None}]
    BY <1>1, <1>3, <2>1, StoreKeeps
  <2> QED
    BY <2>3, <2>4, <2>5, OthersKeep
       DEF Apply, Outside, TypeInv, CoreTypeOK, AlertsType, alerts, PruneContext
<1>4. CASE n > 0 /\ g \notin Live
  BY <1>1, <1>4, EndType DEF Apply, CoreTypeOK, AlertsType, alerts
<1> QED
  BY <1>1, <1>2, <1>3, <1>4

\* A step of the alerting part that writes to a table and goes on.
LEMMA WroteType ==
  ASSUME TypeInv, NEW w \in Workers, NEW label \in Labels \ {"countPrevious", "applyPrevious"},
         pc[w] \in Grouping, Goto(w, label),
         groups' \in [GroupIds -> Group \union {None}],
         journal' \in [GroupIds -> Nat],
         UNCHANGED <<rows, nextGroup, job, alerts>>, Outside
  PROVE  TypeInv'
<1> USE DEF TypeInv
<1>1. /\ pc' \in [Workers -> Labels]
      /\ pc'[w] = label
      /\ \A v \in Workers \ {w} : pc'[v] = pc[v]
  BY GotoKeeps
<1>2. Still(w) /\ Context(w)'
  BY <1>1 DEF Still, Context, Assigning, Grouping, Labels
<1> QED
  BY <1>1, <1>2, OthersKeep DEF Outside, CoreTypeOK, AlertsType, alerts, PruneContext

LEMMA ReopenRegressedType ==
  ASSUME TypeInv, NEW w \in Workers, ReopenRegressed(w)
  PROVE  TypeInv'
<1> DEFINE g == job[w].gid
<1>1. pc[w] \in Grouping /\ CoreTypeOK
  BY DEF ReopenRegressed, TypeInv, Assigning, Grouping, Labels
<1>2. CASE g \in Live
  <2>1. groups' = [groups EXCEPT ![g] = [groups[g] EXCEPT !.status = "open", !.regressions = @ + 1]]
    BY <1>2 DEF ReopenRegressed
  <2>2. groups' \in [GroupIds -> Group \union {None}]
    BY <1>1, <1>2, <2>1, LiveType, GroupUpdates DEF CoreTypeOK, AlertsType, alerts
  <2> QED
    BY <1>1, <1>2, <2>2, WroteType DEF ReopenRegressed, CoreTypeOK, AlertsType, alerts, Labels
<1>3. CASE g \notin Live
  BY <1>1, <1>3, EndType DEF ReopenRegressed, CoreTypeOK, AlertsType, alerts
<1> QED
  BY <1>2, <1>3

LEMMA JournalRegressionType ==
  ASSUME TypeInv, NEW w \in Workers, JournalRegression(w)
  PROVE  TypeInv'
<1> DEFINE g == job[w].gid
<1>1. pc[w] \in Grouping /\ CoreTypeOK
  BY DEF JournalRegression, TypeInv, Assigning, Grouping, Labels
<1>2. CASE g \in Live
  <2>1. journal' \in [GroupIds -> Nat]
    BY <1>1, <1>2 DEF JournalRegression, CoreTypeOK, AlertsType, alerts
  <2> QED
    BY <1>1, <1>2, <2>1, WroteType DEF JournalRegression, CoreTypeOK, AlertsType, alerts, Labels
<1>3. CASE g \notin Live
  BY <1>1, <1>3, EndType DEF JournalRegression, CoreTypeOK, AlertsType, alerts
<1> QED
  BY <1>2, <1>3

LEMMA MarkNotifiedType ==
  ASSUME TypeInv, NEW w \in Workers, MarkNotified(w)
  PROVE  TypeInv'
<1> DEFINE g == job[w].gid
<1>1. pc[w] \in Grouping /\ CoreTypeOK
  BY DEF MarkNotified, TypeInv, Assigning, Grouping, Labels
<1>2. CASE g \in Live
  <2>1. groups' \in [GroupIds -> Group \union {None}]
    <3>1. groups' = [groups EXCEPT ![g] = Notified(groups[g])]
      BY <1>2 DEF MarkNotified
    <3>2. Notified(groups[g]) \in Group
      BY <1>1, <1>2, LiveType, GroupUpdates
    <3> QED
      BY <1>1, <3>1, <3>2 DEF CoreTypeOK
  <2> QED
    BY <1>1, <1>2, <2>1, WroteType DEF MarkNotified, CoreTypeOK, AlertsType, alerts, Labels
<1>3. CASE g \notin Live
  BY <1>1, <1>3, EndType DEF MarkNotified, CoreTypeOK, AlertsType, alerts
<1> QED
  BY <1>2, <1>3

LEMMA Incremented ==
  ASSUME NEW f \in [GroupIds -> Nat], NEW g \in GroupIds
  PROVE  [f EXCEPT ![g] = f[g] + 1] \in [GroupIds -> Nat]
OBVIOUS

LEMMA EmitType ==
  ASSUME TypeInv, NEW w \in Workers,
         EmitRegressed(w) \/ EmitOpened(w) \/ Recur(w) \/ HoldBack(w)
  PROVE  TypeInv'
<1>1. CoreTypeOK /\ job[w].gid \in GroupIds
  BY DEF EmitRegressed, EmitOpened, Recur, HoldBack, TypeInv, Context, Assigning, Grouping, Labels
<1>2. AlertsType'
  <2> DEFINE g == job[w].gid
  <2>1. AlertsType
    BY <1>1 DEF CoreTypeOK, AlertsType
  <2>2. CASE EmitRegressed(w)
    <3>1. /\ regressed' = [regressed EXCEPT ![g] = regressed[g] + 1]
          /\ opened' = opened /\ recurred' = recurred
      BY <2>2 DEF EmitRegressed
    <3> QED
      BY <1>1, <2>1, <3>1, Incremented DEF AlertsType
  <2>3. CASE EmitOpened(w)
    <3>1. /\ opened' = [opened EXCEPT ![g] = opened[g] + 1]
          /\ recurred' = recurred /\ regressed' = regressed
      BY <2>3 DEF EmitOpened
    <3> QED
      BY <1>1, <2>1, <3>1, Incremented DEF AlertsType
  <2>4. CASE Recur(w)
    <3>1. /\ recurred' \in {recurred, [recurred EXCEPT ![g] = recurred[g] + 1]}
          /\ opened' = opened /\ regressed' = regressed
      BY <2>4 DEF Recur
    <3> QED
      BY <1>1, <2>1, <3>1, Incremented DEF AlertsType
  <2>5. CASE HoldBack(w)
    BY <2>1, <2>5 DEF HoldBack, AlertsType, alerts
  <2> QED
    BY <2>2, <2>3, <2>4, <2>5
<1> QED
  BY <1>2, EndType DEF EmitRegressed, EmitOpened, Recur, HoldBack

LEMMA UserType == TypeInv /\ User => TypeInv'
<1> SUFFICES ASSUME TypeInv, User PROVE TypeInv'
  OBVIOUS
<1>1. CoreTypeOK
  BY DEF TypeInv
<1>2. PICK g \in GroupIds : Resolve(g) \/ Reopen(g) \/ Ignore(g)
  BY DEF User
<1>3. PICK group : group \in Group /\ Transition(g, group)
  <2>1. groups[g] \in Group /\ clock \in Nat
    BY <1>1, <1>2, LiveType DEF Resolve, Reopen, Ignore, Transition, CoreTypeOK, AlertsType, alerts
  <2>2. CASE Resolve(g)
    BY <2>1, <2>2, GroupUpdates DEF Resolve
  <2>3. CASE Reopen(g)
    BY <2>1, <2>3, GroupUpdates DEF Reopen
  <2>4. CASE Ignore(g)
    BY <2>1, <2>4, GroupUpdates DEF Ignore
  <2> QED
    BY <1>2, <2>2, <2>3, <2>4
<1>4. groups' \in [GroupIds -> Group \union {None}]
  BY <1>1, <1>3 DEF Transition, CoreTypeOK, AlertsType, alerts
<1>5. budget' \in [actions : Nat, prunes : Nat, restarts : Nat]
  BY <1>1, <1>3 DEF Transition, CoreTypeOK, AlertsType, alerts
<1> QED
  BY <1>3, <1>4, <1>5 DEF Transition, TypeInv, CoreTypeOK, AlertsType, alerts, Context, PruneContext

\* The prune and the calls do not share local variables.
LEMMA CallsUntouched ==
  ASSUME TypeInv, UNCHANGED <<pc, job>>
  PROVE  \A w \in Workers : Context(w)'
BY DEF TypeInv, Context

LEMMA PruneType == TypeInv /\ Prune => TypeInv'
<1> SUFFICES ASSUME TypeInv, Prune PROVE TypeInv'
  OBVIOUS
<1> DEFINE PruneRecord == [at : {"idle", "list", "count", "apply"}, left : SUBSET GroupIds,
                           gid : GroupIds \union {None}, total : Nat]
<1>1. CoreTypeOK /\ PruneContext /\ prune \in PruneRecord
  BY DEF TypeInv, CoreTypeOK
<1>2. ASSUME PruneRows PROVE TypeInv'
  <2>1. PICK cutoff \in 1..clock :
          LET old == {e \in Executions : rows[e] # None /\ StartedAt[e] < cutoff} IN
          /\ rows' = [e \in Executions |-> IF e \in old THEN None ELSE rows[e]]
          /\ pruned' = pruned \union old
          /\ prune' = IF old = {} THEN prune ELSE [prune EXCEPT !.at = "list"]
    BY <1>2 DEF PruneRows
  <2>2. rows' \in [Executions -> Row \union {None}] /\ pruned' \subseteq Executions
    BY <1>1, <2>1 DEF CoreTypeOK
  <2>3. [prune EXCEPT !.at = "list"] \in PruneRecord
    BY <1>1
  <2>4. prune' \in {prune, [prune EXCEPT !.at = "list"]}
    BY <2>1
  <2>5. prune' \in PruneRecord /\ (prune' = prune \/ prune'.at = "list")
    BY <1>1, <2>3, <2>4
  <2>6. budget' \in [actions : Nat, prunes : Nat, restarts : Nat]
    BY <1>1, <1>2 DEF PruneRows, CoreTypeOK
  <2> QED
    BY <1>1, <1>2, <2>2, <2>5, <2>6, CallsUntouched
    DEF PruneRows, TypeInv, CoreTypeOK, PruneContext, alerts
<1>3. ASSUME PruneList PROVE TypeInv'
  <2>1. prune' = [prune EXCEPT !.at = "count", !.left = Live] /\ Live \subseteq GroupIds
    BY <1>3 DEF PruneList, PruneStep, Live
  <2>2. prune' \in PruneRecord /\ prune'.at = "count"
    BY <1>1, <2>1
  <2> QED
    BY <1>1, <1>3, <2>2, CallsUntouched
    DEF PruneList, PruneStep, TypeInv, CoreTypeOK, PruneContext, alerts
<1>4. ASSUME PruneCount PROVE TypeInv'
  <2>1. PICK g \in prune.left :
          PruneStep([at |-> "apply", left |-> prune.left \ {g}, gid |-> g,
                     total |-> Cardinality(Members(g))])
    BY <1>4 DEF PruneCount
  <2>2. Cardinality(Members(g)) \in Nat /\ g \in GroupIds
    BY <1>1, CountIsNat
  <2>3. prune' \in PruneRecord /\ prune'.gid \in GroupIds
    BY <1>1, <2>1, <2>2 DEF PruneStep
  <2> QED
    BY <1>1, <1>4, <2>1, <2>3, CallsUntouched
    DEF PruneCount, PruneStep, TypeInv, CoreTypeOK, PruneContext, alerts
<1>5. ASSUME PruneApply PROVE TypeInv'
  <2>1. prune.gid \in GroupIds /\ prune.total \in Nat
    BY <1>1, <1>5 DEF PruneApply, PruneContext
  <2>2. /\ groups' \in [GroupIds -> Group \union {None}]
        /\ journal' \in [GroupIds -> Nat]
        /\ rows' \in [Executions -> Row \union {None}]
    <3>1. CASE prune.total = 0
      BY <1>1, <1>5, <2>1, <3>1, DeleteKeeps DEF PruneApply
    <3>2. CASE prune.total > 0 /\ prune.gid \in Live
      BY <1>1, <1>5, <2>1, <3>2, StoreKeeps DEF PruneApply
    <3>3. CASE prune.total > 0 /\ prune.gid \notin Live
      BY <1>1, <1>5, <3>3 DEF PruneApply, CoreTypeOK
    <3> QED
      BY <2>1, <3>1, <3>2, <3>3
  <2>3. prune' = [prune EXCEPT !.at = "count", !.gid = None, !.total = 0]
    BY <1>5 DEF PruneApply, PruneStep
  <2>4. prune' \in PruneRecord /\ prune'.at = "count"
    BY <1>1, <2>3
  <2> QED
    BY <1>1, <1>5, <2>2, <2>4, CallsUntouched
    DEF PruneApply, PruneStep, TypeInv, CoreTypeOK, PruneContext, alerts
<1>6. ASSUME PruneEnd PROVE TypeInv'
  <2>1. prune' = NoPrune /\ NoPrune \in PruneRecord /\ NoPrune.at = "idle"
    BY <1>6 DEF PruneEnd, PruneStep, NoPrune
  <2> QED
    BY <1>1, <1>6, <2>1, CallsUntouched
    DEF PruneEnd, PruneStep, TypeInv, CoreTypeOK, PruneContext, alerts
<1> QED
  BY <1>2, <1>3, <1>4, <1>5, <1>6 DEF Prune

LEMMA TickType == TypeInv /\ Tick => TypeInv'
<1> SUFFICES ASSUME TypeInv, Tick PROVE TypeInv'
  OBVIOUS
<1>1. clock' \in Nat
  BY DEF TypeInv, CoreTypeOK, Tick
<1> QED
  BY <1>1, CallsUntouched DEF Tick, TypeInv, CoreTypeOK, PruneContext, alerts

LEMMA RestartType == TypeInv /\ Restart => TypeInv'
<1> SUFFICES ASSUME TypeInv, Restart PROVE TypeInv'
  OBVIOUS
<1>1. budget' \in [actions : Nat, prunes : Nat, restarts : Nat]
  BY DEF TypeInv, CoreTypeOK, Restart
<1>2. /\ pc' \in [Workers -> Labels]
      /\ job' \in [Workers -> Job]
      /\ \A w \in Workers : Context(w)'
  BY DEF Restart, NoJob, Job, Labels, Context, Assigning, Grouping
<1>3. prune' \in [at : {"idle", "list", "count", "apply"}, left : SUBSET GroupIds,
                  gid : GroupIds \union {None}, total : Nat] /\ PruneContext'
  BY DEF Restart, NoPrune, PruneContext
<1> QED
  BY <1>1, <1>2, <1>3 DEF Restart, TypeInv, CoreTypeOK, alerts

LEMMA StutterType == TypeInv /\ UNCHANGED vars => TypeInv'
BY DEF vars, core, alerts, TypeInv, CoreTypeOK, Context, PruneContext

LEMMA InitType == Init => TypeInv
BY ConstantsAssumption, NoneAssumption
DEF Init, TypeInv, CoreTypeOK, Context, PruneContext, NoJob, NoPrune, Job, Labels,
    Assigning, Grouping, GroupIds

LEMMA NextType == TypeInv /\ [Next]_vars => TypeInv'
<1> SUFFICES ASSUME TypeInv, Next PROVE TypeInv'
  BY StutterType
<1>1. ASSUME NEW w \in Workers, NEW e \in Executions, Ingest(w, e) \/ Pick(w, e) \/ Regroup(w, e)
      PROVE  TypeInv'
  BY <1>1, IngestType, PickType, RegroupType
<1>2. ASSUME NEW w \in Workers, Continue(w)
      PROVE  TypeInv'
  BY <1>2, InsertType, FetchDetailType, LookupType, CreateType, RereadType, SameGroupType,
     AttachType, CountPreviousType, ApplyPreviousType, CountType, ApplyType,
     ReopenRegressedType, JournalRegressionType, MarkNotifiedType, EmitType
     DEF Continue
<1> QED
  BY <1>1, <1>2, UserType, PruneType, TickType, RestartType DEF Next, Work

---------------------------------------------------------------------------
(* The history of what two calls had in hand at once *)

HistoryType == together \in [rows : SUBSET Executions, groups : SUBSET GroupIds,
                             signatures : SUBSET Details]

RowAlone(e) == \A v, w \in Workers : HandlesRow(v, e) /\ HandlesRow(w, e) => v = w

GroupAlone(g) == \A v, w \in Workers : HandlesGroup(v, g) /\ HandlesGroup(w, g) => v = w

\* What two calls have in hand at this moment is recorded.
HistoryInv ==
    /\ HistoryType
    /\ \A e \in Executions \ together.rows : RowAlone(e)
    /\ \A g \in GroupIds \ together.groups : GroupAlone(g)
    /\ \A d \in Details \ together.signatures : ~ Clash(d)

LEMMA InitHistory == Init => HistoryInv
<1> SUFFICES ASSUME Init PROVE HistoryInv
  OBVIOUS
<1>1. \A w \in Workers : pc[w] = "idle" /\ pc[w] \notin Grouping /\ pc[w] \notin Assigning
  BY DEF Init, Assigning, Grouping
<1>2. HistoryType
  BY DEF Init, HistoryType
<1> QED
  BY <1>1, <1>2
  DEF HistoryInv, RowAlone, GroupAlone, HandlesRow, HandlesGroup, HandlesSignature, Clash

\* The record only grows, and it is up to date after every step.
LEMMA HistoryOfNext ==
  ASSUME HistoryInv, Next
  PROVE  /\ HistoryInv'
         /\ together.rows \subseteq together'.rows
         /\ together.groups \subseteq together'.groups
         /\ together.signatures \subseteq together'.signatures
         /\ \A d \in Details \ together'.signatures : ~ CutShort(d)
<1>1. Remember
  BY DEF Next
<1>2. /\ together'.rows = together.rows \union
            {e \in Executions : \E v \in Workers : \E w \in Workers \ {v} :
                (HandlesRow(v, e) /\ HandlesRow(w, e))'}
      /\ together'.groups = together.groups \union
            {g \in GroupIds : \E v \in Workers : \E w \in Workers \ {v} :
                (HandlesGroup(v, g) /\ HandlesGroup(w, g))'}
      /\ together'.signatures = together.signatures \union
            {d \in Details : Clash(d)' \/ CutShort(d)}
  BY <1>1 DEF Remember
<1>3. HistoryType'
  BY <1>1 DEF Remember, HistoryInv, HistoryType
<1>4. \A e \in Executions \ together'.rows : RowAlone(e)'
  BY <1>2 DEF RowAlone
<1>5. \A g \in GroupIds \ together'.groups : GroupAlone(g)'
  BY <1>2 DEF GroupAlone
<1>6. \A d \in Details \ together'.signatures : ~ Clash(d)' /\ ~ CutShort(d)
  BY <1>2
<1> QED
  BY <1>2, <1>3, <1>4, <1>5, <1>6 DEF HistoryInv

LEMMA StillHistory == HistoryInv /\ UNCHANGED vars => HistoryInv'
BY DEF vars, core, alerts, HistoryInv, HistoryType, RowAlone, GroupAlone, HandlesRow,
       HandlesGroup, HandlesSignature, SameRow, Clash, Live

\* The tables keep their types and a resumed call finds what it needs in its
\* local variables, however the calls of any number of workers interleave.
THEOREM TypeCorrect == Spec => []TypeOK
<1>1. Init => TypeInv /\ HistoryInv
  BY InitType, InitHistory
<1>2. TypeInv /\ HistoryInv /\ [Next]_vars => (TypeInv /\ HistoryInv)'
  BY NextType, HistoryOfNext, StillHistory
<1>3. TypeInv /\ HistoryInv => TypeOK
  BY DEF TypeInv, HistoryInv, HistoryType, TypeOK
<1> QED
  BY <1>1, <1>2, <1>3, PTL DEF Spec

---------------------------------------------------------------------------
(* What a step may do to the tables and to a call, whatever the step is.   *)
(* The theorems below only need these effects.                             *)

\* Group h keeps its signature and its announcement, or goes away.
SameFace(h) ==
    groups'[h] # None =>
        /\ groups[h] # None
        /\ groups'[h].signature = groups[h].signature
        /\ groups'[h].notified = groups[h].notified

FacesKept == \A h \in GroupIds : SameFace(h)

LEMMA FaceOfUnchanged == UNCHANGED groups => FacesKept
BY DEF FacesKept, SameFace

LEMMA FaceOfDelete ==
  ASSUME CoreTypeOK, NEW g \in GroupIds, DeleteGroup(g)
  PROVE  FacesKept
BY DEF CoreTypeOK, DeleteGroup, FacesKept, SameFace

LEMMA FaceOfUpdate ==
  ASSUME CoreTypeOK, NEW g \in Live, NEW group,
         groups' = [groups EXCEPT ![g] = group],
         group.signature = groups[g].signature, group.notified = groups[g].notified
  PROVE  FacesKept
BY LiveType DEF CoreTypeOK, FacesKept, SameFace, Live

LEMMA FaceOfStore ==
  ASSUME CoreTypeOK, NEW g \in Live, NEW n, StoreCount(g, n)
  PROVE  FacesKept
<1>1. groups' = [groups EXCEPT ![g] = [groups[g] EXCEPT !.occurrences = n]]
  BY DEF StoreCount
<1>2. groups[g] \in Group
  BY LiveType
<1>3. /\ [groups[g] EXCEPT !.occurrences = n].signature = groups[g].signature
      /\ [groups[g] EXCEPT !.occurrences = n].notified = groups[g].notified
  BY <1>2 DEF Group
<1> QED
  BY <1>1, <1>3, FaceOfUpdate

LEMMA FacesStep ==
  ASSUME TypeInv, Next,
         \A w \in Workers : ~ Create(w) /\ ~ MarkNotified(w)
  PROVE  FacesKept
<1>1. CoreTypeOK
  BY DEF TypeInv
<1>2. ASSUME NEW w \in Workers, NEW e \in Executions, Ingest(w, e) \/ Pick(w, e) \/ Regroup(w, e)
      PROVE  FacesKept
  BY <1>2, FaceOfUnchanged DEF Ingest, Pick, Regroup
<1>3. ASSUME NEW w \in Workers, Continue(w)
      PROVE  FacesKept
  <2>1. CASE \/ Insert(w) \/ FetchDetail(w) \/ Lookup(w) \/ Reread(w) \/ SameGroup(w)
             \/ Attach(w) \/ CountPrevious(w) \/ Count(w) \/ JournalRegression(w)
             \/ EmitRegressed(w) \/ Recur(w) \/ HoldBack(w) \/ EmitOpened(w)
    BY <2>1, FaceOfUnchanged
    DEF Insert, FetchDetail, Lookup, Reread, SameGroup, Attach, CountPrevious, Count,
        JournalRegression, EmitRegressed, Recur, HoldBack, EmitOpened
  <2>2. CASE ApplyPrevious(w)
    <3>1. job[w].row.groupId \in GroupIds
      BY <2>2 DEF ApplyPrevious, TypeInv, Context
    <3> QED
      BY <1>1, <2>2, <3>1, FaceOfDelete, FaceOfStore, FaceOfUnchanged DEF ApplyPrevious
  <2>3. CASE Apply(w)
    <3>1. job[w].gid \in GroupIds
      BY <2>3 DEF Apply, TypeInv, Context, Grouping, Assigning, Labels
    <3> QED
      BY <1>1, <2>3, <3>1, FaceOfDelete, FaceOfStore, FaceOfUnchanged DEF Apply
  <2>4. CASE ReopenRegressed(w)
    <3> DEFINE g == job[w].gid
    <3>1. CASE g \notin Live
      BY <2>4, <3>1, FaceOfUnchanged DEF ReopenRegressed
    <3>2. CASE g \in Live
      <4>1. groups' = [groups EXCEPT ![g] =
                         [groups[g] EXCEPT !.status = "open", !.regressions = @ + 1]]
        BY <2>4, <3>2 DEF ReopenRegressed
      <4>2. groups[g] \in Group
        BY <1>1, <3>2, LiveType
      <4>3. \A n : LET group == [groups[g] EXCEPT !.status = "open", !.regressions = n] IN
                   group.signature = groups[g].signature /\ group.notified = groups[g].notified
        BY <4>2 DEF Group
      <4> QED
        BY <1>1, <3>2, <4>1, <4>3, FaceOfUpdate
    <3> QED
      BY <3>1, <3>2
  <2> QED
    BY <1>3, <2>1, <2>2, <2>3, <2>4 DEF Continue
<1>4. ASSUME User PROVE FacesKept
  <2>1. PICK g \in GroupIds : Resolve(g) \/ Reopen(g) \/ Ignore(g)
    BY <1>4 DEF User
  <2>2. g \in Live /\ groups[g] \in Group
    BY <1>1, <2>1, LiveType DEF Resolve, Reopen, Ignore, Transition
  <2>3. PICK group : /\ groups' = [groups EXCEPT ![g] = group]
                     /\ group.signature = groups[g].signature
                     /\ group.notified = groups[g].notified
    <3>1. CASE Resolve(g)
      <4>1. groups' = [groups EXCEPT ![g] =
                         [groups[g] EXCEPT !.status = "resolved", !.resolvedAt = clock]]
        BY <3>1 DEF Resolve, Transition
      <4>2. LET group == [groups[g] EXCEPT !.status = "resolved", !.resolvedAt = clock] IN
            group.signature = groups[g].signature /\ group.notified = groups[g].notified
        BY <2>2 DEF Group
      <4> QED
        BY <4>1, <4>2
    <3>2. CASE Reopen(g) \/ Ignore(g)
      <4>1. PICK s : groups' = [groups EXCEPT ![g] = [groups[g] EXCEPT !.status = s]]
        BY <3>2 DEF Reopen, Ignore, Transition
      <4>2. LET group == [groups[g] EXCEPT !.status = s] IN
            group.signature = groups[g].signature /\ group.notified = groups[g].notified
        BY <2>2 DEF Group
      <4> QED
        BY <4>1, <4>2
    <3> QED
      BY <2>1, <3>1, <3>2
  <2> QED
    BY <1>1, <2>2, <2>3, FaceOfUpdate
<1>5. ASSUME Prune PROVE FacesKept
  <2>1. CASE PruneRows \/ PruneList \/ PruneCount \/ PruneEnd
    BY <2>1, FaceOfUnchanged DEF PruneRows, PruneList, PruneCount, PruneEnd
  <2>2. CASE PruneApply
    <3>1. prune.gid \in GroupIds
      BY <2>2 DEF PruneApply, TypeInv, PruneContext
    <3> QED
      BY <1>1, <2>2, <3>1, FaceOfDelete, FaceOfStore, FaceOfUnchanged DEF PruneApply
  <2> QED
    BY <1>5, <2>1, <2>2 DEF Prune
<1>6. ASSUME Tick \/ Restart PROVE FacesKept
  BY <1>6, FaceOfUnchanged DEF Tick, Restart
<1> QED
  BY <1>2, <1>3, <1>4, <1>5, <1>6 DEF Next, Work

\* A call begins assign() with the row as the table has it.
Entering(v) ==
    /\ pc'[v] = "lookup"
    /\ job'[v].exec \in Executions
    /\ rows'[job'[v].exec] # None
    /\ job'[v].row = rows'[job'[v].exec]

\* A call goes on with the row it had.
Following(v) ==
    /\ pc[v] \in Assigning
    /\ job'[v].row = job[v].row
    /\ job'[v].exec = job[v].exec

\* What the call knows of the announcement is what it knew, or the present.
SeenKept(v) ==
    \/ job'[v].seen = job[v].seen
    \/ groups'[job'[v].gid] # None /\ job'[v].seen.notified = groups'[job'[v].gid].notified

\* A call goes on with the group it had.
SameTarget(v) ==
    pc[v] \in Grouping /\ job'[v].gid = job[v].gid /\ SeenKept(v)

\* A call just read or created the group of its row's signature.
NewTarget(v) ==
    /\ pc[v] \notin Grouping
    /\ job'[v].gid \in GroupIds
    /\ groups'[job'[v].gid] # None
    /\ groups'[job'[v].gid].signature = job[v].row.detail
    /\ job'[v].seen.notified = groups'[job'[v].gid].notified

CallStep(v) ==
    pc'[v] \in Assigning =>
        \/ Entering(v)
        \/ Following(v) /\ (pc'[v] \in Grouping => SameTarget(v) \/ NewTarget(v))

LEMMA CallOfIdle ==
  ASSUME NEW v \in Workers, pc'[v] \notin Assigning
  PROVE  CallStep(v)
BY DEF CallStep

LEMMA CallOfFinish ==
  ASSUME CoreTypeOK, NEW w \in Workers, Finish(w)
  PROVE  CallStep(w)
BY CallOfIdle DEF CoreTypeOK, Finish, Assigning

LEMMA CallOfStill ==
  ASSUME NEW v \in Workers, pc'[v] = pc[v], job'[v] = job[v]
  PROVE  CallStep(v)
BY DEF CallStep, Following, SameTarget, SeenKept

LEMMA CallOfGoto ==
  ASSUME CoreTypeOK, NEW w \in Workers, NEW label \in Labels, Goto(w, label),
         pc[w] \in Assigning, pc[w] \in Grouping \/ label \notin Grouping,
         job'[w].row = job[w].row, job'[w].exec = job[w].exec,
         job'[w].gid = job[w].gid, job'[w].seen = job[w].seen
  PROVE  CallStep(w)
<1>1. pc'[w] = label
  BY GotoKeeps
<1> QED
  BY <1>1 DEF CallStep, Following, SameTarget, SeenKept

LEMMA CallOfFound ==
  ASSUME CoreTypeOK, NEW w \in Workers, NEW g \in Live, Hold(w, g, groups[g]),
         pc[w] \in Assigning \ Grouping, Goto(w, "grouped"), UNCHANGED groups,
         groups[g].signature = job[w].row.detail
  PROVE  CallStep(w)
<1>1. g \in GroupIds /\ groups[g] \in Group /\ groups'[g] # None
  BY LiveType DEF Live
<1>2. /\ job'[w].gid = g
      /\ job'[w].seen.notified = groups'[g].notified
      /\ job'[w].row = job[w].row
      /\ job'[w].exec = job[w].exec
  BY <1>1, HoldKeeps, SnapshotNotified
<1> QED
  BY <1>1, <1>2 DEF CallStep, Following, NewTarget

LEMMA CallsStep ==
  ASSUME TypeInv, NEW w \in Workers, Work(w)
  PROVE  CallStep(w)
<1> USE DEF TypeInv
<1>1. ASSUME NEW e \in Executions, Ingest(w, e) \/ Pick(w, e) PROVE CallStep(w)
  BY <1>1, CallOfIdle DEF Ingest, Pick, Goto, CoreTypeOK, Assigning
<1>2. ASSUME NEW e \in Executions, Regroup(w, e) PROVE CallStep(w)
  <2>1. /\ job \in [Workers -> Job] /\ job' = [job EXCEPT ![w].exec = e, ![w].row = rows[e]]
        /\ Goto(w, "lookup") /\ rows' = rows /\ rows[e] # None
    BY <1>2 DEF Regroup, CoreTypeOK
  <2>2. job'[w].row = rows[e] /\ job'[w].exec = e
    BY <2>1 DEF Job
  <2>3. pc'[w] = "lookup"
    BY <2>1, GotoKeeps DEF Labels
  <2> QED
    BY <2>1, <2>2, <2>3 DEF CallStep, Entering
<1>3. ASSUME Insert(w) PROVE CallStep(w)
  <2>1. CASE Finish(w)
    BY <2>1, CallOfFinish
  <2>2. CASE ~ Finish(w)
    <3>1. /\ job \in [Workers -> Job] /\ job' = [job EXCEPT ![w].row = NewRow]
          /\ rows' = [rows EXCEPT ![job[w].exec] = NewRow]
          /\ Goto(w, "lookup") /\ job[w].exec \in Executions
      BY <1>3, <2>2 DEF Insert, CoreTypeOK, Context
    <3>2. job'[w].row = NewRow /\ job'[w].exec = job[w].exec
      BY <3>1 DEF Job
    <3>3. pc'[w] = "lookup"
      BY <3>1, GotoKeeps DEF Labels
    <3>4. rows'[job[w].exec] = NewRow /\ NewRow # None
      BY <3>1, NewRowType, NoneAssumption DEF CoreTypeOK
    <3> QED
      BY <3>1, <3>2, <3>3, <3>4 DEF CallStep, Entering
  <2> QED
    BY <2>1, <2>2
<1>4. ASSUME FetchDetail(w) PROVE CallStep(w)
  <2> DEFINE e == job[w].exec
  <2>1. CASE Finish(w)
    BY <2>1, CallOfFinish
  <2>2. CASE ~ Finish(w)
    <3>1. /\ rows[e] # None /\ e \in Executions
          /\ Goto(w, "lookup")
      BY <1>4, <2>2 DEF FetchDetail, Context
    <3>2. PICK row \in {Answered(rows[e], DetailOf[e]), Answered(rows[e], NoDetail),
                        Failed(rows[e])} :
            rows' = [rows EXCEPT ![e] = row] /\ job' = [job EXCEPT ![w].row = row]
      BY <1>4, <2>2 DEF FetchDetail
    <3>3. row \in Row
      <4>1. rows[e] \in Row /\ DetailOf[e] \in Details
        BY <3>1, ConstantsAssumption DEF CoreTypeOK
      <4> QED
        BY <3>2, <4>1, RowUpdates, ConstantsAssumption
    <3>4. job'[w].row = row /\ job'[w].exec = e
      BY <3>2, <3>3 DEF CoreTypeOK, Job
    <3>5. rows'[e] = row /\ row # None
      BY <3>1, <3>2, <3>3, NoneAssumption DEF CoreTypeOK
    <3>6. pc'[w] = "lookup"
      BY <3>1, GotoKeeps DEF Labels
    <3> QED
      BY <3>1, <3>4, <3>5, <3>6 DEF CallStep, Entering
  <2> QED
    BY <2>1, <2>2
<1>5. ASSUME Lookup(w) \/ Reread(w) PROVE CallStep(w)
  <2>1. CASE \E g \in Signed(job[w].row.detail) : Hold(w, g, groups[g]) /\ Goto(w, "grouped")
    <3>1. PICK g \in Signed(job[w].row.detail) : Hold(w, g, groups[g]) /\ Goto(w, "grouped")
      BY <2>1
    <3>2. g \in Live /\ groups[g].signature = job[w].row.detail
      BY DEF Signed
    <3>3. pc[w] \in Assigning \ Grouping /\ UNCHANGED groups
      BY <1>5 DEF Lookup, Reread, Assigning, Grouping, Labels
    <3> QED
      BY <3>1, <3>2, <3>3, CallOfFound
  <2>2. CASE Goto(w, "create") /\ UNCHANGED job
    <3>1. pc[w] \in Assigning /\ "create" \in Labels \ Grouping
      BY <1>5 DEF Lookup, Reread, Assigning, Grouping, Labels
    <3> QED
      BY <2>2, <3>1, CallOfGoto
  <2>3. CASE Finish(w)
    BY <2>3, CallOfFinish
  <2> QED
    BY <1>5, <2>1, <2>2, <2>3 DEF Lookup, Reread
<1>6. ASSUME Create(w) PROVE CallStep(w)
  <2> DEFINE d == job[w].row.detail
  <2>1. pc[w] \in Assigning \ Grouping /\ d \in Details
    BY <1>6 DEF Create, Context, Assigning, Grouping, Labels, Row
  <2>2. CASE Goto(w, "reread") /\ UNCHANGED job
    <3>1. "reread" \in Labels \ Grouping
      BY DEF Assigning, Grouping, Labels
    <3> QED
      BY <2>1, <2>2, <3>1, CallOfGoto
  <2>3. CASE ~ (Goto(w, "reread") /\ UNCHANGED job)
    <3>1. /\ nextGroup \in GroupIds
          /\ groups' = [groups EXCEPT ![nextGroup] = NewGroup(d)]
          /\ Hold(w, nextGroup, NewGroup(d))
      BY <1>6, <2>3 DEF Create
    <3>2. NewGroup(d) \in Group /\ NewGroup(d) # None /\ NewGroup(d).signature = d
      BY <2>1, NewGroupType, NoneAssumption DEF NewGroup
    <3>3. groups'[nextGroup] = NewGroup(d)
      BY <3>1 DEF CoreTypeOK
    <3>4. /\ job'[w].gid = nextGroup
          /\ job'[w].seen.notified = NewGroup(d).notified
          /\ job'[w].row = job[w].row
          /\ job'[w].exec = job[w].exec
      BY <3>1, <3>2, HoldKeeps, SnapshotNotified
    <3> QED
      BY <2>1, <3>1, <3>2, <3>3, <3>4 DEF CallStep, Following, NewTarget
  <2> QED
    BY <2>2, <2>3
<1>7. ASSUME \/ SameGroup(w) \/ Attach(w)
             \/ ReopenRegressed(w) \/ JournalRegression(w) \/ MarkNotified(w)
             \/ EmitRegressed(w) \/ Recur(w) \/ HoldBack(w) \/ EmitOpened(w)
      PROVE CallStep(w)
  <2>1. CASE Finish(w)
    BY <2>1, CallOfFinish
  <2>2. CASE ~ Finish(w)
    <3>1. UNCHANGED job /\ pc[w] \in Grouping /\ pc[w] \in Assigning
      BY <1>7, <2>2 DEF SameGroup, Attach, ReopenRegressed, JournalRegression, MarkNotified,
                        EmitRegressed, Recur, HoldBack, EmitOpened, Assigning, Grouping, Labels
    <3>2. PICK label \in Labels : Goto(w, label)
      BY <1>7, <2>2 DEF SameGroup, Attach, ReopenRegressed, JournalRegression, MarkNotified,
                        EmitRegressed, Recur, HoldBack, EmitOpened, AfterAttach, Labels
    <3> QED
      BY <3>1, <3>2, CallOfGoto
  <2> QED
    BY <2>1, <2>2
<1>8. ASSUME CountPrevious(w) \/ Count(w) \/ ApplyPrevious(w) \/ Apply(w) PROVE CallStep(w)
  <2>1. pc[w] \in Grouping /\ pc[w] \in Assigning /\ job[w].gid \in GroupIds
    BY <1>8 DEF CountPrevious, Count, ApplyPrevious, Apply, Context, Assigning, Grouping, Labels
  <2>2. CASE Finish(w)
    BY <2>2, CallOfFinish
  <2>3. CASE /\ ~ Finish(w)
             /\ \E n \in Nat : job' = [job EXCEPT ![w].total = n]
    <3>1. PICK label \in Labels : Goto(w, label)
      BY <1>8, <2>3 DEF CountPrevious, Count, ApplyPrevious, Apply, Labels
    <3> QED
      BY <2>1, <2>3, <3>1, TotalKeeps, CallOfGoto
  <2>4. CASE /\ ~ Finish(w)
             /\ ~ \E n \in Nat : job' = [job EXCEPT ![w].total = n]
    <3> DEFINE g == job[w].gid
    <3>1. /\ g \in Live
          /\ StoreCount(g, job[w].total)
          /\ Hold(w, g, groups[g])
      BY <1>8, <2>4, CountIsNat DEF CountPrevious, Count, ApplyPrevious, Apply, Forget, Aggregate
    <3>2. groups[g] \in Group /\ groups[g] # None
      BY <3>1, LiveType DEF Live
    <3>3. groups'[g] # None /\ groups'[g].notified = groups[g].notified
      <4>1. groups'[g] = [groups[g] EXCEPT !.occurrences = job[w].total]
        BY <2>1, <3>1 DEF StoreCount, CoreTypeOK
      <4>2. job[w].total \in Nat
        BY DEF CoreTypeOK, Job
      <4>3. groups'[g] \in Group
        BY <3>2, <4>1, <4>2, GroupUpdates
      <4> QED
        BY <3>2, <4>1, <4>3, NoneAssumption DEF Group
    <3>4. /\ job'[w].gid = g
          /\ job'[w].seen.notified = groups[g].notified
          /\ job'[w].row = job[w].row
          /\ job'[w].exec = job[w].exec
      BY <2>1, <3>1, <3>2, HoldKeeps, SnapshotNotified
    <3> QED
      BY <2>1, <3>3, <3>4 DEF CallStep, Following, SameTarget, SeenKept
  <2> QED
    BY <2>2, <2>3, <2>4
<1> QED
  BY <1>1, <1>2, <1>3, <1>4, <1>5, <1>6, <1>7, <1>8 DEF Work, Continue

\* A group keeps its signature; only Create brings one, only MarkNotified
\* announces one, and no announcement is taken back.
FaceStep(h) ==
    groups'[h] # None =>
        \/ /\ groups[h] # None
           /\ groups'[h].signature = groups[h].signature
           /\ groups[h].notified => groups'[h].notified
           /\ groups'[h].notified =>
                groups[h].notified \/ \E w \in Workers : MarkNotified(w) /\ job[w].gid = h
        \/ /\ h = nextGroup /\ nextGroup' = nextGroup + 1
           /\ ~ groups'[h].notified

LEMMA FacesOfNext ==
  ASSUME TypeInv, Next
  PROVE  \A h \in GroupIds : FaceStep(h)
<1>0. CoreTypeOK
  BY DEF TypeInv
<1>1. CASE \A w \in Workers : ~ Create(w) /\ ~ MarkNotified(w)
  BY <1>1, FacesStep DEF FacesKept, SameFace, FaceStep
<1>2. ASSUME NEW w \in Workers, Create(w) PROVE \A h \in GroupIds : FaceStep(h)
  <2> DEFINE d == job[w].row.detail
  <2>1. CASE UNCHANGED groups
    BY <2>1 DEF FaceStep
  <2>2. CASE ~ UNCHANGED groups
    <3>1. /\ nextGroup \in GroupIds /\ nextGroup' = nextGroup + 1
          /\ groups' = [groups EXCEPT ![nextGroup] = NewGroup(d)]
      BY <1>2, <2>2 DEF Create
    <3>2. ~ NewGroup(d).notified
      BY DEF NewGroup
    <3> QED
      BY <1>0, <3>1, <3>2 DEF FaceStep, CoreTypeOK
  <2> QED
    BY <2>1, <2>2
<1>3. ASSUME NEW w \in Workers, MarkNotified(w) PROVE \A h \in GroupIds : FaceStep(h)
  <2> DEFINE g == job[w].gid
  <2>1. CASE UNCHANGED groups
    BY <2>1 DEF FaceStep
  <2>2. CASE ~ UNCHANGED groups
    <3>1. g \in Live /\ groups' = [groups EXCEPT ![g] = Notified(groups[g])]
      BY <1>3, <2>2 DEF MarkNotified
    <3>2. g \in GroupIds /\ groups[g] \in Group /\ groups[g] # None
      BY <1>0, <3>1, LiveType DEF Live
    <3>3. Notified(groups[g]).signature = groups[g].signature /\ Notified(groups[g]).notified
      BY <3>2 DEF Notified, Group
    <3> QED
      BY <1>0, <1>3, <3>1, <3>2, <3>3 DEF FaceStep, CoreTypeOK
  <2> QED
    BY <2>1, <2>2
<1> QED
  BY <1>1, <1>2, <1>3

\* The prune took the row; a recount deleted its group.
Removed(e) == rows'[e] = None /\ e \in pruned'

Detached(e) ==
    /\ rows[e] # None
    /\ rows[e].groupId \in GroupIds
    /\ groups'[rows[e].groupId] = None
    /\ rows'[e] = [rows[e] EXCEPT !.groupId = None]

\* A call created the row, stored what the platform answered, or put the row in
\* its group.
Inserted(w, e) ==
    /\ pc[w] = "insert" /\ job[w].exec = e
    /\ rows[e] = None
    /\ rows'[e] = NewRow
    /\ pc'[w] = "lookup" /\ job'[w].exec = e /\ job'[w].row = NewRow

Fetched(w, e) ==
    /\ pc[w] = "call" /\ job[w].exec = e
    /\ rows[e] # None
    /\ rows'[e] \in Row
    /\ rows'[e].detailState # "pending"
    /\ rows'[e].groupId = rows[e].groupId
    /\ pc'[w] = "lookup" /\ job'[w].exec = e /\ job'[w].row = rows'[e]

Joining(w, e) ==
    /\ pc[w] = "grouped" /\ job[w].exec = e
    /\ rows[e] # None
    /\ job[w].gid \in Live
    /\ rows'[e] = [rows[e] EXCEPT !.groupId = job[w].gid]
    /\ pc'[w] \in {"count", "countPrevious"} /\ job'[w] = job[w]
    /\ UNCHANGED groups

RowMove(e) ==
    \/ rows'[e] = rows[e]
    \/ Detached(e)
    \/ \E w \in Workers : Inserted(w, e) \/ Fetched(w, e) \/ Joining(w, e)

RowStep(e) == RowMove(e) \/ Removed(e)

LEMMA RowOfDelete ==
  ASSUME CoreTypeOK, NEW g \in GroupIds, DeleteGroup(g)
  PROVE  \A e \in Executions : RowMove(e)
BY DEF CoreTypeOK, DeleteGroup, Members, RowMove, Detached

LEMMA RowOfInsert ==
  ASSUME TypeInv, NEW w \in Workers, Insert(w)
  PROVE  \A e \in Executions : RowMove(e)
<1> DEFINE e == job[w].exec
<1>0. CoreTypeOK
  BY DEF TypeInv
<1>1. CASE UNCHANGED rows
  BY <1>1 DEF RowMove
<1>2. CASE ~ UNCHANGED rows
  <2>1. /\ pc[w] = "insert" /\ e \in Executions
        /\ rows[e] = None /\ rows' = [rows EXCEPT ![e] = NewRow]
        /\ job' = [job EXCEPT ![w].row = NewRow]
        /\ Goto(w, "lookup")
    BY <1>2 DEF Insert, TypeInv, Context
  <2>2. pc'[w] = "lookup"
    BY <1>0, <2>1, GotoKeeps DEF Labels
  <2>3. job'[w].exec = e /\ job'[w].row = NewRow
    BY <1>0, <2>1 DEF CoreTypeOK, Job
  <2>4. Inserted(w, e) /\ \A f \in Executions \ {e} : rows'[f] = rows[f]
    BY <1>0, <2>1, <2>2, <2>3 DEF Inserted, CoreTypeOK
  <2> HIDE DEF e
  <2> QED
    BY <2>4 DEF RowMove
<1> QED
  BY <1>1, <1>2

LEMMA RowOfFetch ==
  ASSUME TypeInv, NEW w \in Workers, FetchDetail(w)
  PROVE  \A e \in Executions : RowMove(e)
<1> DEFINE e == job[w].exec
<1>0. CoreTypeOK
  BY DEF TypeInv
<1>1. CASE UNCHANGED rows
  BY <1>1 DEF RowMove
<1>2. CASE ~ UNCHANGED rows
  <2>1. PICK row \in {Answered(rows[e], DetailOf[e]), Answered(rows[e], NoDetail),
                      Failed(rows[e])} :
          /\ rows' = [rows EXCEPT ![e] = row] /\ rows[e] # None
          /\ job' = [job EXCEPT ![w].row = row]
    BY <1>2 DEF FetchDetail
  <2>2. /\ e \in Executions /\ rows[e] \in Row /\ DetailOf[e] \in Details
        /\ pc[w] = "call" /\ Goto(w, "lookup")
    BY <1>0, <1>2, <2>1, ConstantsAssumption DEF FetchDetail, TypeInv, Context, CoreTypeOK
  <2>3. row \in Row
    BY <2>1, <2>2, RowUpdates, ConstantsAssumption
  <2>4. row.detailState # "pending" /\ row.groupId = rows[e].groupId
    <3>1. \A d \in Details : /\ Answered(rows[e], d).detailState # "pending"
                             /\ Answered(rows[e], d).groupId = rows[e].groupId
      BY <2>2 DEF Answered, Row
    <3>2. /\ Failed(rows[e]).detailState # "pending"
          /\ Failed(rows[e]).groupId = rows[e].groupId
      BY <2>2 DEF Failed, Row
    <3> QED
      BY <2>1, <2>2, <3>1, <3>2, ConstantsAssumption
  <2>5. pc'[w] = "lookup"
    BY <1>0, <2>2, GotoKeeps DEF Labels
  <2>6. job'[w].exec = e /\ job'[w].row = row
    BY <1>0, <2>1, <2>3 DEF CoreTypeOK, Job
  <2>7. rows'[e] = row /\ \A f \in Executions \ {e} : rows'[f] = rows[f]
    BY <1>0, <2>1, <2>2 DEF CoreTypeOK
  <2>8. Fetched(w, e)
    BY <2>1, <2>2, <2>3, <2>4, <2>5, <2>6, <2>7 DEF Fetched
  <2> HIDE DEF e
  <2> QED
    BY <2>7, <2>8 DEF RowMove
<1> QED
  BY <1>1, <1>2

LEMMA RowOfAttach ==
  ASSUME TypeInv, NEW w \in Workers, Attach(w)
  PROVE  \A e \in Executions : RowMove(e)
<1> DEFINE e == job[w].exec
           g == job[w].gid
<1>0. CoreTypeOK
  BY DEF TypeInv
<1>1. CASE UNCHANGED rows
  BY <1>1 DEF RowMove
<1>2. CASE ~ UNCHANGED rows
  <2>1. /\ pc[w] = "grouped" /\ rows[e] # None /\ g \in Live
        /\ rows' = [rows EXCEPT ![e].groupId = g]
        /\ Goto(w, AfterAttach(job[w].row.groupId))
        /\ UNCHANGED <<job, groups>>
    BY <1>2 DEF Attach
  <2>2. e \in Executions
    BY <2>1 DEF TypeInv, Context
  <2>3. pc'[w] \in {"count", "countPrevious"}
    BY <1>0, <2>1, GotoKeeps DEF AfterAttach, Labels
  <2>4. /\ rows'[e] = [rows[e] EXCEPT !.groupId = g]
        /\ \A f \in Executions \ {e} : rows'[f] = rows[f]
    BY <1>0, <2>1, <2>2 DEF CoreTypeOK
  <2>5. Joining(w, e)
    BY <2>1, <2>3, <2>4 DEF Joining
  <2> HIDE DEF e
  <2> QED
    BY <2>4, <2>5 DEF RowMove
<1> QED
  BY <1>1, <1>2

\* The prune aside, nothing else happens to a row.
LEMMA RowsMove ==
  ASSUME TypeInv, Next, ~ Prune
  PROVE  \A e \in Executions : RowMove(e)
<1>0. CoreTypeOK
  BY DEF TypeInv
<1>1. ASSUME NEW w \in Workers, Work(w) PROVE \A e \in Executions : RowMove(e)
  <2>1. CASE ApplyPrevious(w) \/ Apply(w)
    <3>1. UNCHANGED rows \/ \E g \in GroupIds : DeleteGroup(g)
      BY <2>1
      DEF ApplyPrevious, Apply, StoreCount, TypeInv, Context, Assigning, Grouping, Labels
    <3> QED
      BY <1>0, <3>1, RowOfDelete DEF RowMove
  <2>2. CASE Insert(w) \/ FetchDetail(w) \/ Attach(w)
    BY <2>2, RowOfInsert, RowOfFetch, RowOfAttach
  <2>3. CASE UNCHANGED rows
    BY <2>3 DEF RowMove
  <2> QED
    BY <1>1, <2>1, <2>2, <2>3
    DEF Work, Continue, Ingest, Pick, Regroup, Lookup, Create, Reread, SameGroup,
        CountPrevious, Count, ReopenRegressed, JournalRegression, EmitRegressed, Recur,
        HoldBack, MarkNotified, EmitOpened
<1>2. ASSUME User \/ Tick \/ Restart PROVE \A e \in Executions : RowMove(e)
  BY <1>2 DEF RowMove, User, Resolve, Reopen, Ignore, Transition, Tick, Restart
<1> QED
  BY <1>1, <1>2 DEF Next

\* What the prune takes stays away.
LEMMA RowsOfNext ==
  ASSUME TypeInv, Next
  PROVE  (\A e \in Executions : RowStep(e)) /\ pruned \subseteq pruned'
<1>0. CoreTypeOK
  BY DEF TypeInv
<1>1. CASE ~ Prune
  <2>1. ASSUME NEW w \in Workers, Work(w) PROVE UNCHANGED pruned
    BY <2>1
    DEF Work, Continue, Outside, Ingest, Pick, Regroup, Insert, FetchDetail, Lookup, Create,
        Reread, SameGroup, Attach, CountPrevious, ApplyPrevious, Count, Apply, ReopenRegressed,
        JournalRegression, EmitRegressed, Recur, HoldBack, MarkNotified, EmitOpened
  <2>2. ASSUME User \/ Tick \/ Restart PROVE UNCHANGED pruned
    BY <2>2 DEF User, Resolve, Reopen, Ignore, Transition, Tick, Restart
  <2> QED
    BY <1>1, <2>1, <2>2, RowsMove DEF Next, RowStep
<1>2. ASSUME Prune
      PROVE  (\A e \in Executions : RowStep(e)) /\ pruned \subseteq pruned'
  <2>1. CASE PruneRows
    <3>1. PICK old \in SUBSET Executions :
            /\ rows' = [e \in Executions |-> IF e \in old THEN None ELSE rows[e]]
            /\ pruned' = pruned \union old
      BY <2>1 DEF PruneRows
    <3> QED
      BY <3>1 DEF RowStep, RowMove, Removed
  <2>2. CASE PruneList \/ PruneCount \/ PruneEnd
    BY <2>2 DEF PruneList, PruneCount, PruneEnd, PruneStep, RowStep, RowMove
  <2>3. CASE PruneApply
    <3>1. UNCHANGED pruned /\ (UNCHANGED rows \/ \E g \in GroupIds : DeleteGroup(g))
      BY <2>3 DEF PruneApply, PruneStep, StoreCount, TypeInv, PruneContext
    <3> QED
      BY <1>0, <3>1, RowOfDelete DEF RowStep, RowMove
  <2> QED
    BY <1>2, <2>1, <2>2, <2>3 DEF Prune
<1> QED
  BY <1>1, <1>2

---------------------------------------------------------------------------
(* A call steps from label to label *)

\* One call moves at a time, unless the process restarts.
LEMMA StillOfWork ==
  ASSUME TypeInv, NEW w \in Workers, Work(w)
  PROVE  Still(w)
<1>1. \A v \in Workers \ {w} : pc'[v] = pc[v]
  BY GotoKeeps, FinishKeeps
  DEF Work, Continue, Goto, Finish, TypeInv, CoreTypeOK, Ingest, Pick, Regroup, Insert,
      FetchDetail, Lookup, Create, Reread, SameGroup, Attach, CountPrevious, ApplyPrevious,
      Count, Apply, ReopenRegressed, JournalRegression, EmitRegressed, Recur, HoldBack,
      MarkNotified, EmitOpened
<1>2. \A v \in Workers \ {w} : job'[v] = job[v]
  BY DEF Work, Continue, Hold, Forget, Aggregate, Finish, TypeInv, CoreTypeOK, Ingest, Pick,
      Regroup, Insert, FetchDetail, Lookup, Create, Reread, SameGroup, Attach,
      CountPrevious, ApplyPrevious, Count, Apply, ReopenRegressed, JournalRegression,
      EmitRegressed, Recur, HoldBack, MarkNotified, EmitOpened
<1> QED
  BY <1>1, <1>2 DEF Still

LEMMA CallsOfOthers ==
  ASSUME User \/ Prune \/ Tick
  PROVE  UNCHANGED <<pc, job, opened, recurred, regressed>>
BY DEF User, Resolve, Reopen, Ignore, Transition, Prune, PruneRows, PruneList, PruneCount,
       PruneApply, PruneEnd, PruneStep, Tick, alerts

LEMMA CallsOfNext ==
  ASSUME TypeInv, Next
  PROVE  \A v \in Workers : CallStep(v)
<1>1. ASSUME NEW w \in Workers, Work(w) PROVE \A v \in Workers : CallStep(v)
  BY <1>1, StillOfWork, CallsStep, CallOfStill DEF Still
<1>2. ASSUME User \/ Prune \/ Tick PROVE \A v \in Workers : CallStep(v)
  BY <1>2, CallsOfOthers, CallOfStill
<1>3. ASSUME Restart PROVE \A v \in Workers : CallStep(v)
  BY <1>3, CallOfIdle DEF Restart, Assigning
<1> QED
  BY <1>1, <1>2, <1>3 DEF Next

\* Before the row joins its group, and after.
Searching == {"lookup", "create", "reread", "grouped"}

Joined == Grouping \ {"grouped"}

\* Where a call may still decide to announce its group.
Deciding == Grouping \ {"journal", "emitOpened", "emitRegressed"}

\* The row was in the group already.
Staying(w) ==
    /\ pc[w] = "grouped" /\ pc'[w] = "alert"
    /\ job'[w] = job[w] /\ job[w].row.groupId = job[w].gid
    /\ UNCHANGED rows

\* A call that is past "grouped" was, or its row was in the group or just
\* joined it; one that is about to emit just marked its group, or was there.
LabelStep(w) ==
    /\ pc'[w] \in Searching => pc[w] \in Searching \union {"idle", "insert", "call"}
    /\ pc'[w] \in Joined => pc[w] \in Joined \/ Staying(w) \/ Joining(w, job[w].exec)
    /\ pc'[w] = "emitOpened" =>
         \/ pc[w] = "emitOpened" /\ job'[w] = job[w]
         \/ /\ MarkNotified(w) /\ job[w].gid \in Live
            /\ UNCHANGED <<job, opened, recurred>>
            /\ groups' = [groups EXCEPT ![job[w].gid] = Notified(groups[job[w].gid])]
    /\ pc'[w] \in Deciding /\ pc[w] \in Grouping => pc[w] \in Deciding

LEMMA LabelsOfWork ==
  ASSUME TypeInv, NEW w \in Workers, Work(w)
  PROVE  LabelStep(w)
<1>0. CoreTypeOK
  BY DEF TypeInv
<1>1. ASSUME Finish(w) PROVE LabelStep(w)
  BY <1>0, <1>1
  DEF Finish, CoreTypeOK, LabelStep, Searching, Joined, Deciding, Grouping, Assigning, Labels
<1>2. ASSUME NEW label \in Labels, Goto(w, label) PROVE pc'[w] = label
  BY <1>0, <1>2, GotoKeeps
<1>3. CASE \/ \E e \in Executions : Ingest(w, e) \/ Pick(w, e) \/ Regroup(w, e)
           \/ Insert(w) \/ FetchDetail(w)
  <2>1. /\ Finish(w) \/ pc'[w] \in {"insert", "call", "lookup"}
        /\ pc[w] \in {"idle", "insert", "call"}
    BY <1>2, <1>3 DEF Ingest, Pick, Regroup, Insert, FetchDetail, Labels
  <2> QED
    BY <1>1, <2>1
    DEF LabelStep, Searching, Joined, Deciding, Grouping, Assigning, Labels
<1>4. CASE Lookup(w) \/ Create(w) \/ Reread(w)
  <2>1. pc[w] \in {"lookup", "create", "reread"}
    BY <1>4 DEF Lookup, Create, Reread
  <2>2. Finish(w) \/ pc'[w] \in {"create", "reread", "grouped"}
    BY <1>2, <1>4 DEF Lookup, Create, Reread, Labels
  <2> QED
    BY <1>1, <2>1, <2>2
    DEF LabelStep, Searching, Joined, Deciding, Grouping, Assigning, Labels
<1>5. CASE SameGroup(w)
  <2>1. pc'[w] = "alert" /\ Staying(w)
    BY <1>2, <1>5 DEF SameGroup, IsNewOccurrence, Staying, Labels
  <2> QED
    BY <2>1 DEF LabelStep, Staying, Searching, Joined, Deciding, Grouping, Assigning, Labels
<1>6. CASE Attach(w) /\ ~ Finish(w)
  <2>1. /\ rows[job[w].exec] # None /\ job[w].gid \in Live
        /\ rows' = [rows EXCEPT ![job[w].exec].groupId = job[w].gid]
        /\ Goto(w, AfterAttach(job[w].row.groupId)) /\ pc[w] = "grouped"
        /\ UNCHANGED <<job, groups>> /\ job[w].exec \in Executions
    BY <1>6 DEF Attach, TypeInv, Context
  <2>2. pc'[w] \in {"count", "countPrevious"}
    BY <1>2, <2>1 DEF AfterAttach, Labels
  <2>3. rows'[job[w].exec] = [rows[job[w].exec] EXCEPT !.groupId = job[w].gid]
    BY <1>0, <2>1 DEF CoreTypeOK
  <2>4. Joining(w, job[w].exec)
    BY <2>1, <2>2, <2>3 DEF Joining
  <2> QED
    BY <2>1, <2>2, <2>4 DEF LabelStep, Searching, Joined, Deciding, Grouping, Assigning, Labels
<1>7. CASE CountPrevious(w) \/ ApplyPrevious(w) \/ Count(w) \/ Apply(w)
  <2>1. pc[w] \in {"countPrevious", "applyPrevious", "count", "apply"}
    BY <1>7 DEF CountPrevious, ApplyPrevious, Count, Apply
  <2>2. Finish(w) \/ pc'[w] \in {"applyPrevious", "count", "apply", "alert"}
    BY <1>2, <1>7 DEF CountPrevious, ApplyPrevious, Count, Apply, Labels
  <2> QED
    BY <1>1, <2>1, <2>2 DEF LabelStep, Searching, Joined, Deciding, Grouping, Assigning, Labels
<1>8. CASE ReopenRegressed(w) \/ JournalRegression(w)
  <2>1. pc[w] \in {"alert", "journal"}
    BY <1>8 DEF ReopenRegressed, JournalRegression
  <2>2. Finish(w) \/ pc'[w] \in {"journal", "emitRegressed"}
    BY <1>2, <1>8 DEF ReopenRegressed, JournalRegression, Labels
  <2> QED
    BY <1>1, <2>1, <2>2 DEF LabelStep, Searching, Joined, Deciding, Grouping, Assigning, Labels
<1>9. CASE MarkNotified(w) /\ ~ Finish(w)
  <2>1. /\ job[w].gid \in Live /\ pc[w] = "alert"
        /\ UNCHANGED <<job, opened, recurred>>
        /\ groups' = [groups EXCEPT ![job[w].gid] = Notified(groups[job[w].gid])]
        /\ Goto(w, "emitOpened")
    BY <1>9 DEF MarkNotified, alerts
  <2>2. pc'[w] = "emitOpened"
    BY <1>2, <2>1 DEF Labels
  <2> QED
    BY <1>9, <2>1, <2>2 DEF LabelStep, Searching, Joined, Deciding, Grouping, Assigning, Labels
<1>10. CASE EmitRegressed(w) \/ Recur(w) \/ HoldBack(w) \/ EmitOpened(w)
  BY <1>1, <1>10 DEF EmitRegressed, Recur, HoldBack, EmitOpened
<1> QED
  BY <1>1, <1>3, <1>4, <1>5, <1>6, <1>7, <1>8, <1>9, <1>10 DEF Work, Continue

LEMMA LabelsOfNext ==
  ASSUME TypeInv, Next
  PROVE  \A w \in Workers : LabelStep(w)
<1>1. ASSUME NEW w \in Workers, pc'[w] = pc[w], job'[w] = job[w] PROVE LabelStep(w)
  BY <1>1 DEF LabelStep
<1>2. ASSUME NEW v \in Workers, Work(v) PROVE \A w \in Workers : LabelStep(w)
  BY <1>1, <1>2, LabelsOfWork, StillOfWork DEF Still
<1>3. ASSUME User \/ Prune \/ Tick PROVE \A w \in Workers : LabelStep(w)
  BY <1>1, <1>3, CallsOfOthers
<1>4. ASSUME Restart PROVE \A w \in Workers : LabelStep(w)
  BY <1>4 DEF Restart, LabelStep, Searching, Joined, Deciding, Grouping, Assigning
<1> QED
  BY <1>2, <1>3, <1>4 DEF Next

---------------------------------------------------------------------------
(* Ids are given out once, and calls work on the group of their row *)

\* An id that was not given out is unused, and every call works on a given one.
FreshIds ==
    /\ \A g \in GroupIds : g >= nextGroup => groups[g] = None /\ opened[g] = 0 /\ recurred[g] = 0
    /\ \A w \in Workers : pc[w] \in Grouping => job[w].gid < nextGroup

\* The group a call works on, while it lives, is that of its row's signature.
OnTarget(w) ==
    pc[w] \in Grouping /\ job[w].gid \in Live =>
        groups[job[w].gid].signature = job[w].row.detail

\* Events leave only from the emission steps.
LEMMA OpenedOfNext ==
  ASSUME TypeInv, Next
  PROVE  \/ opened' = opened
         \/ \E w \in Workers :
              /\ EmitOpened(w)
              /\ job[w].gid \in GroupIds
              /\ opened' = [opened EXCEPT ![job[w].gid] = opened[job[w].gid] + 1]
<1>1. ASSUME NEW w \in Workers, EmitOpened(w)
      PROVE  /\ job[w].gid \in GroupIds
             /\ opened' = [opened EXCEPT ![job[w].gid] = opened[job[w].gid] + 1]
  BY <1>1 DEF EmitOpened, TypeInv, Context, Assigning, Grouping, Labels
<1>2. CASE \A w \in Workers : ~ EmitOpened(w)
  BY <1>2
  DEF Next, Work, Continue, alerts, Ingest, Pick, Regroup, Insert,
      FetchDetail, Lookup, Create, Reread, SameGroup, Attach, CountPrevious, ApplyPrevious,
      Count, Apply, ReopenRegressed, JournalRegression, EmitRegressed, Recur, HoldBack,
      MarkNotified, User, Resolve, Reopen, Ignore, Transition, Prune, PruneRows, PruneList,
      PruneCount, PruneApply, PruneEnd, PruneStep, Tick, Restart
<1> QED
  BY <1>1, <1>2

LEMMA RecurredOfNext ==
  ASSUME TypeInv, Next
  PROVE  \/ recurred' = recurred
         \/ \E w \in Workers :
              /\ Recur(w)
              /\ job[w].gid \in GroupIds
              /\ recurred' = [recurred EXCEPT ![job[w].gid] = recurred[job[w].gid] + 1]
<1>1. ASSUME NEW w \in Workers, Recur(w)
      PROVE  /\ job[w].gid \in GroupIds
             /\ \/ recurred' = recurred
                \/ recurred' = [recurred EXCEPT ![job[w].gid] = recurred[job[w].gid] + 1]
  BY <1>1 DEF Recur, TypeInv, Context, Assigning, Grouping, Labels
<1>2. CASE \A w \in Workers : ~ Recur(w)
  BY <1>2
  DEF Next, Work, Continue, alerts, Ingest, Pick, Regroup, Insert,
      FetchDetail, Lookup, Create, Reread, SameGroup, Attach, CountPrevious, ApplyPrevious,
      Count, Apply, ReopenRegressed, JournalRegression, EmitRegressed, EmitOpened, HoldBack,
      MarkNotified, User, Resolve, Reopen, Ignore, Transition, Prune, PruneRows, PruneList,
      PruneCount, PruneApply, PruneEnd, PruneStep, Tick, Restart
<1> QED
  BY <1>1, <1>2

LEMMA NextGroupOfNext ==
  ASSUME TypeInv, Next
  PROVE  nextGroup' \in {nextGroup, nextGroup + 1} /\ nextGroup \in Nat
<1>1. nextGroup \in Nat
  BY ConstantsAssumption DEF TypeInv, CoreTypeOK
<1> QED
  BY <1>1
  DEF Next, Work, Continue, Ingest, Pick, Regroup, Insert,
      FetchDetail, Lookup, Create, Reread, SameGroup, Attach, CountPrevious, ApplyPrevious,
      Count, Apply, ReopenRegressed, JournalRegression, EmitRegressed, Recur, HoldBack,
      MarkNotified, EmitOpened, User, Resolve, Reopen, Ignore, Transition, Prune, PruneRows,
      PruneList, PruneCount, PruneApply, PruneEnd, PruneStep, Tick, Restart

LEMMA FreshOfNext ==
  ASSUME TypeInv, Next, FreshIds
  PROVE  FreshIds'
<1>0. TypeInv' /\ nextGroup' \in {nextGroup, nextGroup + 1} /\ nextGroup \in Nat
  BY NextType, NextGroupOfNext
<1>1. ASSUME NEW g \in GroupIds, g >= nextGroup' PROVE groups'[g] = None
  BY <1>0, <1>1, FacesOfNext DEF FaceStep, FreshIds, GroupIds
<1>2. ASSUME NEW g \in GroupIds, g >= nextGroup' PROVE opened'[g] = 0 /\ recurred'[g] = 0
  <2>1. opened[g] = 0 /\ recurred[g] = 0 /\ g >= nextGroup
    BY <1>0, <1>2 DEF FreshIds, GroupIds
  <2>2. ASSUME NEW w \in Workers, EmitOpened(w) \/ Recur(w) PROVE job[w].gid # g
    BY <2>1, <2>2, <1>0 DEF EmitOpened, Recur, FreshIds, Assigning, Grouping, Labels, GroupIds
  <2> QED
    BY <2>1, <2>2, OpenedOfNext, RecurredOfNext DEF TypeInv, CoreTypeOK
<1>3. ASSUME NEW w \in Workers, pc'[w] \in Grouping PROVE job'[w].gid < nextGroup'
  <2>1. CallStep(w) /\ pc'[w] \in Assigning /\ pc'[w] # "lookup"
    BY <1>3, CallsOfNext DEF Grouping
  <2>2. CASE SameTarget(w)
    <3>1. job[w].gid < nextGroup /\ job[w].gid \in Nat
      BY <2>2 DEF SameTarget, FreshIds, TypeInv, Context, GroupIds
    <3> QED
      BY <1>0, <2>2, <3>1 DEF SameTarget
  <2>3. CASE NewTarget(w)
    <3>1. job'[w].gid \in Nat /\ nextGroup' \in Nat
      BY <1>0, <2>3 DEF NewTarget, GroupIds
    <3> QED
      BY <1>1, <2>3, <3>1 DEF NewTarget
  <2> QED
    BY <1>3, <2>1, <2>2, <2>3 DEF CallStep, Entering
<1> QED
  BY <1>1, <1>2, <1>3 DEF FreshIds

LEMMA TargetOfNext ==
  ASSUME TypeInv, Next, FreshIds, NEW w \in Workers, OnTarget(w)
  PROVE  OnTarget(w)'
<1> SUFFICES ASSUME pc'[w] \in Grouping, job'[w].gid \in Live'
             PROVE  groups'[job'[w].gid].signature = job'[w].row.detail
  BY DEF OnTarget
<1> DEFINE g == job'[w].gid
<1>1. CallStep(w) /\ pc'[w] \in Assigning /\ pc'[w] # "lookup"
  BY CallsOfNext DEF Grouping
<1>2. Following(w)
  BY <1>1 DEF CallStep, Entering
<1>3. g \in GroupIds /\ groups'[g] # None /\ FaceStep(g)
  BY FacesOfNext DEF Live
<1>4. CASE SameTarget(w)
  <2>1. g # nextGroup
    <3>1. job[w].gid < nextGroup /\ nextGroup \in Nat /\ job[w].gid \in Nat
      BY <1>4, NextGroupOfNext DEF SameTarget, FreshIds, TypeInv, Context, GroupIds
    <3> QED
      BY <1>4, <3>1 DEF SameTarget
  <2>2. groups[g] # None /\ groups'[g].signature = groups[g].signature
    BY <1>3, <2>1 DEF FaceStep
  <2> QED
    BY <1>2, <1>3, <1>4, <2>2 DEF SameTarget, Following, OnTarget, Live
<1>5. CASE NewTarget(w)
  BY <1>2, <1>5 DEF NewTarget, Following
<1> QED
  BY <1>1, <1>4, <1>5 DEF CallStep, Entering

---------------------------------------------------------------------------
(* Announcements carry the word of a settled execution of the group *)

\* The execution's detail is settled, or the prune took its row.
Known(e) == Settled(e) \/ e \in pruned

\* A call whose row is not pending speaks for an execution that is settled.
Trusted(w) ==
    /\ pc[w] \in Assigning /\ job[w].row.detailState # "pending" => Known(job[w].exec)
    /\ pc[w] = "emitOpened" => job[w].row.detailState # "pending"

\* The groups that rows refer to were created.
GivenGroups ==
    /\ \A e \in Executions :
          rows[e] # None /\ rows[e].groupId # None => rows[e].groupId < nextGroup
    /\ \A w \in Workers :
          pc[w] \in Assigning /\ job[w].row.groupId # None => job[w].row.groupId < nextGroup

\* What a call holds of its row is what the table holds, when no other call had
\* the row in hand: its detail, and its group before and after it joins one.
Faithful(w) ==
    LET e == job[w].exec
        row == job[w].row IN
    pc[w] \in Assigning /\ e \notin together.rows /\ rows[e] # None =>
        /\ rows[e].detail = row.detail /\ rows[e].detailState = row.detailState
        /\ pc[w] \in Searching /\ row.groupId \in Live => rows[e].groupId = row.groupId
        /\ pc[w] \in Joined /\ job[w].gid \in Live => rows[e].groupId = job[w].gid

AnnounceInv ==
    /\ TypeInv
    /\ HistoryInv
    /\ FreshIds
    /\ GivenGroups
    /\ \A w \in Workers : OnTarget(w) /\ Trusted(w) /\ Faithful(w)

LEMMA InitAnnounce == Init => AnnounceInv
<1> SUFFICES ASSUME Init PROVE AnnounceInv
  OBVIOUS
<1>1. TypeInv /\ HistoryInv
  BY InitType, InitHistory
<1>2. \A w \in Workers : pc[w] \notin Assigning /\ pc[w] \notin Grouping /\ pc[w] # "emitOpened"
  BY DEF Init, Assigning, Grouping
<1> QED
  BY <1>1, <1>2
  DEF Init, AnnounceInv, FreshIds, GivenGroups, OnTarget, Trusted, Faithful, Live

LEMMA KnownOfNext ==
  ASSUME TypeInv, Next, NEW e \in Executions, Known(e)
  PROVE  Known(e)'
<1>1. RowStep(e) /\ pruned \subseteq pruned'
  BY RowsOfNext
<1>2. CASE e \in pruned
  BY <1>1, <1>2 DEF Known
<1>3. CASE Settled(e)
  <2>1. rows[e] \in Row /\ rows[e] # None /\ rows[e].detailState # "pending"
    BY <1>3 DEF Settled, TypeInv, CoreTypeOK
  <2>2. ASSUME NEW g \in GroupIds \union {None}, rows'[e] = [rows[e] EXCEPT !.groupId = g]
        PROVE  Known(e)'
    <3>1. rows'[e] \in Row
      BY <2>1, <2>2, RowUpdates
    <3>2. rows'[e].detailState = rows[e].detailState
      BY <2>1, <2>2 DEF Row
    <3> QED
      BY <2>1, <3>1, <3>2, NoneAssumption DEF Known, Settled
  <2>3. ASSUME NEW w \in Workers, Inserted(w, e) \/ Fetched(w, e) \/ Joining(w, e)
        PROVE  Known(e)'
    BY <2>1, <2>2, <2>3, NoneAssumption DEF Inserted, Fetched, Joining, Known, Settled, Live
  <2> QED
    BY <1>1, <2>1, <2>2, <2>3 DEF RowStep, RowMove, Removed, Detached, Known, Settled
<1> QED
  BY <1>2, <1>3 DEF Known

LEMMA TrustOfNext ==
  ASSUME TypeInv, Next, NEW w \in Workers, Trusted(w)
  PROVE  Trusted(w)'
<1>1. ASSUME pc'[w] \in Assigning, job'[w].row.detailState # "pending"
      PROVE  \E e \in Executions : e = job'[w].exec /\ Known(e)'
  <2>1. CASE Entering(w)
    BY <1>1, <2>1 DEF Entering, Known, Settled
  <2>2. CASE Following(w)
    <3>1. PICK e \in Executions : e = job[w].exec /\ e = job'[w].exec
      BY <2>2 DEF Following, TypeInv, Context, Assigning
    <3>2. Known(e)
      BY <1>1, <2>2, <3>1 DEF Following, Trusted
    <3> QED
      BY <3>1, <3>2, KnownOfNext
  <2> QED
    BY <1>1, <2>1, <2>2, CallsOfNext DEF CallStep
<1>2. ASSUME pc'[w] = "emitOpened" PROVE job'[w].row.detailState # "pending"
  <2>1. CASE pc[w] = "emitOpened" /\ job'[w] = job[w]
    BY <2>1 DEF Trusted
  <2>2. CASE MarkNotified(w) /\ UNCHANGED job
    BY <2>2 DEF MarkNotified, Provisional
  <2> QED
    BY <1>2, <2>1, <2>2, LabelsOfNext DEF LabelStep
<1>3. ASSUME pc'[w] \in Assigning, job'[w].row.detailState # "pending" PROVE Known(job[w].exec)'
  BY <1>1, <1>3 DEF Known, Settled
<1> QED
  BY <1>2, <1>3 DEF Trusted

\* A group that lives, and was given out, lived.
LEMMA LivedOfNext ==
  ASSUME TypeInv, Next, NEW g \in Live', g < nextGroup
  PROVE  g \in Live /\ groups'[g].signature = groups[g].signature
<1>1. g \in GroupIds /\ groups'[g] # None /\ FaceStep(g) /\ nextGroup \in Nat
  BY FacesOfNext, NextGroupOfNext DEF Live
<1> QED
  BY <1>1 DEF FaceStep, Live, GroupIds

LEMMA GivenOfNext ==
  ASSUME TypeInv, FreshIds, Next, GivenGroups
  PROVE  GivenGroups'
<1>0. /\ TypeInv' /\ nextGroup' \in {nextGroup, nextGroup + 1} /\ nextGroup \in Nat
      /\ GroupIds \subseteq Nat /\ None \notin GroupIds
  BY NextType, NextGroupOfNext, NoneAssumption DEF GroupIds
<1>later. \A g \in GroupIds : g < nextGroup => g < nextGroup'
  BY <1>0
<1>1. ASSUME NEW e \in Executions, rows'[e] # None, rows'[e].groupId # None
      PROVE  rows'[e].groupId < nextGroup'
  <2>1. RowStep(e) /\ rows[e] \in Row \union {None}
    BY RowsOfNext DEF TypeInv, CoreTypeOK
  <2>2. CASE rows[e] # None /\ rows'[e].groupId = rows[e].groupId
    <3>1. rows[e].groupId \in GroupIds /\ rows[e].groupId < nextGroup
      BY <1>1, <2>1, <2>2 DEF GivenGroups, Row
    <3> QED
      BY <1>later, <2>2, <3>1
  <2>3. CASE Detached(e) \/ Removed(e)
    BY <1>1, <2>1, <2>3 DEF Detached, Removed, Row
  <2>4. ASSUME NEW w \in Workers, Inserted(w, e) PROVE FALSE
    BY <1>1, <2>4 DEF Inserted, NewRow
  <2>5. ASSUME NEW w \in Workers, Joining(w, e) PROVE rows'[e].groupId < nextGroup'
    <3>1. rows'[e].groupId = job[w].gid /\ job[w].gid < nextGroup /\ job[w].gid \in GroupIds
      BY <2>1, <2>5 DEF Joining, Row, FreshIds, Live, Grouping, Assigning, Labels
    <3> QED
      BY <1>later, <3>1
  <2> QED
    BY <1>1, <2>1, <2>2, <2>3, <2>4, <2>5 DEF RowStep, RowMove, Fetched
<1>2. ASSUME NEW w \in Workers, pc'[w] \in Assigning, job'[w].row.groupId # None
      PROVE  job'[w].row.groupId < nextGroup'
  <2>1. CASE Entering(w)
    BY <1>1, <1>2, <2>1 DEF Entering
  <2>2. CASE Following(w)
    <3>1. job[w].row.groupId \in GroupIds /\ job[w].row.groupId < nextGroup
      BY <1>2, <2>2 DEF Following, GivenGroups, TypeInv, Context, Row
    <3> QED
      BY <1>later, <2>2, <3>1 DEF Following
  <2> QED
    BY <1>2, <2>1, <2>2, CallsOfNext DEF CallStep
<1> QED
  BY <1>1, <1>2 DEF GivenGroups

LEMMA FaithOfNext ==
  ASSUME AnnounceInv, Next, NEW w \in Workers
  PROVE  Faithful(w)'
<1> USE DEF AnnounceInv
<1> DEFINE e == job'[w].exec
           row == job'[w].row
<1>0. TypeInv' /\ HistoryInv'
  BY NextType, HistoryOfNext
<1> SUFFICES ASSUME pc'[w] \in Assigning, e \notin together'.rows, rows'[e] # None
             PROVE  /\ rows'[e].detail = row.detail /\ rows'[e].detailState = row.detailState
                    /\ pc'[w] \in Searching /\ row.groupId \in Live' =>
                            rows'[e].groupId = row.groupId
                    /\ pc'[w] \in Joined /\ job'[w].gid \in Live' =>
                            rows'[e].groupId = job'[w].gid
  BY DEF Faithful
<1>1. CASE Entering(w)
  BY <1>1 DEF Entering, Joined, Grouping
<1>2. CASE ~ Entering(w)
  <2>1. Following(w) /\ (pc'[w] \in Grouping => SameTarget(w) \/ NewTarget(w))
    BY <1>2, CallsOfNext DEF CallStep
  <2>2. /\ e = job[w].exec /\ row = job[w].row /\ pc[w] \in Assigning
        /\ e \in Executions /\ row \in Row
        /\ e \notin together.rows
    BY <2>1, HistoryOfNext DEF Following, TypeInv, Context, Assigning
  <2>3. \A v \in Workers : HandlesRow(v, e) => v = w
    BY <2>2 DEF HistoryInv, RowAlone, HandlesRow, Assigning
  <2>4. LabelStep(w) /\ RowStep(e) /\ rows[e] \in Row \union {None}
    BY <2>2, LabelsOfNext, RowsOfNext DEF TypeInv, CoreTypeOK
  <2>5. ASSUME NEW v \in Workers, Inserted(v, e) \/ Fetched(v, e) PROVE FALSE
    BY <2>2, <2>3, <2>5 DEF Inserted, Fetched, HandlesRow, Assigning
  <2>6. rows[e] # None
    BY <2>4, <2>5 DEF RowStep, RowMove, Removed, Detached, Joining
  <2>7. /\ rows[e].detail = row.detail /\ rows[e].detailState = row.detailState
        /\ pc[w] \in Searching /\ row.groupId \in Live => rows[e].groupId = row.groupId
        /\ pc[w] \in Joined /\ job[w].gid \in Live => rows[e].groupId = job[w].gid
    BY <2>2, <2>6 DEF Faithful
  <2>8. row.groupId \in Live' => row.groupId \in Live
    BY <2>2, LivedOfNext, NoneAssumption DEF GivenGroups, Live
  <2>9. pc[w] \in Grouping /\ job[w].gid \in Live' => job[w].gid \in Live
    BY LivedOfNext DEF FreshIds
  <2>10. pc'[w] \in Searching => pc[w] \in Searching
    BY <2>2, <2>4 DEF LabelStep, Assigning
  <2>11. CASE Joining(w, e)
    <3>1. rows'[e] = [rows[e] EXCEPT !.groupId = job[w].gid] /\ job'[w] = job[w]
          /\ pc'[w] \notin Searching
      BY <2>11 DEF Joining, Searching
    <3> QED
      BY <2>4, <2>6, <2>7, <3>1 DEF Row
  <2>12. CASE ~ Joining(w, e)
    <3>1. \A v \in Workers : ~ Joining(v, e)
      BY <2>3, <2>12 DEF Joining, HandlesRow
    <3>2. rows'[e] = rows[e] \/ Detached(e)
      BY <2>4, <2>5, <3>1 DEF RowStep, RowMove, Removed
    <3>3. pc'[w] \in Joined /\ job'[w].gid \in Live' =>
             /\ job'[w].gid = job[w].gid /\ job[w].gid \in Live
             /\ rows[e].groupId = job[w].gid
      <4> SUFFICES ASSUME pc'[w] \in Joined, job'[w].gid \in Live'
                   PROVE  /\ job'[w].gid = job[w].gid /\ job[w].gid \in Live
                          /\ rows[e].groupId = job[w].gid
        OBVIOUS
      <4>1. CASE pc[w] \in Joined
        <5>1. SameTarget(w)
          BY <2>1, <4>1 DEF NewTarget, Joined
        <5> QED
          BY <2>7, <2>9, <4>1, <5>1 DEF SameTarget, Joined
      <4>2. CASE Staying(w)
        BY <2>2, <2>7, <2>8, <4>2 DEF Staying, Searching
      <4> QED
        BY <2>2, <2>4, <2>12, <4>1, <4>2 DEF LabelStep
    <3>4. CASE rows'[e] = rows[e]
      BY <2>7, <2>8, <2>10, <3>3, <3>4
    <3>5. CASE Detached(e)
      <4>1. /\ rows'[e].detail = rows[e].detail /\ rows'[e].detailState = rows[e].detailState
            /\ rows[e].groupId \notin Live'
        BY <2>4, <2>6, <3>5 DEF Detached, Row, Live
      <4> QED
        BY <2>7, <2>8, <2>10, <3>3, <4>1
    <3> QED
      BY <3>2, <3>4, <3>5
  <2> QED
    BY <2>11, <2>12
<1> QED
  BY <1>1, <1>2

LEMMA NextAnnounce == AnnounceInv /\ [Next]_vars => AnnounceInv'
<1>1. ASSUME AnnounceInv, Next PROVE AnnounceInv'
  BY <1>1, NextType, HistoryOfNext, FreshOfNext, GivenOfNext, TargetOfNext, TrustOfNext,
     FaithOfNext DEF AnnounceInv
<1>2. ASSUME AnnounceInv, UNCHANGED vars PROVE AnnounceInv'
  BY <1>2, StutterType, StillHistory
  DEF vars, core, alerts, AnnounceInv, FreshIds, GivenGroups, OnTarget, Trusted, Faithful,
      Known, Settled, Live
<1> QED
  BY <1>1, <1>2

\* However ingestion, drain, console, prune and restarts interleave, a group is
\* announced only on the word of an execution whose detail is settled; and that
\* execution is in the group, under its signature, unless another call had the
\* row in hand too.
THEOREM AnnouncementsTrusted == Spec => []AnnouncedFromSettled
<1>1. AnnounceInv => AnnouncedFromSettled
  <2> SUFFICES ASSUME AnnounceInv, NEW w \in Workers, pc[w] = "emitOpened"
               PROVE  LET e == job[w].exec
                          g == job[w].gid IN
                      /\ Settled(e) \/ e \in pruned
                      /\ g \in Live /\ e \notin pruned \union together.rows =>
                             rows[e].groupId = g /\ rows[e].detail = groups[g].signature
    BY DEF AnnouncedFromSettled
  <2> USE DEF AnnounceInv
  <2>1. pc[w] \in Assigning /\ pc[w] \in Grouping /\ pc[w] \in Joined
    BY DEF Joined, Grouping, Assigning, Labels
  <2>2. Known(job[w].exec)
    BY <2>1 DEF Trusted
  <2> QED
    BY <2>1, <2>2 DEF Known, Settled, Faithful, OnTarget
<1> QED
  BY <1>1, InitAnnounce, NextAnnounce, PTL DEF Spec

---------------------------------------------------------------------------
(* A problem is announced once, and announced before it is recalled *)

\* What was emitted about a group that no two calls worked on at once agrees
\* with its mark, and with what the call at work on it saw.
Once(g) ==
    /\ opened[g] <= 1
    /\ g \in Live /\ opened[g] > 0 => groups[g].notified
    /\ \A w \in Workers : job[w].gid = g =>
          /\ pc[w] = "emitOpened" => opened[g] = 0 /\ (g \in Live => groups[g].notified)
          /\ pc[w] \in Deciding /\ g \in Live /\ groups[g].notified => job[w].seen.notified

\* Unless a restart loses it, the announcement of a marked group left, or is
\* about to.
Recalled(g) ==
    /\ recurred[g] > 0 => opened[g] > 0
    /\ g \in Live /\ groups[g].notified =>
          opened[g] > 0 \/ \E w \in Workers : pc[w] = "emitOpened" /\ job[w].gid = g
    /\ \A w \in Workers :
          job[w].gid = g /\ pc[w] \in Deciding /\ job[w].seen.notified => opened[g] > 0

OnceInv ==
    /\ TypeInv
    /\ HistoryInv
    /\ FreshIds
    /\ budget.restarts <= MaxRestarts
    /\ \A g \in GroupIds \ together.groups :
          Once(g) /\ (budget.restarts = MaxRestarts => Recalled(g))

LEMMA InitOnce == Init => OnceInv
<1> SUFFICES ASSUME Init PROVE OnceInv
  OBVIOUS
<1>1. TypeInv /\ HistoryInv
  BY InitType, InitHistory
<1>2. \A w \in Workers : pc[w] \notin Grouping /\ pc[w] # "emitOpened"
  BY DEF Init, Assigning, Grouping
<1> QED
  BY <1>1, <1>2, ConstantsAssumption DEF Init, OnceInv, FreshIds, Once, Recalled, Live, Deciding

\* Two calls that work on a group at once are on record.
LEMMA AtWorkAlone ==
  ASSUME HistoryInv, NEW g \in GroupIds \ together.groups, NEW v \in Workers, NEW w \in Workers,
         pc[v] \in Grouping, job[v].gid = g, pc[w] \in Grouping, job[w].gid = g
  PROVE  v = w
BY DEF HistoryInv, GroupAlone, HandlesGroup

\* A group that is marked after a step was, or one call just marked it.
LEMMA MarkedOfNext ==
  ASSUME TypeInv, Next, NEW g \in Live', g < nextGroup, groups'[g].notified
  PROVE  /\ g \in Live
         /\ groups[g].notified \/ \E w \in Workers : MarkNotified(w) /\ job[w].gid = g
<1>1. g \in GroupIds /\ groups'[g] # None /\ FaceStep(g) /\ nextGroup \in Nat
  BY FacesOfNext, NextGroupOfNext DEF Live
<1> QED
  BY <1>1 DEF FaceStep, Live, GroupIds

\* A mark is not taken back while the group lives.
LEMMA MarkStays ==
  ASSUME TypeInv, Next, NEW g \in Live', g < nextGroup, g \in Live => groups[g].notified
  PROVE  groups'[g].notified
<1>1. g \in GroupIds /\ groups'[g] # None /\ FaceStep(g) /\ nextGroup \in Nat
  BY FacesOfNext, NextGroupOfNext DEF Live
<1> QED
  BY <1>1 DEF FaceStep, Live, GroupIds

LEMMA OnceOfNext ==
  ASSUME OnceInv, Next, NEW g \in GroupIds \ together'.groups
  PROVE  Once(g)'
<1> USE DEF OnceInv
<1>0. /\ TypeInv' /\ HistoryInv' /\ FreshIds' /\ g \notin together.groups
      /\ nextGroup' \in {nextGroup, nextGroup + 1} /\ nextGroup \in Nat
      /\ Once(g) /\ opened[g] \in Nat /\ g \in Nat
  <2>1. TypeInv' /\ HistoryInv' /\ FreshIds' /\ g \notin together.groups
    BY NextType, HistoryOfNext, FreshOfNext
  <2>2. opened[g] \in Nat /\ g \in Nat
    BY DEF TypeInv, CoreTypeOK, GroupIds
  <2> QED
    BY <2>1, <2>2, NextGroupOfNext
<1>1. \/ opened'[g] = opened[g]
      \/ \E w \in Workers : /\ EmitOpened(w) /\ job[w].gid = g
                            /\ opened[g] = 0 /\ opened'[g] = 1
  <2>1. ASSUME NEW w \in Workers, EmitOpened(w), job[w].gid \in GroupIds,
               opened' = [opened EXCEPT ![job[w].gid] = opened[job[w].gid] + 1],
               opened'[g] # opened[g]
        PROVE  job[w].gid = g /\ opened[g] = 0 /\ opened'[g] = 1
    <3>1. job[w].gid = g /\ opened'[g] = opened[g] + 1
      BY <2>1 DEF TypeInv, CoreTypeOK
    <3>2. opened[g] = 0
      BY <1>0, <2>1, <3>1 DEF Once, EmitOpened
    <3> QED
      BY <3>1, <3>2
  <2> QED
    BY <2>1, OpenedOfNext
<1>2. opened'[g] <= 1
  BY <1>0, <1>1 DEF Once
<1>3. ASSUME g \in Live', opened'[g] > 0 PROVE groups'[g].notified
  <2>1. g < nextGroup /\ (g \in Live => groups[g].notified)
    <3>1. CASE opened'[g] = opened[g]
      BY <1>0, <1>3, <3>1 DEF Once, FreshIds
    <3>2. ASSUME NEW w \in Workers, EmitOpened(w), job[w].gid = g
          PROVE  g < nextGroup /\ (g \in Live => groups[g].notified)
      BY <1>0, <3>2 DEF Once, FreshIds, EmitOpened, Grouping, Assigning, Labels
    <3> QED
      BY <1>1, <3>1, <3>2
  <2> QED
    BY <1>3, <2>1, MarkStays
<1>4. ASSUME NEW w \in Workers, job'[w].gid = g, pc'[w] = "emitOpened"
      PROVE  opened'[g] = 0 /\ (g \in Live' => groups'[g].notified)
  <2>1. CASE pc[w] = "emitOpened" /\ job'[w] = job[w]
    <3>1. /\ opened[g] = 0 /\ (g \in Live => groups[g].notified) /\ job[w].gid = g
          /\ pc[w] \in Grouping /\ g < nextGroup
      BY <1>0, <1>4, <2>1 DEF Once, FreshIds, Grouping, Assigning, Labels
    <3>2. ASSUME NEW v \in Workers, EmitOpened(v), job[v].gid = g PROVE FALSE
      <4>1. v = w
        BY <1>0, <3>1, <3>2, AtWorkAlone DEF EmitOpened, Grouping, Assigning, Labels
      <4> QED
        BY <1>4, <3>2, <4>1 DEF EmitOpened, Finish, TypeInv, CoreTypeOK
    <3>3. opened'[g] = 0
      BY <1>1, <3>1, <3>2
    <3> QED
      BY <3>1, <3>3, MarkStays
  <2>2. CASE /\ MarkNotified(w) /\ job[w].gid \in Live
             /\ UNCHANGED <<job, opened, recurred>>
             /\ groups' = [groups EXCEPT ![job[w].gid] = Notified(groups[job[w].gid])]
    <3>1. pc[w] = "alert" /\ ~ job[w].seen.notified /\ job[w].gid = g
      BY <1>4, <2>2 DEF MarkNotified, Announced
    <3>2. ~ groups[g].notified
      BY <1>0, <2>2, <3>1 DEF Once, Deciding, Grouping, Assigning, Labels
    <3>3. opened[g] = 0
      BY <1>0, <2>2, <3>1, <3>2 DEF Once
    <3>4. groups'[g] = Notified(groups[g]) /\ groups[g] \in Group
      BY <2>2, <3>1, LiveType DEF TypeInv, CoreTypeOK
    <3>5. groups'[g].notified
      BY <3>4 DEF Notified, Group
    <3> QED
      BY <2>2, <3>3, <3>5
  <2> QED
    BY <1>4, <2>1, <2>2, LabelsOfNext DEF LabelStep
<1>5. ASSUME NEW w \in Workers, job'[w].gid = g, pc'[w] \in Deciding, g \in Live',
             groups'[g].notified
      PROVE  job'[w].seen.notified
  <2>1. /\ CallStep(w) /\ LabelStep(w) /\ pc'[w] \in Assigning /\ pc'[w] \in Grouping
        /\ pc'[w] # "lookup"
    BY <1>5, CallsOfNext, LabelsOfNext DEF Deciding, Grouping
  <2>2. CASE NewTarget(w)
    BY <1>5, <2>2 DEF NewTarget
  <2>3. CASE SameTarget(w) /\ job'[w].seen = job[w].seen
    <3>1. pc[w] \in Deciding /\ pc[w] \in Grouping /\ job[w].gid = g /\ g < nextGroup
      BY <1>0, <1>5, <2>1, <2>3 DEF SameTarget, LabelStep, FreshIds
    <3>2. ASSUME NEW v \in Workers, MarkNotified(v), job[v].gid = g PROVE FALSE
      <4>1. v = w
        BY <1>0, <3>1, <3>2, AtWorkAlone DEF MarkNotified, Grouping, Assigning, Labels
      <4>2. pc'[w] \in {"idle", "emitOpened"}
        BY <3>2, <4>1, GotoKeeps DEF MarkNotified, Finish, TypeInv, CoreTypeOK, Labels
      <4> QED
        BY <1>5, <4>2 DEF Deciding, Grouping, Assigning
    <3>3. g \in Live /\ groups[g].notified
      BY <1>5, <3>1, <3>2, MarkedOfNext
    <3> QED
      BY <1>0, <2>3, <3>1, <3>3 DEF Once
  <2>4. CASE SameTarget(w) /\ job'[w].seen # job[w].seen
    BY <1>5, <2>4 DEF SameTarget, SeenKept
  <2> QED
    BY <2>1, <2>2, <2>3, <2>4 DEF CallStep, Entering
<1> QED
  BY <1>2, <1>3, <1>4, <1>5 DEF Once

LEMMA RecalledOfNext ==
  ASSUME OnceInv, Next, budget'.restarts = budget.restarts,
         NEW g \in GroupIds \ together'.groups, Recalled(g)
  PROVE  Recalled(g)'
<1> USE DEF OnceInv
<1>1. TypeInv' /\ HistoryInv' /\ FreshIds' /\ g \notin together.groups
  BY NextType, HistoryOfNext, FreshOfNext
<1>2. /\ nextGroup' \in {nextGroup, nextGroup + 1} /\ nextGroup \in Nat /\ g \in Nat
      /\ opened[g] \in Nat /\ recurred[g] \in Nat
  BY NextGroupOfNext DEF TypeInv, CoreTypeOK, GroupIds
<1>3. opened[g] > 0 => opened'[g] > 0
  BY <1>2, OpenedOfNext DEF TypeInv, CoreTypeOK
<1>4. ASSUME NEW w \in Workers, EmitOpened(w), job[w].gid = g PROVE opened'[g] > 0
  BY <1>2, <1>4 DEF EmitOpened, TypeInv, CoreTypeOK
\* The call that announces keeps its word, for nothing restarts.
<1>5. ASSUME NEW w \in Workers, pc[w] = "emitOpened", job[w].gid = g
      PROVE  opened'[g] > 0 \/ (pc'[w] = "emitOpened" /\ job'[w].gid = g)
  <2>1. ASSUME Work(w) PROVE EmitOpened(w)
    BY <1>5, <2>1
    DEF Work, Continue, Ingest, Pick, Regroup, Insert, FetchDetail, Lookup, Create, Reread,
        SameGroup, Attach, CountPrevious, ApplyPrevious, Count, Apply, ReopenRegressed,
        JournalRegression, EmitRegressed, Recur, HoldBack, MarkNotified
  <2>2. ASSUME NEW v \in Workers \ {w}, Work(v) PROVE pc'[w] = pc[w] /\ job'[w] = job[w]
    BY <2>2, StillOfWork DEF Still
  <2>3. ~ Restart
    BY DEF Restart, TypeInv, CoreTypeOK
  <2> QED
    BY <1>4, <1>5, <2>1, <2>2, <2>3, CallsOfOthers DEF Next
<1>6. ASSUME g \in Live', groups'[g].notified
      PROVE  \/ opened'[g] > 0
             \/ \E w \in Workers : pc'[w] = "emitOpened" /\ job'[w].gid = g
  <2>1. g < nextGroup
    <3>1. FaceStep(g) /\ groups'[g] # None
      BY <1>6, FacesOfNext DEF Live
    <3> QED
      BY <1>2, <1>6, <3>1 DEF FaceStep, FreshIds
  <2>2. CASE g \in Live /\ groups[g].notified
    BY <1>3, <1>5, <2>2 DEF Recalled
  <2>3. ASSUME NEW w \in Workers, MarkNotified(w), job[w].gid = g
        PROVE  pc'[w] = "emitOpened" /\ job'[w].gid = g
    <3>1. pc[w] = "alert" /\ pc[w] \in Grouping /\ g < nextGroup
      BY <2>3 DEF MarkNotified, FreshIds, Grouping, Assigning, Labels
    <3>2. g \in Live
      BY <1>6, <3>1, LivedOfNext
    <3> QED
      BY <2>3, <3>2, GotoKeeps DEF MarkNotified, TypeInv, Labels
  <2> QED
    BY <1>6, <2>1, <2>2, <2>3, MarkedOfNext
<1>7. ASSUME NEW w \in Workers, job'[w].gid = g, pc'[w] \in Deciding, job'[w].seen.notified
      PROVE  opened'[g] > 0
  <2>1. /\ CallStep(w) /\ LabelStep(w) /\ pc'[w] \in Assigning /\ pc'[w] \in Grouping
        /\ pc'[w] # "lookup" /\ pc'[w] # "emitOpened"
    BY <1>7, CallsOfNext, LabelsOfNext DEF Deciding, Grouping
  <2>2. CASE pc[w] \in Grouping /\ job[w].gid = g /\ job'[w].seen = job[w].seen
    BY <1>3, <1>7, <2>1, <2>2 DEF Recalled, LabelStep
  <2>3. CASE g \in Live' /\ groups'[g].notified
    <3>1. ASSUME NEW v \in Workers, pc'[v] = "emitOpened", job'[v].gid = g PROVE FALSE
      <4>1. HandlesGroup(v, g)' /\ HandlesGroup(w, g)'
        BY <1>7, <2>1, <3>1 DEF HandlesGroup, Grouping, Assigning, Labels
      <4> QED
        BY <1>1, <2>1, <3>1, <4>1 DEF HistoryInv, GroupAlone
    <3> QED
      BY <1>6, <2>3, <3>1
  <2>4. NewTarget(w) => g \in Live' /\ groups'[g].notified
    BY <1>7 DEF NewTarget, Live
  <2>5. SameTarget(w) => \/ g \in Live' /\ groups'[g].notified
                         \/ pc[w] \in Grouping /\ job[w].gid = g /\ job'[w].seen = job[w].seen
    BY <1>7 DEF SameTarget, SeenKept, Live
  <2> QED
    BY <2>1, <2>2, <2>3, <2>4, <2>5 DEF CallStep, Entering
<1>8. ASSUME recurred'[g] > 0 PROVE opened'[g] > 0
  <2>1. CASE recurred'[g] = recurred[g]
    BY <1>3, <1>8, <2>1 DEF Recalled
  <2>2. ASSUME NEW w \in Workers, Recur(w), job[w].gid = g PROVE opened[g] > 0
    BY <2>2 DEF Recalled, Recur, Announced, Deciding, Grouping, Assigning, Labels
  <2> QED
    BY <1>3, <2>1, <2>2, RecurredOfNext DEF TypeInv, CoreTypeOK
<1> QED
  BY <1>6, <1>7, <1>8 DEF Recalled

LEMMA RestartsOfNext ==
  ASSUME TypeInv, Next, budget.restarts <= MaxRestarts
  PROVE  /\ budget'.restarts <= MaxRestarts
         /\ budget'.restarts = MaxRestarts => budget'.restarts = budget.restarts
<1>1. budget \in [actions : Nat, prunes : Nat, restarts : Nat] /\ MaxRestarts \in Nat
  BY ConstantsAssumption DEF TypeInv, CoreTypeOK
<1>2. CASE Restart
  BY <1>1, <1>2 DEF Restart
<1>3. CASE ~ Restart
  <2>1. budget'.restarts = budget.restarts
    BY <1>1, <1>3
    DEF Next, Work, Continue, Outside, Ingest, Pick, Regroup, Insert, FetchDetail, Lookup,
        Create, Reread, SameGroup, Attach, CountPrevious, ApplyPrevious, Count, Apply,
        ReopenRegressed, JournalRegression, EmitRegressed, Recur, HoldBack, MarkNotified,
        EmitOpened, User, Resolve, Reopen, Ignore, Transition, Prune, PruneRows, PruneList,
        PruneCount, PruneApply, PruneEnd, PruneStep, Tick
  <2> QED
    BY <2>1
<1> QED
  BY <1>2, <1>3

LEMMA NextOnce == OnceInv /\ [Next]_vars => OnceInv'
<1>1. ASSUME OnceInv, Next PROVE OnceInv'
  <2>1. /\ TypeInv' /\ HistoryInv' /\ FreshIds'
        /\ together.groups \subseteq together'.groups
        /\ budget'.restarts <= MaxRestarts
        /\ budget'.restarts = MaxRestarts => budget'.restarts = budget.restarts
    BY <1>1, NextType, HistoryOfNext, FreshOfNext, RestartsOfNext DEF OnceInv
  <2>2. ASSUME NEW g \in GroupIds \ together'.groups
        PROVE  Once(g)' /\ (budget'.restarts = MaxRestarts => Recalled(g)')
    BY <1>1, <2>1, <2>2, OnceOfNext, RecalledOfNext DEF OnceInv
  <2> QED
    BY <2>1, <2>2 DEF OnceInv
<1>2. ASSUME OnceInv, UNCHANGED vars PROVE OnceInv'
  BY <1>2, StutterType, StillHistory
  DEF vars, core, alerts, OnceInv, FreshIds, Once, Recalled, Live
<1> QED
  BY <1>1, <1>2

\* However the calls interleave, and whatever the users, the prune, time and
\* restarts do meanwhile, a problem is announced at most once, unless two calls
\* were at work on its group at once: both may then have read the group before
\* either stored that it was announced.
THEOREM AnnouncesOnce == Spec => []AnnouncedOnce
<1>1. OnceInv => AnnouncedOnce
  BY DEF OnceInv, Once, AnnouncedOnce
<1> QED
  BY <1>1, InitOnce, NextOnce, PTL DEF Spec

---------------------------------------------------------------------------
(* A regression is counted, then journaled, then alerted *)

\* Calls between the count and the journal, between the journal and the alert.
Counted(g) == {w \in Workers : pc[w] = "journal" /\ job[w].gid = g}
Journaled(g) == {w \in Workers : pc[w] = "emitRegressed" /\ job[w].gid = g}

\* What a group owes to the calls that have not finished their regression.
Ledger(g) ==
    /\ regressed[g] + Cardinality(Journaled(g)) <= journal[g]
    /\ journal[g] + Cardinality(Counted(g)) <= groups[g].regressions

UnusedIds == \A g \in GroupIds : g >= nextGroup => journal[g] = 0 /\ regressed[g] = 0

TraceInv ==
    /\ TypeInv
    /\ FreshIds
    /\ UnusedIds
    /\ \A g \in Live : Ledger(g)

LEMMA CallSetsFinite ==
  \A g : /\ IsFiniteSet(Counted(g)) /\ Cardinality(Counted(g)) \in Nat
         /\ IsFiniteSet(Journaled(g)) /\ Cardinality(Journaled(g)) \in Nat
<1>1. \A g : Counted(g) \in SUBSET Workers /\ Journaled(g) \in SUBSET Workers
  BY DEF Counted, Journaled
<1> QED
  BY <1>1, WorkersAssumption, FS_Subset, FS_CardinalityType

LEMMA CallSetsFiniteNext ==
  \A g : /\ IsFiniteSet(Counted(g)') /\ Cardinality(Counted(g)') \in Nat
         /\ IsFiniteSet(Journaled(g)') /\ Cardinality(Journaled(g)') \in Nat
<1>1. \A g : Counted(g)' \in SUBSET Workers /\ Journaled(g)' \in SUBSET Workers
  BY DEF Counted, Journaled
<1> QED
  BY <1>1, WorkersAssumption, FS_Subset, FS_CardinalityType

\* Group h keeps its regressions and its journal, or goes away.
SameLedger(h) ==
    groups'[h] # None =>
        /\ groups[h] # None
        /\ groups'[h].regressions = groups[h].regressions
        /\ journal'[h] = journal[h]

LEMMA LedgerOfDelete ==
  ASSUME CoreTypeOK, NEW g \in GroupIds, DeleteGroup(g)
  PROVE  \A h \in GroupIds : SameLedger(h)
BY DEF CoreTypeOK, DeleteGroup, SameLedger

LEMMA LedgerOfUpdate ==
  ASSUME CoreTypeOK, NEW g \in Live, NEW group, groups' = [groups EXCEPT ![g] = group],
         group.regressions = groups[g].regressions, UNCHANGED journal
  PROVE  \A h \in GroupIds : SameLedger(h)
BY LiveType DEF CoreTypeOK, SameLedger, Live

LEMMA LedgerOfStore ==
  ASSUME CoreTypeOK, NEW g \in Live, NEW n, StoreCount(g, n)
  PROVE  \A h \in GroupIds : SameLedger(h)
<1>1. groups' = [groups EXCEPT ![g] = [groups[g] EXCEPT !.occurrences = n]] /\ UNCHANGED journal
  BY DEF StoreCount
<1>2. groups[g] \in Group
  BY LiveType
<1>3. [groups[g] EXCEPT !.occurrences = n].regressions = groups[g].regressions
  BY <1>2 DEF Group
<1> QED
  BY <1>1, <1>3, LedgerOfUpdate

LEMMA LedgerOfUnchanged ==
  ASSUME UNCHANGED <<groups, journal>>
  PROVE  \A h \in GroupIds : SameLedger(h)
BY DEF SameLedger

\* The steps of a regression, and the creation of a group.
Tracing(w) == Create(w) \/ ReopenRegressed(w) \/ JournalRegression(w) \/ EmitRegressed(w)

LEMMA LedgersStep ==
  ASSUME TypeInv, Next, \A w \in Workers : ~ Tracing(w)
  PROVE  \A h \in GroupIds : SameLedger(h)
<1>1. CoreTypeOK
  BY DEF TypeInv
<1>2. ASSUME NEW w \in Workers, NEW e \in Executions, Ingest(w, e) \/ Pick(w, e) \/ Regroup(w, e)
      PROVE  \A h \in GroupIds : SameLedger(h)
  BY <1>2, LedgerOfUnchanged DEF Ingest, Pick, Regroup
<1>3. ASSUME NEW w \in Workers, Continue(w)
      PROVE  \A h \in GroupIds : SameLedger(h)
  <2>1. CASE \/ Insert(w) \/ FetchDetail(w) \/ Lookup(w) \/ Reread(w) \/ SameGroup(w)
             \/ Attach(w) \/ CountPrevious(w) \/ Count(w) \/ Recur(w) \/ HoldBack(w) \/ EmitOpened(w)
    BY <2>1, LedgerOfUnchanged
    DEF Insert, FetchDetail, Lookup, Reread, SameGroup, Attach, CountPrevious, Count,
        Recur, HoldBack, EmitOpened
  <2>2. CASE ApplyPrevious(w)
    <3>1. job[w].row.groupId \in GroupIds
      BY <2>2 DEF ApplyPrevious, TypeInv, Context
    <3> QED
      BY <1>1, <2>2, <3>1, LedgerOfDelete, LedgerOfStore, LedgerOfUnchanged DEF ApplyPrevious
  <2>3. CASE Apply(w)
    <3>1. job[w].gid \in GroupIds
      BY <2>3 DEF Apply, TypeInv, Context, Grouping, Assigning, Labels
    <3> QED
      BY <1>1, <2>3, <3>1, LedgerOfDelete, LedgerOfStore, LedgerOfUnchanged DEF Apply
  <2>4. CASE MarkNotified(w)
    <3> DEFINE g == job[w].gid
    <3>1. CASE g \notin Live
      BY <2>4, <3>1, LedgerOfUnchanged DEF MarkNotified
    <3>2. CASE g \in Live
      <4>1. groups' = [groups EXCEPT ![g] = Notified(groups[g])] /\ UNCHANGED journal
        BY <2>4, <3>2 DEF MarkNotified
      <4>2. groups[g] \in Group
        BY <1>1, <3>2, LiveType
      <4>3. Notified(groups[g]).regressions = groups[g].regressions
        BY <4>2 DEF Group, Notified
      <4> QED
        BY <1>1, <3>2, <4>1, <4>3, LedgerOfUpdate
    <3> QED
      BY <3>1, <3>2
  <2> QED
    BY <1>3, <2>1, <2>2, <2>3, <2>4 DEF Continue, Tracing
<1>4. ASSUME User PROVE \A h \in GroupIds : SameLedger(h)
  <2>1. PICK g \in GroupIds : Resolve(g) \/ Reopen(g) \/ Ignore(g)
    BY <1>4 DEF User
  <2>2. g \in Live /\ groups[g] \in Group /\ UNCHANGED journal
    BY <1>1, <2>1, LiveType DEF Resolve, Reopen, Ignore, Transition
  <2>3. PICK group : /\ groups' = [groups EXCEPT ![g] = group]
                     /\ group.regressions = groups[g].regressions
    <3>1. CASE Resolve(g)
      <4>1. groups' = [groups EXCEPT ![g] =
                         [groups[g] EXCEPT !.status = "resolved", !.resolvedAt = clock]]
        BY <3>1 DEF Resolve, Transition
      <4>2. [groups[g] EXCEPT !.status = "resolved", !.resolvedAt = clock].regressions
              = groups[g].regressions
        BY <2>2 DEF Group
      <4> QED
        BY <4>1, <4>2
    <3>2. CASE Reopen(g) \/ Ignore(g)
      <4>1. PICK s : groups' = [groups EXCEPT ![g] = [groups[g] EXCEPT !.status = s]]
        BY <3>2 DEF Reopen, Ignore, Transition
      <4>2. [groups[g] EXCEPT !.status = s].regressions = groups[g].regressions
        BY <2>2 DEF Group
      <4> QED
        BY <4>1, <4>2
    <3> QED
      BY <2>1, <3>1, <3>2
  <2> QED
    BY <1>1, <2>2, <2>3, LedgerOfUpdate
<1>5. ASSUME Prune PROVE \A h \in GroupIds : SameLedger(h)
  <2>1. CASE PruneRows \/ PruneList \/ PruneCount \/ PruneEnd
    BY <2>1, LedgerOfUnchanged DEF PruneRows, PruneList, PruneCount, PruneEnd
  <2>2. CASE PruneApply
    <3>1. prune.gid \in GroupIds
      BY <2>2 DEF PruneApply, TypeInv, PruneContext
    <3> QED
      BY <1>1, <2>2, <3>1, LedgerOfDelete, LedgerOfStore, LedgerOfUnchanged DEF PruneApply
  <2> QED
    BY <1>5, <2>1, <2>2 DEF Prune
<1>6. ASSUME Tick \/ Restart PROVE \A h \in GroupIds : SameLedger(h)
  BY <1>6, LedgerOfUnchanged DEF Tick, Restart
<1> QED
  BY <1>2, <1>3, <1>4, <1>5, <1>6 DEF Next, Work

LEMMA StillCalls ==
  ASSUME TypeInv, NEW w \in Workers, Work(w)
  PROVE  Still(w)
<1>1. \A v \in Workers \ {w} : pc'[v] = pc[v]
  BY GotoKeeps, FinishKeeps
  DEF Work, Continue, Goto, Finish, TypeInv, CoreTypeOK, Ingest, Pick, Regroup, Insert,
      FetchDetail, Lookup, Create, Reread, SameGroup, Attach, CountPrevious, ApplyPrevious,
      Count, Apply, ReopenRegressed, JournalRegression, EmitRegressed, Recur, HoldBack,
      MarkNotified, EmitOpened
<1>2. \A v \in Workers \ {w} : job'[v] = job[v]
  BY DEF Work, Continue, Hold, Forget, Aggregate, Finish, TypeInv, CoreTypeOK, Ingest, Pick,
         Regroup, Insert, FetchDetail, Lookup, Create, Reread, SameGroup, Attach,
         CountPrevious, ApplyPrevious, Count, Apply, ReopenRegressed, JournalRegression,
         EmitRegressed, Recur, HoldBack, MarkNotified, EmitOpened
<1> QED
  BY <1>1, <1>2 DEF Still

\* Only the steps of a regression bring a call to the journal or to the alert.
LEMMA CallSetsStep ==
  ASSUME TypeInv, Next,
         \A w \in Workers : ~ ReopenRegressed(w) /\ ~ JournalRegression(w) /\ ~ EmitRegressed(w)
  PROVE  \A g : Counted(g)' \subseteq Counted(g) /\ Journaled(g)' \subseteq Journaled(g)
<1>1. ASSUME NEW w \in Workers, Work(w)
      PROVE  pc'[w] \notin {"journal", "emitRegressed"}
  <2>1. pc \in [Workers -> Labels]
    BY DEF TypeInv, CoreTypeOK
  <2> QED
    BY <1>1, <2>1
    DEF Work, Continue, Goto, Finish, Ingest, Pick, Regroup, Insert, FetchDetail, Lookup,
        Create, Reread, SameGroup, Attach, AfterAttach, CountPrevious, ApplyPrevious, Count,
        Apply, Recur, HoldBack, MarkNotified, EmitOpened
<1>2. ASSUME NEW w \in Workers, Work(w), NEW v \in Workers, pc'[v] \in {"journal", "emitRegressed"}
      PROVE  pc'[v] = pc[v] /\ job'[v] = job[v]
  BY <1>1, <1>2, StillCalls DEF Still
<1>3. ASSUME User \/ Prune \/ Tick \/ Restart, NEW v \in Workers, pc'[v] \in {"journal", "emitRegressed"}
      PROVE  pc'[v] = pc[v] /\ job'[v] = job[v]
  BY <1>3
  DEF User, Resolve, Reopen, Ignore, Transition, Prune, PruneRows, PruneList, PruneCount,
      PruneApply, PruneEnd, PruneStep, Tick, Restart
<1> QED
  BY <1>2, <1>3 DEF Next, Counted, Journaled

\* Alerts of regression leave from one step only.
LEMMA RegressedOfNext ==
  ASSUME TypeInv, Next, \A w \in Workers : ~ EmitRegressed(w)
  PROVE  regressed' = regressed
BY DEF Next, Work, Continue, alerts, Ingest, Pick, Regroup, Insert,
      FetchDetail, Lookup, Create, Reread, SameGroup, Attach, CountPrevious, ApplyPrevious,
      Count, Apply, ReopenRegressed, JournalRegression, EmitOpened, Recur, HoldBack,
      MarkNotified, User, Resolve, Reopen, Ignore, Transition, Prune, PruneRows, PruneList,
      PruneCount, PruneApply, PruneEnd, PruneStep, Tick, Restart

LEMMA Shrinks ==
  ASSUME NEW S, NEW T \in SUBSET S, IsFiniteSet(S)
  PROVE  Cardinality(T) <= Cardinality(S)
BY FS_Subset

\* A group that no step of a regression touches keeps its ledger.
LEMMA LedgerKept ==
  ASSUME TypeInv, TypeInv', NEW g \in Live, g \in Live', Ledger(g), SameLedger(g),
         regressed'[g] = regressed[g],
         Counted(g)' \subseteq Counted(g), Journaled(g)' \subseteq Journaled(g)
  PROVE  Ledger(g)'
<1>1. /\ Cardinality(Counted(g)') <= Cardinality(Counted(g))
      /\ Cardinality(Journaled(g)') <= Cardinality(Journaled(g))
  BY CallSetsFinite, Shrinks
<1>2. /\ Cardinality(Counted(g)) \in Nat /\ Cardinality(Journaled(g)) \in Nat
      /\ Cardinality(Counted(g)') \in Nat /\ Cardinality(Journaled(g)') \in Nat
  BY CallSetsFinite, CallSetsFiniteNext
<1>3. /\ regressed[g] \in Nat /\ journal[g] \in Nat /\ groups[g].regressions \in Nat
      /\ groups'[g] # None
  BY LiveType DEF TypeInv, CoreTypeOK, Group, Live
<1>4. groups'[g].regressions = groups[g].regressions /\ journal'[g] = journal[g]
  BY <1>3 DEF SameLedger
<1> QED
  BY <1>1, <1>2, <1>3, <1>4 DEF Ledger

\* A call that a step moves joins the calls between two marks only by the
\* label it is brought to.
LEMMA CallSetsMove ==
  ASSUME NEW w \in Workers, Still(w), NEW g
  PROVE  /\ Counted(g)' \subseteq Counted(g) \union {w}
         /\ Journaled(g)' \subseteq Journaled(g) \union {w}
         /\ pc'[w] # "journal" \/ job'[w].gid # g => Counted(g)' \subseteq Counted(g) \ {w}
         /\ pc'[w] # "emitRegressed" \/ job'[w].gid # g =>
              Journaled(g)' \subseteq Journaled(g) \ {w}
BY DEF Still, Counted, Journaled

\* One more member at most, one fewer when a member left.
LEMMA CallSetSizes ==
  ASSUME NEW S, IsFiniteSet(S), NEW w, NEW T
  PROVE  /\ T \subseteq S \union {w} => Cardinality(T) <= Cardinality(S) + 1
         /\ w \in S /\ T \subseteq S \ {w} => Cardinality(T) + 1 <= Cardinality(S)
<1>1. /\ IsFiniteSet(S \union {w}) /\ IsFiniteSet(S \ {w})
      /\ Cardinality(S \union {w}) <= Cardinality(S) + 1
      /\ w \in S => Cardinality(S \ {w}) = Cardinality(S) - 1
      /\ Cardinality(S) \in Nat
  BY FS_AddElement, FS_RemoveElement, FS_CardinalityType
<1>2. T \subseteq S \union {w} =>
        Cardinality(T) \in Nat /\ Cardinality(T) <= Cardinality(S \union {w})
  BY <1>1, FS_Subset, FS_CardinalityType
<1>3. T \subseteq S \ {w} => Cardinality(T) \in Nat /\ Cardinality(T) <= Cardinality(S \ {w})
  BY <1>1, FS_Subset, FS_CardinalityType
<1>4. Cardinality(S \union {w}) \in Nat
  BY <1>1, FS_CardinalityType
<1> QED
  BY <1>1, <1>2, <1>3, <1>4

LEMMA LedgerOfReopen ==
  ASSUME TypeInv, TypeInv', NEW w \in Workers, Still(w), ReopenRegressed(w),
         NEW g \in Live, g \in Live', Ledger(g)
  PROVE  Ledger(g)'
<1> DEFINE t == job[w].gid
<1>1. /\ pc[w] = "alert" /\ journal' = journal /\ regressed' = regressed
      /\ CoreTypeOK /\ g \in GroupIds
  BY DEF ReopenRegressed, alerts, TypeInv, Live
<1>2. /\ regressed[g] \in Nat /\ journal[g] \in Nat /\ groups[g] \in Group
      /\ groups[g].regressions \in Nat
      /\ Cardinality(Counted(g)) \in Nat /\ Cardinality(Journaled(g)) \in Nat
      /\ Cardinality(Counted(g)') \in Nat /\ Cardinality(Journaled(g)') \in Nat
  BY <1>1, CallSetsFinite, CallSetsFiniteNext, LiveType DEF CoreTypeOK, Group
<1>3. CASE t \notin Live
  <2>1. groups' = groups /\ pc'[w] = "idle"
    BY <1>1, <1>3 DEF ReopenRegressed, Finish, CoreTypeOK
  <2> QED
    BY <1>1, <2>1, CallSetsMove, LedgerKept DEF SameLedger
<1>4. CASE t \in Live
  <2>1. /\ groups' = [groups EXCEPT ![t] =
                        [groups[t] EXCEPT !.status = "open", !.regressions = @ + 1]]
        /\ job' = job /\ pc'[w] = "journal"
    <3>1. /\ Goto(w, "journal") /\ job' = job
          /\ groups' = [groups EXCEPT ![t] =
                          [groups[t] EXCEPT !.status = "open", !.regressions = @ + 1]]
      BY <1>4 DEF ReopenRegressed
    <3>2. pc'[w] = "journal"
      BY <1>1, <3>1, GotoKeeps DEF Labels
    <3> QED
      BY <3>1, <3>2
  <2>2. CASE g # t
    <3>1. groups'[g] = groups[g]
      BY <1>1, <2>1, <2>2 DEF CoreTypeOK
    <3> QED
      BY <1>1, <2>1, <2>2, <3>1, CallSetsMove, LedgerKept DEF SameLedger, Live
  <2>3. CASE g = t
    <3>1. groups'[g].regressions = groups[g].regressions + 1
      BY <1>1, <1>2, <2>1, <2>3 DEF CoreTypeOK, Group
    <3>2. Cardinality(Counted(g)') <= Cardinality(Counted(g)) + 1
      BY CallSetsMove, CallSetSizes, CallSetsFinite
    <3>3. Cardinality(Journaled(g)') <= Cardinality(Journaled(g))
      BY <2>1, CallSetsMove, CallSetsFinite, Shrinks
    <3> QED
      BY <1>1, <1>2, <3>1, <3>2, <3>3 DEF Ledger
  <2> QED
    BY <2>2, <2>3
<1> QED
  BY <1>3, <1>4

LEMMA LedgerOfJournal ==
  ASSUME TypeInv, TypeInv', NEW w \in Workers, Still(w), JournalRegression(w),
         NEW g \in Live, g \in Live', Ledger(g)
  PROVE  Ledger(g)'
<1> DEFINE t == job[w].gid
<1>1. /\ pc[w] = "journal" /\ groups' = groups /\ regressed' = regressed
      /\ CoreTypeOK /\ g \in GroupIds
  BY DEF JournalRegression, alerts, TypeInv, Live
<1>2. /\ regressed[g] \in Nat /\ journal[g] \in Nat /\ groups[g].regressions \in Nat
      /\ Cardinality(Counted(g)) \in Nat /\ Cardinality(Journaled(g)) \in Nat
      /\ Cardinality(Counted(g)') \in Nat /\ Cardinality(Journaled(g)') \in Nat
  BY <1>1, CallSetsFinite, CallSetsFiniteNext, LiveType DEF CoreTypeOK, Group
<1>3. CASE t \notin Live
  <2>1. journal' = journal /\ pc'[w] = "idle"
    BY <1>1, <1>3 DEF JournalRegression, Finish, CoreTypeOK
  <2> QED
    BY <1>1, <2>1, CallSetsMove, LedgerKept DEF SameLedger
<1>4. CASE t \in Live
  <2>1. /\ journal' = [journal EXCEPT ![t] = journal[t] + 1]
        /\ job' = job /\ pc'[w] = "emitRegressed"
    <3>1. Goto(w, "emitRegressed") /\ job' = job
      BY <1>4 DEF JournalRegression
    <3> QED
      BY <1>1, <1>4, <3>1 DEF JournalRegression, Goto, CoreTypeOK
  <2>2. CASE g # t
    <3>1. journal'[g] = journal[g]
      BY <1>1, <2>1, <2>2 DEF CoreTypeOK
    <3> QED
      BY <1>1, <2>1, <2>2, <3>1, CallSetsMove, LedgerKept DEF SameLedger, Live
  <2>3. CASE g = t
    <3>1. journal'[g] = journal[g] + 1
      BY <1>1, <1>2, <2>1, <2>3 DEF CoreTypeOK
    <3>2. Cardinality(Counted(g)') + 1 <= Cardinality(Counted(g))
      <4>1. w \in Counted(g) /\ Counted(g)' \subseteq Counted(g) \ {w}
        BY <1>1, <2>1, <2>3, CallSetsMove DEF Counted
      <4> QED
        BY <4>1, CallSetSizes, CallSetsFinite
    <3>3. Cardinality(Journaled(g)') <= Cardinality(Journaled(g)) + 1
      BY CallSetsMove, CallSetSizes, CallSetsFinite
    <3> QED
      BY <1>1, <1>2, <3>1, <3>2, <3>3 DEF Ledger
  <2> QED
    BY <2>2, <2>3
<1> QED
  BY <1>3, <1>4

LEMMA LedgerOfEmit ==
  ASSUME TypeInv, TypeInv', NEW w \in Workers, Still(w), EmitRegressed(w),
         NEW g \in Live, g \in Live', Ledger(g)
  PROVE  Ledger(g)'
<1> DEFINE t == job[w].gid
<1>1. /\ pc[w] = "emitRegressed" /\ groups' = groups /\ journal' = journal
      /\ regressed' = [regressed EXCEPT ![t] = regressed[t] + 1] /\ pc'[w] = "idle"
      /\ CoreTypeOK /\ g \in GroupIds
  BY DEF EmitRegressed, Finish, TypeInv, CoreTypeOK, Live
<1>2. /\ regressed[g] \in Nat /\ journal[g] \in Nat /\ groups[g].regressions \in Nat
      /\ Cardinality(Counted(g)) \in Nat /\ Cardinality(Journaled(g)) \in Nat
      /\ Cardinality(Counted(g)') \in Nat /\ Cardinality(Journaled(g)') \in Nat
  BY <1>1, CallSetsFinite, CallSetsFiniteNext, LiveType DEF CoreTypeOK, Group
<1>3. CASE g # t
  <2>1. regressed'[g] = regressed[g]
    BY <1>1, <1>3 DEF CoreTypeOK
  <2> QED
    BY <1>1, <2>1, CallSetsMove, LedgerKept DEF SameLedger
<1>4. CASE g = t
  <2>1. regressed'[g] = regressed[g] + 1
    BY <1>1, <1>4 DEF CoreTypeOK
  <2>2. Cardinality(Journaled(g)') + 1 <= Cardinality(Journaled(g))
    <3>1. w \in Journaled(g) /\ Journaled(g)' \subseteq Journaled(g) \ {w}
      BY <1>1, <1>4, CallSetsMove DEF Journaled
    <3> QED
      BY <3>1, CallSetSizes, CallSetsFinite
  <2>3. Cardinality(Counted(g)') <= Cardinality(Counted(g))
    BY <1>1, CallSetsMove, CallSetsFinite, Shrinks
  <2> QED
    BY <1>1, <1>2, <2>1, <2>2, <2>3 DEF Ledger
<1> QED
  BY <1>3, <1>4

\* A new group owes nothing: no call can refer to an id not given out yet.
LEMMA LedgerOfCreate ==
  ASSUME TypeInv, TypeInv', FreshIds, UnusedIds, NEW w \in Workers, Create(w),
         regressed' = regressed, NEW g \in Live', g \in Live => Ledger(g),
         Counted(g)' \subseteq Counted(g), Journaled(g)' \subseteq Journaled(g)
  PROVE  Ledger(g)'
<1> DEFINE d == job[w].row.detail
<1>1. journal' = journal /\ g \in GroupIds /\ CoreTypeOK
  BY DEF Create, Live, TypeInv
<1>2. CASE groups' = groups
  BY <1>1, <1>2, LedgerKept DEF SameLedger, Live
<1>3. CASE nextGroup \in GroupIds /\ groups' = [groups EXCEPT ![nextGroup] = NewGroup(d)]
  <2>1. nextGroup \in Nat /\ groups[nextGroup] = None
    BY <1>3 DEF FreshIds, GroupIds
  <2>2. CASE g # nextGroup
    BY <1>1, <1>3, <2>2, LedgerKept DEF SameLedger, Live, CoreTypeOK
  <2>3. CASE g = nextGroup
    <3>1. groups'[g].regressions = 0 /\ journal'[g] = 0 /\ regressed'[g] = 0
      BY <1>1, <1>3, <2>1, <2>3 DEF NewGroup, UnusedIds, CoreTypeOK
    <3>2. Counted(g)' = {} /\ Journaled(g)' = {}
      <4>1. \A v \in Workers : pc[v] \in Grouping => job[v].gid # nextGroup
        BY <2>1 DEF FreshIds, TypeInv, Context, GroupIds
      <4> QED
        BY <2>3, <4>1 DEF Counted, Journaled, Grouping, Assigning, Labels
    <3> QED
      BY <3>1, <3>2, FS_EmptySet DEF Ledger
  <2> QED
    BY <2>2, <2>3
<1> QED
  BY <1>2, <1>3 DEF Create

LEMMA LedgersOfNext ==
  ASSUME TypeInv, TypeInv', FreshIds, UnusedIds, Next, \A g \in Live : Ledger(g)
  PROVE  \A g \in Live' : Ledger(g)'
<1>1. ASSUME NEW w \in Workers, ReopenRegressed(w) \/ JournalRegression(w) \/ EmitRegressed(w)
      PROVE  \A g \in Live' : Ledger(g)'
  <2>1. Still(w)
    BY <1>1, StillCalls DEF Work, Continue
  <2>2. Live' \subseteq Live
    BY <1>1, LiveType DEF ReopenRegressed, JournalRegression, EmitRegressed, Live, TypeInv, CoreTypeOK
  <2> QED
    BY <1>1, <2>1, <2>2, LedgerOfReopen, LedgerOfJournal, LedgerOfEmit
<1>2. ASSUME \A w \in Workers : ~ ReopenRegressed(w) /\ ~ JournalRegression(w) /\ ~ EmitRegressed(w)
      PROVE  \A g \in Live' : Ledger(g)'
  <2>1. /\ \A g : Counted(g)' \subseteq Counted(g) /\ Journaled(g)' \subseteq Journaled(g)
        /\ regressed' = regressed
    BY <1>2, CallSetsStep, RegressedOfNext
  <2>2. ASSUME NEW w \in Workers, Create(w), NEW g \in Live' PROVE Ledger(g)'
    BY <2>1, <2>2, LedgerOfCreate
  <2>3. ASSUME \A w \in Workers : ~ Create(w), NEW g \in Live' PROVE Ledger(g)'
    <3>1. SameLedger(g) /\ g \in Live
      BY <1>2, <2>3, LedgersStep DEF Tracing, SameLedger, Live
    <3> QED
      BY <2>1, <3>1, LedgerKept
  <2> QED
    BY <2>2, <2>3
<1> QED
  BY <1>1, <1>2

LEMMA UnusedOfNext ==
  ASSUME TypeInv, FreshIds, UnusedIds, Next
  PROVE  UnusedIds'
<1> SUFFICES ASSUME NEW g \in GroupIds, g >= nextGroup'
             PROVE  journal'[g] = 0 /\ regressed'[g] = 0
  BY DEF UnusedIds
<1>1. /\ g >= nextGroup /\ g \in Nat /\ nextGroup \in Nat /\ CoreTypeOK
      /\ groups[g] = None /\ journal[g] = 0 /\ regressed[g] = 0
  BY NextGroupOfNext DEF GroupIds, FreshIds, UnusedIds, TypeInv
<1>2. journal'[g] = 0
  <2>1. ASSUME NEW w \in Workers, JournalRegression(w) PROVE journal'[g] = 0
    <3>1. CASE job[w].gid \in Live
      BY <1>1, <2>1, <3>1 DEF JournalRegression, Finish, Live, CoreTypeOK
    <3>2. CASE job[w].gid \notin Live
      BY <1>1, <2>1, <3>2 DEF JournalRegression
    <3> QED
      BY <3>1, <3>2
  <2>2. ASSUME \A w \in Workers : ~ JournalRegression(w) PROVE journal'[g] = 0
    BY <1>1, <2>2
    DEF Next, Work, Continue, CoreTypeOK, DeleteGroup, StoreCount, Ingest, Pick, Regroup, Insert,
        FetchDetail, Lookup, Create, Reread, SameGroup, Attach, CountPrevious, ApplyPrevious,
        Count, Apply, ReopenRegressed, EmitRegressed, Recur, HoldBack,
        MarkNotified, EmitOpened, User, Resolve, Reopen, Ignore, Transition, Prune, PruneRows,
        PruneList, PruneCount, PruneApply, PruneEnd, Tick, Restart
  <2> QED
    BY <2>1, <2>2
<1>3. regressed'[g] = 0
  <2>1. ASSUME NEW w \in Workers, EmitRegressed(w) PROVE regressed'[g] = 0
    <3>1. job[w].gid # g
      BY <1>1, <2>1 DEF EmitRegressed, FreshIds, Grouping, Assigning, Labels, TypeInv, Context
    <3> QED
      BY <1>1, <2>1, <3>1 DEF EmitRegressed, CoreTypeOK
  <2> QED
    BY <1>1, <2>1, RegressedOfNext
<1> QED
  BY <1>2, <1>3

LEMMA InitTrace == Init => TraceInv
<1> SUFFICES ASSUME Init PROVE TraceInv
  OBVIOUS
<1>1. TypeInv
  BY InitType
<1>2. \A w \in Workers : pc[w] \notin Grouping
  BY DEF Init, Assigning, Grouping
<1> QED
  BY <1>1, <1>2 DEF Init, TraceInv, FreshIds, UnusedIds, Live

LEMMA NextTrace == TraceInv /\ [Next]_vars => TraceInv'
<1>1. ASSUME TraceInv, Next PROVE TraceInv'
  <2> USE <1>1 DEF TraceInv
  <2>1. TypeInv' /\ FreshIds'
    BY NextType, FreshOfNext
  <2>2. UnusedIds'
    BY UnusedOfNext
  <2>3. \A g \in Live' : Ledger(g)'
    BY <2>1, LedgersOfNext
  <2> QED
    BY <2>1, <2>2, <2>3
<1>2. ASSUME TraceInv, UNCHANGED vars PROVE TraceInv'
  BY <1>2, StutterType
  DEF vars, core, alerts, TraceInv, FreshIds, UnusedIds, Ledger, Counted, Journaled, Live
<1> QED
  BY <1>1, <1>2

\* Whatever calls interleave, and whatever a restart cuts short, a regression
\* that was alerted is in the journal, and one that is in the journal is
\* counted on its group.
THEOREM RegressionsJournaled == Spec => []RegressionsTraced
<1>1. TraceInv => RegressionsTraced
  <2> SUFFICES ASSUME TraceInv, NEW g \in Live
               PROVE  regressed[g] <= journal[g] /\ journal[g] <= groups[g].regressions
    BY DEF RegressionsTraced
  <2>1. Ledger(g) /\ CoreTypeOK /\ g \in GroupIds
    BY DEF TraceInv, TypeInv, Live
  <2>2. /\ regressed[g] \in Nat /\ journal[g] \in Nat /\ groups[g].regressions \in Nat
        /\ Cardinality(Counted(g)) \in Nat /\ Cardinality(Journaled(g)) \in Nat
    BY <2>1, LiveType, CallSetsFinite DEF CoreTypeOK, Group
  <2> QED
    BY <2>1, <2>2 DEF Ledger
<1> QED
  BY <1>1, InitTrace, NextTrace, PTL DEF Spec


---------------------------------------------------------------------------
(* A fetched detail is kept *)

\* A call that asks the platform for a detail, and has the row for itself, does
\* it for a row that has none yet.  Of two calls on one row, the second may ask
\* for what the first just got.
Needed(w) ==
    LET e == job[w].exec IN
    pc[w] = "call" /\ e \notin together.rows => rows[e] = None \/ DetailWanted(rows[e])

KeptInv ==
    /\ TypeInv
    /\ HistoryInv
    /\ \A w \in Workers : Needed(w)

\* A call that asks the platform was asking, or just picked a pending row.
LEMMA AskingOfNext ==
  ASSUME TypeInv, Next, NEW w \in Workers, pc'[w] = "call"
  PROVE  \/ pc[w] = "call" /\ job'[w] = job[w]
         \/ /\ job'[w].exec \in Executions
            /\ rows' = rows
            /\ DetailWanted(rows[job'[w].exec])
<1>0. CoreTypeOK
  BY DEF TypeInv
<1>1. ASSUME NEW e \in Executions, Pick(w, e)
      PROVE  job'[w].exec = e /\ rows' = rows /\ DetailWanted(rows[e])
  <2>1. job' = [job EXCEPT ![w].exec = e] /\ job[w] \in Job
    BY <1>0, <1>1 DEF Pick, CoreTypeOK
  <2>2. job'[w].exec = e
    BY <1>0, <2>1 DEF Job, CoreTypeOK
  <2> QED
    BY <1>1, <2>2 DEF Pick
<1>2. ASSUME NEW e \in Executions, Ingest(w, e) \/ Regroup(w, e) PROVE FALSE
  BY <1>0, <1>2 DEF Ingest, Regroup, Goto, CoreTypeOK
<1>3. ASSUME Continue(w) PROVE FALSE
  <2>1. ASSUME NEW label \in Labels \ {"call"}, Goto(w, label) PROVE FALSE
    BY <1>0, <2>1, GotoKeeps
  <2>2. ~ Finish(w)
    BY <1>0 DEF Finish, CoreTypeOK
  <2> QED
    BY <1>3, <2>1, <2>2
    DEF Continue, Insert, FetchDetail, Lookup, Create, Reread, SameGroup, Attach, AfterAttach,
        CountPrevious, ApplyPrevious, Count, Apply, ReopenRegressed, JournalRegression,
        EmitRegressed, Recur, HoldBack, MarkNotified, EmitOpened, Labels
<1>4. ASSUME NEW v \in Workers \ {w}, Work(v) PROVE pc'[w] = pc[w] /\ job'[w] = job[w]
  BY <1>4, StillOfWork DEF Still
<1>5. ~ Restart
  BY DEF Restart
<1> QED
  BY <1>1, <1>2, <1>3, <1>4, <1>5, CallsOfOthers DEF Next, Work

LEMMA DetailOfNext ==
  ASSUME KeptInv, Next, NEW e \in Executions \ together.rows, rows[e] # None,
         ~ DetailWanted(rows[e]), rows'[e] # None
  PROVE  rows'[e].detail = rows[e].detail
<1>1. RowStep(e) /\ rows[e] \in Row
  BY RowsOfNext DEF KeptInv, TypeInv, CoreTypeOK
<1>2. \A w \in Workers : ~ Inserted(w, e) /\ ~ Fetched(w, e)
  BY DEF Inserted, Fetched, KeptInv, Needed
<1> QED
  BY <1>1, <1>2 DEF RowStep, RowMove, Removed, Detached, Joining, Row

LEMMA NeededOfNext ==
  ASSUME KeptInv, Next, NEW w \in Workers
  PROVE  Needed(w)'
<1> USE DEF KeptInv
<1> DEFINE e == job'[w].exec
<1> SUFFICES ASSUME pc'[w] = "call", e \notin together'.rows, rows'[e] # None
             PROVE  DetailWanted(rows'[e])
  BY DEF Needed, DetailWanted
<1>1. CASE pc[w] = "call" /\ job'[w] = job[w]
  <2>1. e \in Executions /\ e \notin together.rows
    BY <1>1, HistoryOfNext DEF TypeInv, Context
  <2>2. \A v \in Workers : HandlesRow(v, e) => v = w
    BY <1>1, <2>1 DEF HistoryInv, RowAlone, HandlesRow
  <2>3. \A v \in Workers : ~ Inserted(v, e) /\ ~ Fetched(v, e) /\ ~ Joining(v, e)
    BY <1>1, <2>2 DEF Inserted, Fetched, Joining, HandlesRow
  <2>4. RowStep(e) /\ rows[e] \in Row \union {None}
    BY <2>1, RowsOfNext DEF TypeInv, CoreTypeOK
  <2>5. rows[e] # None
    BY <2>3, <2>4 DEF RowStep, RowMove, Removed, Detached
  <2>6. DetailWanted(rows[e])
    BY <1>1, <2>1, <2>5 DEF Needed
  <2> QED
    BY <2>3, <2>4, <2>5, <2>6 DEF RowStep, RowMove, Removed, Detached, DetailWanted, Row
<1>2. CASE rows' = rows /\ DetailWanted(rows[e])
  BY <1>2
<1> QED
  BY <1>1, <1>2, AskingOfNext

\* Once fetched, a detail is kept, whatever calls run meanwhile on other rows,
\* and whatever restarts and prunes come: a restart does not lose it, nor an
\* answer that comes empty later, for nobody asks again.
THEOREM DetailsAreKept == Spec => DetailKept
<1>1. Init => KeptInv
  BY InitType, InitHistory DEF Init, KeptInv, Needed
<1>2. ASSUME KeptInv, [Next]_vars
      PROVE  /\ KeptInv'
             /\ [\A e \in Executions \ together.rows :
                    (rows[e] # None /\ rows[e].detailState = "fetched" /\ rows'[e] # None)
                    => rows'[e].detail = rows[e].detail]_vars
  <2>1. CASE Next
    BY <1>2, <2>1, NextType, HistoryOfNext, NeededOfNext, DetailOfNext DEF KeptInv, DetailWanted
  <2>2. CASE UNCHANGED vars
    BY <1>2, <2>2, StutterType, StillHistory DEF KeptInv, Needed, vars, core
  <2> QED
    BY <1>2, <2>1, <2>2
<1> QED
  BY <1>1, <1>2, PTL DEF Spec, DetailKept

---------------------------------------------------------------------------
(* The tables are true and what is settled is told, signature by signature *)

Ended(w) == pc'[w] = "idle" /\ UNCHANGED <<rows, groups>>

\* What a call inside assign() does next.
Onward(w) ==
    LET e == job[w].exec
        row == job[w].row
        g == job[w].gid IN
    \/ pc'[w] = pc[w] /\ job'[w] = job[w]
    \/ pc[w] = "lookup" /\ pc'[w] = "create" /\ Signed(row.detail) = {} /\ UNCHANGED groups
    \/ pc[w] = "create" /\ pc'[w] = "reread" /\ Signed(row.detail) # {}
    \/ pc[w] \in {"lookup", "create", "reread"} /\ pc'[w] = "grouped"
    \/ pc[w] = "reread" /\ Ended(w)
    \/ Staying(w)
    \/ Joining(w, e) /\ IsNewOccurrence(w) /\ pc'[w] = AfterAttach(row.groupId)
    \/ pc[w] = "grouped" /\ Ended(w) /\ (rows[e] = None \/ g \notin Live)
    \/ /\ pc[w] = "countPrevious" /\ pc'[w] = "applyPrevious" /\ UNCHANGED <<rows, groups>>
       /\ job'[w].total = Cardinality(Members(row.groupId))
    \/ /\ pc[w] = "applyPrevious" /\ pc'[w] = "count"
       /\ \/ job[w].total = 0 /\ row.groupId \notin Live'
          \/ job[w].total > 0 /\ groups'[row.groupId].occurrences = job[w].total
    \/ pc[w] = "applyPrevious" /\ Ended(w) /\ row.groupId \notin Live
    \/ /\ pc[w] = "count" /\ pc'[w] = "apply" /\ UNCHANGED <<rows, groups>>
       /\ job'[w].total = Cardinality(Members(g))
    \/ /\ pc[w] = "apply" /\ pc'[w] = "alert"
       /\ \/ job[w].total = 0 /\ g \notin Live'
          \/ job[w].total > 0 /\ groups'[g].occurrences = job[w].total
    \/ pc[w] = "apply" /\ Ended(w) /\ g \notin Live
    \/ pc[w] = "alert" /\ pc'[w] \in {"journal", "emitOpened"}
    \/ pc[w] = "journal" /\ pc'[w] = "emitRegressed"
    \/ /\ pc[w] \in {"alert", "journal"} /\ Ended(w)
       /\ g \notin Live \/ job[w].seen.notified \/ Provisional(row)
    \/ pc[w] = "emitRegressed" /\ Ended(w) /\ regressed'[g] = regressed[g] + 1
    \/ pc[w] = "emitOpened" /\ Ended(w) /\ opened'[g] = opened[g] + 1

LEMMA OnwardOfWork ==
  ASSUME TypeInv, NEW w \in Workers, pc[w] \in Assigning, Work(w)
  PROVE  Onward(w)
<1>0. CoreTypeOK /\ LabelStep(w)
  BY LabelsOfWork DEF TypeInv
<1>1. Finish(w) => pc'[w] = "idle"
  BY <1>0 DEF Finish, CoreTypeOK
<1>2. \A label \in Labels : Goto(w, label) => pc'[w] = label
  BY <1>0, GotoKeeps
<1>3. ~ \E e \in Executions : Ingest(w, e) \/ Pick(w, e) \/ Regroup(w, e)
  BY DEF Ingest, Pick, Regroup, Assigning
<1>4. ~ Insert(w) /\ ~ FetchDetail(w)
  BY DEF Insert, FetchDetail, Assigning
<1>5. CASE Lookup(w) \/ Create(w) \/ Reread(w)
  BY <1>1, <1>2, <1>5 DEF Lookup, Create, Reread, Onward, Ended, Labels
<1>6. CASE SameGroup(w)
  BY <1>2, <1>6 DEF SameGroup, IsNewOccurrence, Onward, Staying, Labels
<1>7. CASE Attach(w)
  <2>1. CASE /\ rows[job[w].exec] = None \/ job[w].gid \notin Live
             /\ Finish(w) /\ UNCHANGED rows
    <3>1. pc[w] = "grouped" /\ UNCHANGED groups
      BY <1>7 DEF Attach
    <3> QED
      BY <1>1, <2>1, <3>1 DEF Onward, Ended
  <2>2. CASE /\ rows[job[w].exec] # None /\ job[w].gid \in Live
             /\ rows' = [rows EXCEPT ![job[w].exec].groupId = job[w].gid]
             /\ Goto(w, AfterAttach(job[w].row.groupId)) /\ UNCHANGED job
    <3>1. /\ IsNewOccurrence(w) /\ pc[w] = "grouped" /\ UNCHANGED groups
          /\ job[w].exec \in Executions
      BY <1>7 DEF Attach, TypeInv, Context
    <3>2. /\ pc'[w] = AfterAttach(job[w].row.groupId)
          /\ pc'[w] \in {"count", "countPrevious"}
      BY <1>2, <2>2 DEF AfterAttach, Labels
    <3>3. rows'[job[w].exec] = [rows[job[w].exec] EXCEPT !.groupId = job[w].gid]
      BY <1>0, <2>2, <3>1 DEF CoreTypeOK
    <3>4. Joining(w, job[w].exec)
      BY <2>2, <3>1, <3>2, <3>3 DEF Joining
    <3> QED
      BY <3>1, <3>2, <3>4 DEF Onward
  <2> QED
    BY <1>7, <2>1, <2>2 DEF Attach
<1>8. CASE CountPrevious(w) \/ Count(w)
  <2>1. PICK g : Aggregate(w, g) /\ g = IF pc[w] = "count" THEN job[w].gid ELSE job[w].row.groupId
    BY <1>8 DEF CountPrevious, Count
  <2>2. job'[w].total = Cardinality(Members(g))
    BY <1>0, <2>1 DEF Aggregate, CoreTypeOK, Job
  <2> QED
    BY <1>2, <1>8, <2>1, <2>2 DEF CountPrevious, Count, Onward, Labels
<1>9. CASE ApplyPrevious(w)
  <2> DEFINE g == job[w].row.groupId
  <2>1. g \in GroupIds /\ pc[w] = "applyPrevious"
    BY <1>9 DEF ApplyPrevious, TypeInv, Context
  <2>2. DeleteGroup(g) => g \notin Live'
    BY <1>0, <2>1 DEF DeleteGroup, Live, CoreTypeOK
  <2>3. StoreCount(g, job[w].total) /\ g \in Live => groups'[g].occurrences = job[w].total
    BY <1>0, <2>1, LiveType DEF StoreCount, CoreTypeOK, Group
  <2> QED
    BY <1>1, <1>2, <1>9, <2>1, <2>2, <2>3 DEF ApplyPrevious, Onward, Ended, Labels
<1>10. CASE Apply(w)
  <2> DEFINE g == job[w].gid
  <2>1. g \in GroupIds /\ pc[w] = "apply"
    BY <1>10 DEF Apply, TypeInv, Context, Grouping, Assigning, Labels
  <2>2. DeleteGroup(g) => g \notin Live'
    BY <1>0, <2>1 DEF DeleteGroup, Live, CoreTypeOK
  <2>3. StoreCount(g, job[w].total) /\ g \in Live => groups'[g].occurrences = job[w].total
    BY <1>0, <2>1, LiveType DEF StoreCount, CoreTypeOK, Group
  <2> QED
    BY <1>1, <1>2, <1>10, <2>1, <2>2, <2>3 DEF Apply, Onward, Ended, Labels
<1>11. CASE ReopenRegressed(w) \/ JournalRegression(w) \/ MarkNotified(w)
  BY <1>1, <1>2, <1>11
  DEF ReopenRegressed, JournalRegression, MarkNotified, Onward, Ended, Labels
<1>12. CASE EmitRegressed(w) \/ EmitOpened(w)
  <2>1. job[w].gid \in GroupIds
    BY <1>12 DEF TypeInv, Context, EmitRegressed, EmitOpened, Grouping, Assigning, Labels
  <2> QED
    BY <1>0, <1>1, <1>12, <2>1 DEF EmitRegressed, EmitOpened, Onward, Ended, CoreTypeOK
<1>13. CASE Recur(w) \/ HoldBack(w)
  BY <1>1, <1>13 DEF Recur, HoldBack, Announced, Onward, Ended
<1> QED
  BY <1>3, <1>4, <1>5, <1>6, <1>7, <1>8, <1>9, <1>10, <1>11, <1>12, <1>13 DEF Work, Continue

LEMMA OnwardOfNext ==
  ASSUME TypeInv, Next, ~ Restart, NEW w \in Workers, pc[w] \in Assigning
  PROVE  Onward(w)
<1>1. ASSUME pc'[w] = pc[w], job'[w] = job[w] PROVE Onward(w)
  BY <1>1 DEF Onward
<1>2. ASSUME NEW v \in Workers, Work(v) PROVE Onward(w)
  BY <1>1, <1>2, OnwardOfWork, StillOfWork DEF Still
<1> QED
  BY <1>1, <1>2, CallsOfOthers DEF Next

\* A recount of group h is about to be stored.
Storing(w, h) ==
    \/ pc[w] = "applyPrevious" /\ job[w].row.groupId = h
    \/ pc[w] = "apply" /\ job[w].gid = h

\* Group h is created, empty, by the call that lacked it.
Creating(w, h) ==
    /\ pc[w] = "create" /\ pc'[w] = "grouped"
    /\ h = nextGroup /\ groups[h] = None
    /\ Signed(job[w].row.detail) = {}
    /\ groups'[h] = NewGroup(job[w].row.detail)
    /\ job'[w].gid = h
    /\ UNCHANGED rows

\* The prune aside, a group comes from a create; a recount deletes it when it
\* found no occurrence, and otherwise stores how many it found.
TallyStep(h) ==
    \/ groups[h] = None /\ groups'[h] = None
    \/ groups[h] # None /\ groups'[h] # None /\ groups'[h].occurrences = groups[h].occurrences
    \/ \E w \in Workers : Creating(w, h)
    \/ /\ groups[h] # None
       /\ \E w \in Workers : /\ Storing(w, h)
                             /\ \/ job[w].total = 0 /\ groups'[h] = None
                                \/ groups'[h] # None /\ groups'[h].occurrences = job[w].total

LEMMA TallyOfDelete ==
  ASSUME CoreTypeOK, NEW w \in Workers, NEW g \in GroupIds, DeleteGroup(g),
         Storing(w, g), job[w].total = 0
  PROVE  \A h \in GroupIds : TallyStep(h)
BY DEF DeleteGroup, TallyStep, CoreTypeOK

LEMMA TallyOfStore ==
  ASSUME CoreTypeOK, NEW w \in Workers, NEW g \in Live, StoreCount(g, job[w].total),
         Storing(w, g)
  PROVE  \A h \in GroupIds : TallyStep(h)
<1>1. groups[g] \in Group /\ g \in GroupIds /\ groups[g] # None
  BY LiveType DEF Live
<1>2. groups' = [groups EXCEPT ![g] = [groups[g] EXCEPT !.occurrences = job[w].total]]
  BY DEF StoreCount
<1>3. /\ [groups[g] EXCEPT !.occurrences = job[w].total].occurrences = job[w].total
      /\ [groups[g] EXCEPT !.occurrences = job[w].total] # None
  <2>1. groups'[g] = [groups[g] EXCEPT !.occurrences = job[w].total]
    BY <1>1, <1>2 DEF CoreTypeOK
  <2>2. job[w].total \in Nat
    BY DEF CoreTypeOK, Job
  <2>3. [groups[g] EXCEPT !.occurrences = job[w].total] \in Group
    BY <1>1, <2>2 DEF Group
  <2> QED
    BY <1>1, <2>3, NoneAssumption DEF Group
<1> QED
  BY <1>1, <1>2, <1>3 DEF TallyStep, CoreTypeOK

LEMMA TallyOfUpdate ==
  ASSUME CoreTypeOK, NEW g \in Live, NEW group \in Group,
         groups' = [groups EXCEPT ![g] = group], group.occurrences = groups[g].occurrences
  PROVE  \A h \in GroupIds : TallyStep(h)
BY NoneAssumption DEF TallyStep, CoreTypeOK, Live

LEMMA TallyOfCreate ==
  ASSUME TypeInv, FreshIds, NEW w \in Workers, Create(w)
  PROVE  \A h \in GroupIds : TallyStep(h)
<1> DEFINE d == job[w].row.detail
<1>0. CoreTypeOK
  BY DEF TypeInv
<1>1. CASE UNCHANGED groups
  BY <1>1 DEF TallyStep
<1>2. CASE ~ UNCHANGED groups
  <2>1. /\ Signed(d) = {} /\ nextGroup \in GroupIds /\ pc[w] = "create"
        /\ groups' = [groups EXCEPT ![nextGroup] = NewGroup(d)]
        /\ Hold(w, nextGroup, NewGroup(d)) /\ Goto(w, "grouped") /\ UNCHANGED rows
    BY <1>2 DEF Create
  <2>2. pc'[w] = "grouped" /\ job'[w].gid = nextGroup
    <3>1. job[w] \in Job /\ job'[w] = [job[w] EXCEPT !.gid = nextGroup,
                                          !.seen = Snapshot(NewGroup(d)), !.total = 0]
      BY <1>0, <2>1 DEF Hold, CoreTypeOK
    <3> QED
      BY <1>0, <2>1, <3>1, GotoKeeps DEF Labels, Job
  <2>3. ASSUME NEW h \in GroupIds, h # nextGroup PROVE groups'[h] = groups[h]
    BY <1>0, <2>1, <2>3 DEF CoreTypeOK
  <2>4. groups[nextGroup] = None
    BY <2>1 DEF FreshIds, GroupIds
  <2>5. groups'[nextGroup] = NewGroup(d)
    BY <1>0, <2>1 DEF CoreTypeOK
  <2>6. Creating(w, nextGroup)
    BY <2>1, <2>2, <2>4, <2>5 DEF Creating
  <2> QED
    BY <2>3, <2>6 DEF TallyStep
<1> QED
  BY <1>1, <1>2

LEMMA TalliesOfNext ==
  ASSUME TypeInv, FreshIds, Next, ~ Prune
  PROVE  \A h \in GroupIds : TallyStep(h)
<1>0. CoreTypeOK
  BY DEF TypeInv
<1>1. CASE UNCHANGED groups
  BY <1>1 DEF TallyStep
<1>2. ASSUME NEW w \in Workers, ApplyPrevious(w) PROVE \A h \in GroupIds : TallyStep(h)
  <2> DEFINE g == job[w].row.groupId
  <2>1. g \in GroupIds /\ Storing(w, g)
    BY <1>2 DEF ApplyPrevious, TypeInv, Context, Storing
  <2>2. \/ UNCHANGED groups
        \/ DeleteGroup(g) /\ job[w].total = 0
        \/ g \in Live /\ StoreCount(g, job[w].total)
    BY <1>2 DEF ApplyPrevious
  <2> QED
    BY <1>0, <1>1, <2>1, <2>2, TallyOfDelete, TallyOfStore
<1>3. ASSUME NEW w \in Workers, Apply(w) PROVE \A h \in GroupIds : TallyStep(h)
  <2> DEFINE g == job[w].gid
  <2>1. g \in GroupIds /\ Storing(w, g)
    BY <1>3 DEF Apply, TypeInv, Context, Storing, Grouping, Assigning, Labels
  <2>2. \/ UNCHANGED groups
        \/ DeleteGroup(g) /\ job[w].total = 0
        \/ g \in Live /\ StoreCount(g, job[w].total)
    BY <1>3 DEF Apply
  <2> QED
    BY <1>0, <1>1, <2>1, <2>2, TallyOfDelete, TallyOfStore
<1>4. ASSUME NEW w \in Workers, ReopenRegressed(w) \/ MarkNotified(w), ~ UNCHANGED groups
      PROVE  \A h \in GroupIds : TallyStep(h)
  <2> DEFINE g == job[w].gid
             reopened == [groups[g] EXCEPT !.status = "open", !.regressions = @ + 1]
  <2>1. /\ g \in Live
        /\ \/ groups' = [groups EXCEPT ![g] = reopened]
           \/ groups' = [groups EXCEPT ![g] = Notified(groups[g])]
    BY <1>4 DEF ReopenRegressed, MarkNotified
  <2>2. groups[g] \in Group
    BY <1>0, <2>1, LiveType
  <2>3. /\ reopened \in Group /\ Notified(groups[g]) \in Group
        /\ reopened.occurrences = groups[g].occurrences
        /\ Notified(groups[g]).occurrences = groups[g].occurrences
    <3>1. reopened \in Group /\ Notified(groups[g]) \in Group
      BY <2>2, GroupUpdates
    <3> QED
      BY <2>2, <3>1 DEF Group, Notified
  <2> QED
    BY <1>0, <2>1, <2>3, TallyOfUpdate
<1>5. ASSUME User PROVE \A h \in GroupIds : TallyStep(h)
  <2>1. PICK g \in GroupIds : Resolve(g) \/ Reopen(g) \/ Ignore(g)
    BY <1>5 DEF User
  <2>2. g \in Live /\ clock \in Nat
    BY <1>0, <2>1 DEF Resolve, Reopen, Ignore, Transition, CoreTypeOK
  <2>3. groups[g] \in Group
    BY <1>0, <2>2, LiveType
  <2> DEFINE changed == {[groups[g] EXCEPT !.status = "resolved", !.resolvedAt = clock],
                         [groups[g] EXCEPT !.status = "open"],
                         [groups[g] EXCEPT !.status = "ignored"]}
  <2>4. PICK group \in changed : groups' = [groups EXCEPT ![g] = group]
    BY <2>1 DEF Resolve, Reopen, Ignore, Transition
  <2>5. changed \subseteq Group
    BY <2>2, <2>3, GroupUpdates
  <2>6. group.occurrences = groups[g].occurrences
    BY <2>3 DEF Group
  <2> QED
    BY <1>0, <2>2, <2>4, <2>5, <2>6, TallyOfUpdate
<1> QED
  BY <1>1, <1>2, <1>3, <1>4, <1>5, TallyOfCreate
  DEF Next, Work, Continue, Ingest, Pick, Regroup, Insert, FetchDetail, Lookup, Reread,
      SameGroup, Attach, CountPrevious, Count, JournalRegression, EmitRegressed, Recur,
      HoldBack, EmitOpened, Tick, Restart

\* The prune aside, no row goes.
LEMMA RowsLast ==
  ASSUME TypeInv, Next, ~ Prune, NEW e \in Executions, rows[e] # None
  PROVE  rows'[e] # None
<1>1. RowMove(e) /\ rows[e] \in Row
  BY RowsMove DEF TypeInv, CoreTypeOK
<1>2. \A g \in GroupIds \union {None} : [rows[e] EXCEPT !.groupId = g] \in Row
  BY <1>1, RowUpdates
<1>3. Detached(e) => rows'[e] \in Row
  BY <1>2 DEF Detached
<1>4. ASSUME NEW w \in Workers, Joining(w, e) PROVE rows'[e] \in Row
  BY <1>2, <1>4 DEF Joining, Live
<1>5. ASSUME NEW w \in Workers, Inserted(w, e) \/ Fetched(w, e) PROVE rows'[e] \in Row
  BY <1>5, NewRowType DEF Inserted, Fetched
<1> QED
  BY <1>1, <1>3, <1>4, <1>5, NoneAssumption DEF RowMove

---------------------------------------------------------------------------
(* What a call holds of a signature that no other call has in hand *)

\* The place of row e is still to be settled, or its announcement.
Moving(w, e) == pc[w] \in Searching /\ job[w].exec = e

Telling(w, e) == pc[w] \in Assigning /\ job[w].exec = e

\* The row left group h, or group h is to be recounted.
Leaving(w, h) == pc[w] \in {"countPrevious", "applyPrevious"} /\ job[w].row.groupId = h

Recounting(w, h) ==
    \/ Leaving(w, h)
    \/ pc[w] \in {"countPrevious", "applyPrevious", "count", "apply"} /\ job[w].gid = h

\* Group h may be empty: its last row just left, or its first is to come.
Filling(w, h) == Leaving(w, h) \/ (pc[w] = "grouped" /\ job[w].gid = h)

\* The row a call holds is the one the table holds, as far as d can tell.
Mirrors(w, d) ==
    LET e == job[w].exec
        row == job[w].row IN
    pc[w] \in Assigning =>
        /\ rows[e] # None
        /\ row.detail = d <=> rows[e].detail = d
        /\ row.detail = d => row.detailState = rows[e].detailState
        /\ pc[w] \in Searching =>
               \A h \in Signed(d) : row.groupId = h <=> rows[e].groupId = h

\* What a call read of the groups signed d is still so.
Bearings(w, d) ==
    LET e == job[w].exec
        row == job[w].row
        g == job[w].gid IN
    /\ pc[w] = "create" /\ row.detail = d => Signed(d) = {}
    /\ pc[w] = "reread" => row.detail # d
    /\ pc[w] \in Grouping /\ row.detail = d =>
           g \in Signed(d) /\ (job[w].seen.notified => groups[g].notified)
    /\ pc[w] \in Joined /\ row.detail = d => rows[e].groupId = g
    /\ pc[w] \in {"countPrevious", "applyPrevious"} => row.groupId # g
    /\ pc[w] = "applyPrevious" /\ row.groupId \in Signed(d) =>
           job[w].total = Cardinality(Members(row.groupId))
    /\ pc[w] = "apply" /\ row.detail = d => job[w].total = Cardinality(Members(g))

\* A step other than a restart or the prune, and a signature that two calls
\* never had in hand at once, this step included.
CalmStep(d) ==
    /\ AnnounceInv /\ Next /\ ~ Restart /\ ~ Prune
    /\ d \in Details \ together'.signatures
    /\ \A w \in Workers : Mirrors(w, d) /\ Bearings(w, d)

LEMMA CalmFacts ==
  ASSUME NEW d, CalmStep(d)
  PROVE  /\ TypeInv /\ TypeInv' /\ FreshIds /\ GivenGroups /\ GivenGroups'
         /\ d \in Details
         /\ ~ Clash(d) /\ ~ Clash(d)' /\ ~ CutShort(d)
         /\ \A e \in Executions : RowMove(e)
         /\ \A h \in GroupIds : TallyStep(h) /\ FaceStep(h)
         /\ \A w \in Workers : OnTarget(w) /\ CallStep(w) /\ LabelStep(w)
         /\ \A w \in Workers : pc[w] \in Assigning => Onward(w)
<1>1. AnnounceInv /\ Next /\ AnnounceInv' /\ TypeInv /\ HistoryInv /\ TypeInv'
  BY NextAnnounce DEF CalmStep, AnnounceInv
<1>2. /\ HistoryInv' /\ together.signatures \subseteq together'.signatures
      /\ \A x \in Details \ together'.signatures : ~ CutShort(x)
  BY <1>1, HistoryOfNext
<1>3. ~ Clash(d) /\ ~ Clash(d)' /\ ~ CutShort(d)
  BY <1>1, <1>2 DEF CalmStep, HistoryInv
<1>4. \A e \in Executions : RowMove(e)
  BY <1>1, RowsMove DEF CalmStep
<1>5. \A h \in GroupIds : TallyStep(h) /\ FaceStep(h)
  BY <1>1, TalliesOfNext, FacesOfNext DEF CalmStep, AnnounceInv
<1>6. \A w \in Workers : CallStep(w) /\ LabelStep(w)
  BY <1>1, CallsOfNext, LabelsOfNext
<1>7. \A w \in Workers : pc[w] \in Assigning => Onward(w)
  BY <1>1, OnwardOfNext DEF CalmStep
<1> QED
  BY <1>1, <1>3, <1>4, <1>5, <1>6, <1>7 DEF AnnounceInv, CalmStep

\* A call that has the signature in hand is alone with it, and with its row.
LEMMA AloneWith ==
  ASSUME NEW d, CalmStep(d), NEW v \in Workers, NEW w \in Workers
  PROVE  /\ HandlesSignature(v, d) /\ (HandlesSignature(w, d) \/ SameRow(v, w)) => v = w
         /\ HandlesSignature(v, d)' /\ (HandlesSignature(w, d)' \/ SameRow(v, w)') => v = w
<1>1. ~ Clash(d) /\ ~ Clash(d)'
  BY CalmFacts
<1> QED
  BY <1>1 DEF Clash

\* Working for a row, or on a group, of signature d is to have d in hand.
LEMMA HandsOn ==
  ASSUME NEW d, CalmStep(d), NEW w \in Workers, pc[w] \in Assigning
  PROVE  /\ job[w].row.detail = d => HandlesSignature(w, d)
         /\ job[w].row.groupId \in Signed(d) => HandlesSignature(w, d)
         /\ pc[w] \in Grouping /\ job[w].gid \in Signed(d) =>
                job[w].row.detail = d /\ HandlesSignature(w, d)
<1>1. OnTarget(w)
  BY CalmFacts
<1> QED
  BY <1>1 DEF HandlesSignature, OnTarget, Signed

\* A call inside assign() keeps its row, and its group once it has one.
LEMMA KeepsOn ==
  ASSUME NEW d, CalmStep(d), NEW w \in Workers, pc[w] \in Assigning, pc'[w] \in Assigning
  PROVE  /\ job'[w].exec = job[w].exec /\ job'[w].row = job[w].row
         /\ pc[w] \in Grouping /\ pc'[w] \in Grouping => job'[w].gid = job[w].gid
<1>1. CallStep(w) /\ Onward(w)
  BY CalmFacts
<1>2. CASE pc'[w] = "lookup"
  <2>1. pc'[w] = pc[w] /\ job'[w] = job[w]
    BY <1>1, <1>2 DEF Onward, Ended, Staying, Joining, AfterAttach
  <2> QED
    BY <2>1
<1>3. CASE pc'[w] # "lookup"
  BY <1>1, <1>3 DEF CallStep, Entering, Following, SameTarget, NewTarget
<1> QED
  BY <1>2, <1>3

LEMMA NoMembers == \A h : Cardinality(Members(h)) = 0 => Members(h) = {}
<1>1. \A h : IsFiniteSet(Members(h))
  BY FS_Subset, ConstantsAssumption DEF Members
<1> QED
  BY <1>1, FS_EmptySet

\* What a call is about to store is what group h counts.
LEMMA StoresTruth ==
  ASSUME NEW d, CalmStep(d), NEW w \in Workers, NEW h \in Signed(d), Storing(w, h)
  PROVE  /\ pc[w] \in Assigning /\ HandlesSignature(w, d)
         /\ job[w].total = Cardinality(Members(h))
         /\ pc[w] = "apply" => Members(h) # {}
<1>1. pc[w] \in Assigning /\ (pc[w] = "apply" => pc[w] \in Grouping /\ pc[w] \in Joined)
  BY DEF Storing, Joined, Grouping, Assigning, Labels
<1>2. HandlesSignature(w, d) /\ (pc[w] = "apply" => job[w].row.detail = d)
  BY <1>1, HandsOn DEF Storing
<1>3. job[w].total = Cardinality(Members(h))
  BY <1>1, <1>2 DEF CalmStep, Bearings, Storing
<1>4. ASSUME pc[w] = "apply" PROVE Members(h) # {}
  <2>1. job[w].exec \in Executions
    BY <1>1, CalmFacts DEF TypeInv, Context, Assigning
  <2>2. rows[job[w].exec] # None /\ rows[job[w].exec].groupId = job[w].gid
    BY <1>1, <1>2, <1>4 DEF CalmStep, Mirrors, Bearings
  <2>3. job[w].gid = h
    BY <1>4 DEF Storing
  <2> QED
    BY <2>1, <2>2, <2>3 DEF Members
<1> QED
  BY <1>1, <1>2, <1>3, <1>4

\* A group goes when it is empty, by the hand of the call whose row left it.
LEMMA DiesEmpty ==
  ASSUME NEW d, CalmStep(d), NEW h \in Signed(d), h \notin Signed(d)'
  PROVE  /\ h \in GroupIds /\ h \notin Live'
         /\ Members(h) = {}
         /\ \E w \in Workers : /\ pc[w] = "applyPrevious" /\ job[w].row.groupId = h
                               /\ HandlesSignature(w, d)
<1>1. h \in GroupIds /\ groups[h] # None /\ groups[h].signature = d
  BY DEF Signed, Live
<1>2. TallyStep(h) /\ FaceStep(h) /\ (h = nextGroup => groups[h] = None)
  BY <1>1, CalmFacts DEF FreshIds, GroupIds
<1>3. groups'[h] = None
  BY <1>1, <1>2 DEF FaceStep, Signed, Live
<1>4. PICK w \in Workers : Storing(w, h) /\ job[w].total = 0
  BY <1>1, <1>2, <1>3 DEF TallyStep, Creating
<1>5. Members(h) = {}
  BY <1>4, StoresTruth, NoMembers
<1> QED
  BY <1>1, <1>3, <1>4, <1>5, StoresTruth DEF Storing, Live

\* A group comes in the hands of one call, and nothing refers to it yet.
LEMMA BornBare ==
  ASSUME NEW d, CalmStep(d), NEW h \in Signed(d)', h \notin Signed(d)
  PROVE  /\ \E w \in Workers : Creating(w, h) /\ job[w].row.detail = d
         /\ \A e \in Executions : rows[e] # None => rows[e].groupId # h
         /\ \A w \in Workers : pc[w] \in Assigning => job[w].row.groupId # h
<1>1. h \in GroupIds /\ groups'[h] # None /\ groups'[h].signature = d
  BY DEF Signed, Live
<1>2. TallyStep(h) /\ FaceStep(h) /\ (h = nextGroup => groups[h] = None) /\ h \in Nat /\ nextGroup \in Nat
  BY <1>1, CalmFacts DEF FreshIds, GroupIds, TypeInv, CoreTypeOK
<1>3. groups[h] = None
  BY <1>1, <1>2 DEF FaceStep, Signed, Live
<1>4. PICK w \in Workers : Creating(w, h)
  BY <1>1, <1>2, <1>3 DEF TallyStep
<1>5. job[w].row.detail = d /\ h = nextGroup
  BY <1>1, <1>4 DEF Creating, NewGroup
<1>6. ~ (h < nextGroup) /\ h # None
  BY <1>1, <1>2, <1>5, NoneAssumption
<1> QED
  BY <1>4, <1>5, <1>6, CalmFacts DEF GivenGroups

\* A row leaves a group for another by the hand of the call that has it.
LEMMA LeavesBy ==
  ASSUME NEW d, CalmStep(d), NEW h \in Signed(d), NEW e \in Executions,
         rows[e] # None, rows[e].groupId = h, rows'[e].groupId # h
  PROVE  \E w \in Workers : Joining(w, e) /\ Leaving(w, h)' /\ HandlesSignature(w, d)
<1>1. RowMove(e) /\ h \in GroupIds
  BY CalmFacts DEF Signed, Live
<1>2. ~ Detached(e)
  <2>1. e \in Members(h)
    BY DEF Members
  <2>2. h \in Live'
    BY <2>1, DiesEmpty DEF Signed
  <2> QED
    BY <2>2 DEF Detached, Live
<1>3. PICK w \in Workers : Joining(w, e)
  BY <1>1, <1>2 DEF RowMove, Inserted, Fetched
<1>4. pc[w] \in Assigning /\ pc[w] \in Searching
  BY <1>3 DEF Joining, Assigning, Searching, Labels
<1>5. job[w].row.groupId = h
  BY <1>3, <1>4 DEF CalmStep, Mirrors, Joining
<1>6. HandlesSignature(w, d)
  BY <1>4, <1>5, HandsOn
<1>7. Onward(w)
  BY <1>4, CalmFacts
<1>8. pc'[w] = "countPrevious" /\ job'[w] = job[w]
  <2>1. pc'[w] = AfterAttach(h)
    BY <1>3, <1>5, <1>7 DEF Onward, Joining, Staying, Ended
  <2> QED
    BY <1>1, <1>3, <2>1, NoneAssumption DEF AfterAttach, Joining
<1> QED
  BY <1>3, <1>5, <1>6, <1>8 DEF Leaving

\* A row comes to a group by the hand of the call that has it.
LEMMA JoinsBy ==
  ASSUME NEW d, CalmStep(d), NEW h \in Signed(d)', NEW e \in Executions,
         rows'[e] # None, rows'[e].groupId = h, ~ (rows[e] # None /\ rows[e].groupId = h)
  PROVE  /\ h \in Signed(d)
         /\ \E w \in Workers : Joining(w, e) /\ job[w].gid = h /\ HandlesSignature(w, d)
<1>1. RowMove(e) /\ h \in GroupIds /\ h # None
  BY CalmFacts, NoneAssumption DEF Signed, Live
<1>2. ~ Detached(e)
  <2>1. rows[e] # None => rows[e] \in Row
    BY CalmFacts DEF TypeInv, CoreTypeOK
  <2> QED
    BY <1>1, <2>1 DEF Detached, Row
<1>3. PICK w \in Workers : Joining(w, e)
  BY <1>1, <1>2 DEF RowMove, Inserted, Fetched, NewRow
<1>4. job[w].gid = h /\ UNCHANGED groups
  <2>1. rows[e] \in Row
    BY <1>3, CalmFacts DEF TypeInv, CoreTypeOK, Joining
  <2> QED
    BY <1>3, <2>1 DEF Joining, Row
<1>5. h \in Signed(d)
  BY <1>4 DEF Signed, Live
<1>6. pc[w] \in Assigning /\ pc[w] \in Grouping
  BY <1>3 DEF Joining, Grouping, Assigning, Labels
<1> QED
  BY <1>3, <1>4, <1>5, <1>6, HandsOn

LEMMA MirrorsOfNext ==
  ASSUME NEW d, CalmStep(d), NEW v \in Workers
  PROVE  Mirrors(v, d)'
<1> SUFFICES ASSUME pc'[v] \in Assigning PROVE Mirrors(v, d)'
  BY DEF Mirrors
<1>0. TypeInv /\ TypeInv' /\ CallStep(v) /\ LabelStep(v) /\ Mirrors(v, d)
  BY CalmFacts DEF CalmStep
<1>1. CASE Entering(v)
  BY <1>1 DEF Entering, Mirrors
<1>2. CASE Following(v)
  <2> DEFINE e == job[v].exec
             row == job[v].row
  <2>1. /\ pc[v] \in Assigning /\ job'[v].exec = e /\ job'[v].row = row
        /\ e \in Executions /\ rows[e] # None /\ rows[e] \in Row
        /\ row.detail = d <=> rows[e].detail = d
        /\ row.detail = d => row.detailState = rows[e].detailState
        /\ pc[v] \in Searching => \A h \in Signed(d) : row.groupId = h <=> rows[e].groupId = h
    BY <1>0, <1>2 DEF Following, Mirrors, TypeInv, CoreTypeOK, Context, Assigning
  <2>2. rows'[e] # None /\ RowMove(e) /\ rows'[e] \in Row
    BY <1>0, <2>1, CalmFacts, RowsLast DEF CalmStep, TypeInv, CoreTypeOK
  <2>3. pc'[v] \in Searching => pc[v] \in Searching
    BY <1>0, <2>1 DEF LabelStep, Assigning
  <2>4. \/ rows'[e].detail = rows[e].detail /\ rows'[e].detailState = rows[e].detailState
        \/ row.detail # d /\ rows'[e].detail # d
    <3>1. CASE rows'[e] = rows[e] \/ Detached(e) \/ \E w \in Workers : Joining(w, e)
      BY <2>1, <3>1 DEF Detached, Joining, Row
    <3>2. ASSUME NEW w \in Workers, Fetched(w, e)
          PROVE  row.detail # d /\ rows'[e].detail # d
      <4>1. /\ w # v /\ pc'[w] \in Assigning /\ job'[w].exec = e /\ job'[w].row = rows'[e]
        BY <2>1, <3>2 DEF Fetched, Assigning, Labels
      <4>2. SameRow(v, w)' /\ SameRow(w, v)'
        BY <2>1, <4>1 DEF SameRow, HandlesRow, Assigning
      <4>3. ~ HandlesSignature(v, d)' /\ ~ HandlesSignature(w, d)'
        BY <4>1, <4>2, AloneWith
      <4> QED
        BY <2>1, <4>1, <4>3 DEF HandlesSignature
    <3> QED
      BY <2>1, <2>2, <3>1, <3>2 DEF RowMove, Inserted
  <2>5. ASSUME pc'[v] \in Searching, NEW h \in Signed(d)'
        PROVE  row.groupId = h <=> rows'[e].groupId = h
    <3>1. CASE h \notin Signed(d)
      <4>1. rows[e].groupId # h /\ row.groupId # h
        BY <2>1, <3>1, BornBare
      <4>2. rows'[e].groupId # h
        BY <2>1, <2>2, <3>1, <4>1, JoinsBy
      <4> QED
        BY <4>1, <4>2
    <3>2. CASE h \in Signed(d) /\ rows[e].groupId = h
      <4>1. row.groupId = h /\ HandlesSignature(v, d)
        BY <2>1, <2>3, <2>5, <3>2, HandsOn
      <4>2. ASSUME rows'[e].groupId # h PROVE FALSE
        <5>1. PICK w \in Workers : Joining(w, e) /\ HandlesSignature(w, d)
          BY <2>1, <3>2, <4>2, LeavesBy
        <5>2. pc'[v] \in {"count", "countPrevious"}
          BY <4>1, <5>1, AloneWith DEF Joining
        <5> QED
          BY <2>5, <5>2 DEF Searching
      <4> QED
        BY <4>1, <4>2
    <3>3. CASE h \in Signed(d) /\ rows[e].groupId # h
      <4>1. row.groupId # h
        BY <2>1, <2>3, <2>5, <3>3
      <4>2. ASSUME rows'[e].groupId = h PROVE FALSE
        <5>1. PICK w \in Workers : Joining(w, e) /\ HandlesSignature(w, d)
          BY <2>1, <2>2, <3>3, <4>2, JoinsBy
        <5>2. SameRow(w, v)
          BY <2>1, <5>1 DEF SameRow, HandlesRow, Joining, Assigning
        <5>3. pc'[v] \in {"count", "countPrevious"}
          BY <5>1, <5>2, AloneWith DEF Joining
        <5> QED
          BY <2>5, <5>3 DEF Searching
      <4> QED
        BY <4>1, <4>2
    <3> QED
      BY <3>1, <3>2, <3>3
  <2> QED
    BY <2>1, <2>2, <2>4, <2>5 DEF Mirrors
<1> QED
  BY <1>0, <1>1, <1>2 DEF CallStep

\* What a group counts moves with the call that has its signature in hand.
LEMMA MembersStill ==
  ASSUME NEW d, CalmStep(d), NEW h \in Signed(d), h \in Signed(d)',
         \A w \in Workers, e \in Executions : Joining(w, e) => ~ HandlesSignature(w, d)
  PROVE  Members(h)' = Members(h)
<1>1. ASSUME NEW e \in Executions, rows[e] # None, rows[e].groupId = h
      PROVE  rows'[e] # None /\ rows'[e].groupId = h
  BY <1>1, LeavesBy, RowsLast, CalmFacts DEF CalmStep
<1>2. ASSUME NEW e \in Executions, rows'[e] # None, rows'[e].groupId = h
      PROVE  rows[e] # None /\ rows[e].groupId = h
  BY <1>2, JoinsBy
<1> QED
  BY <1>1, <1>2 DEF Members

LEMMA BearingsOfNext ==
  ASSUME NEW d, CalmStep(d), NEW v \in Workers
  PROVE  Bearings(v, d)'
<1> DEFINE e == job[v].exec
           row == job[v].row
           g == job[v].gid
<1>0. /\ TypeInv /\ TypeInv' /\ CallStep(v) /\ LabelStep(v)
      /\ Mirrors(v, d) /\ Bearings(v, d)
      /\ pc[v] \in Assigning => Onward(v)
  BY CalmFacts DEF CalmStep
<1>1. CASE pc'[v] \notin Assigning \/ Entering(v)
  BY <1>1 DEF Bearings, Entering, Joined, Grouping, Assigning, Labels
<1>2. CASE pc'[v] \in Assigning /\ Following(v)
  <2>1. /\ pc[v] \in Assigning /\ job'[v].exec = e /\ job'[v].row = row /\ Onward(v)
        /\ e \in Executions /\ rows[e] # None
    BY <1>0, <1>2 DEF Following, Mirrors, TypeInv, Context, Assigning
  <2>2. /\ row.detail = d => HandlesSignature(v, d)
        /\ row.groupId \in Signed(d) => HandlesSignature(v, d)
    BY <2>1, HandsOn
  <2>3. pc[v] \in Grouping /\ pc'[v] \in Grouping => job'[v].gid = g
    BY <1>2, <2>1, KeepsOn
  <2>4. ASSUME pc'[v] = "create", row.detail = d PROVE Signed(d)' = {}
    <3>1. Signed(d) = {}
      BY <1>0, <2>1, <2>4 DEF Onward, Bearings, Ended, Staying, Joining, AfterAttach
    <3>2. ASSUME NEW h \in Signed(d)' PROVE FALSE
      <4>1. PICK w \in Workers : Creating(w, h) /\ job[w].row.detail = d
        BY <3>1, BornBare
      <4>2. HandlesSignature(w, d)
        BY <4>1, HandsOn DEF Creating, Assigning, Labels
      <4>3. w = v
        BY <2>2, <2>4, <4>2, AloneWith
      <4> QED
        BY <2>4, <4>1, <4>3 DEF Creating
    <3> QED
      BY <3>2
  <2>5. pc'[v] = "reread" => row.detail # d
    BY <1>0, <2>1 DEF Onward, Bearings, Ended, Staying, Joining, AfterAttach
  <2>6. ASSUME pc'[v] \in Grouping, row.detail = d
        PROVE  job'[v].gid \in Signed(d)' /\ (job'[v].seen.notified => groups'[job'[v].gid].notified)
    <3>1. SameTarget(v) \/ NewTarget(v)
      BY <1>0, <1>1, <2>6 DEF CallStep, Entering, Grouping
    <3>2. CASE SameTarget(v)
      <4>1. /\ pc[v] \in Grouping /\ job'[v].gid = g /\ g \in Signed(d)
            /\ job[v].seen.notified => groups[g].notified
        BY <1>0, <2>6, <3>2 DEF SameTarget, Bearings
      <4>2. g \in Signed(d)'
        <5> SUFFICES ASSUME g \notin Signed(d)' PROVE FALSE
          OBVIOUS
        <5>1. PICK w \in Workers : /\ pc[w] = "applyPrevious" /\ job[w].row.groupId = g
                                   /\ HandlesSignature(w, d)
          BY <4>1, DiesEmpty
        <5>2. w = v
          BY <2>2, <2>6, <5>1, AloneWith
        <5> QED
          BY <1>0, <5>1, <5>2 DEF Bearings
      <4>3. groups[g].notified => groups'[g].notified
        <5>1. FaceStep(g) /\ groups'[g] # None /\ groups[g] # None
          BY <4>1, <4>2, CalmFacts DEF Signed, Live
        <5>2. g # nextGroup
          BY <4>1, <5>1, CalmFacts DEF FreshIds, Signed, Live, GroupIds
        <5> QED
          BY <5>1, <5>2 DEF FaceStep
      <4> QED
        BY <3>2, <4>1, <4>2, <4>3 DEF SameTarget, SeenKept
    <3>3. CASE NewTarget(v)
      BY <2>6, <3>3 DEF NewTarget, Signed, Live
    <3> QED
      BY <3>1, <3>2, <3>3
  <2>7. ASSUME pc'[v] \in Joined, row.detail = d PROVE rows'[e].groupId = job'[v].gid
    <3>1. pc[v] \in Grouping /\ job'[v].gid = g
      BY <1>0, <2>1, <2>3, <2>7
      DEF LabelStep, Joined, Staying, Joining, Grouping, Assigning, Labels
    <3>2. g \in Signed(d) /\ HandlesSignature(v, d)
      BY <1>0, <2>2, <2>7, <3>1 DEF Bearings
    <3>3. CASE pc[v] \in Joined
      <4>1. rows[e].groupId = g
        BY <1>0, <2>7, <3>3 DEF Bearings
      <4>2. ASSUME rows'[e].groupId # g PROVE FALSE
        <5>1. PICK w \in Workers : Joining(w, e) /\ HandlesSignature(w, d)
          BY <2>1, <3>2, <4>1, <4>2, LeavesBy
        <5> QED
          BY <3>2, <3>3, <5>1, AloneWith DEF Joining, Joined
      <4> QED
        BY <3>1, <4>2
    <3>4. CASE Staying(v)
      BY <1>0, <2>1, <3>1, <3>2, <3>4 DEF Staying, Mirrors, Searching
    <3>5. CASE Joining(v, e)
      <4>1. rows[e] \in Row
        BY <1>0, <2>1 DEF TypeInv, CoreTypeOK
      <4> QED
        BY <3>1, <3>5, <4>1 DEF Joining, Row
    <3> QED
      BY <1>0, <2>7, <3>3, <3>4, <3>5 DEF LabelStep
  <2>8. ASSUME pc'[v] \in {"countPrevious", "applyPrevious"} PROVE row.groupId # job'[v].gid
    <3>1. \/ pc[v] \in {"countPrevious", "applyPrevious"}
          \/ pc[v] = "grouped" /\ IsNewOccurrence(v)
      BY <2>1, <2>8 DEF Onward, Ended, Staying, Joining
    <3>2. job'[v].gid = g
      BY <2>3, <2>8, <3>1 DEF Grouping, Assigning, Labels
    <3> QED
      BY <1>0, <3>1, <3>2 DEF Bearings, IsNewOccurrence
  <2>9. ASSUME pc'[v] = "applyPrevious", NEW h \in Signed(d)', row.groupId = h
        PROVE  job'[v].total = Cardinality(Members(h)')
    <3>1. h \in Signed(d) /\ HandlesSignature(v, d)
      BY <2>1, <2>2, <2>9, BornBare
    <3>2. CASE pc[v] = "applyPrevious" /\ job'[v] = job[v]
      <4>1. \A w \in Workers, x \in Executions : Joining(w, x) => ~ HandlesSignature(w, d)
        BY <3>1, <3>2, AloneWith DEF Joining
      <4>2. Members(h)' = Members(h)
        BY <3>1, <4>1, MembersStill
      <4> QED
        BY <1>0, <2>9, <3>1, <3>2, <4>2 DEF Bearings
    <3>3. CASE UNCHANGED rows /\ job'[v].total = Cardinality(Members(row.groupId))
      BY <2>9, <3>3 DEF Members
    <3> QED
      BY <2>1, <2>9, <3>2, <3>3 DEF Onward, Ended, Staying, Joining, AfterAttach
  <2>10. ASSUME pc'[v] = "apply", row.detail = d, NEW h, job'[v].gid = h
         PROVE  job'[v].total = Cardinality(Members(h)')
    <3>1. pc'[v] \in Grouping /\ HandlesSignature(v, d)
      BY <2>2, <2>10 DEF Grouping, Assigning, Labels
    <3>2. CASE pc[v] = "apply" /\ job'[v] = job[v]
      <4>1. \A w \in Workers, x \in Executions : Joining(w, x) => ~ HandlesSignature(w, d)
        BY <3>1, <3>2, AloneWith DEF Joining
      <4>2. h = g /\ h \in Signed(d) /\ h \in Signed(d)'
        BY <1>0, <2>6, <2>10, <3>1, <3>2 DEF Bearings
      <4>3. Members(h)' = Members(h)
        BY <4>1, <4>2, MembersStill
      <4> QED
        BY <1>0, <2>10, <3>2, <4>2, <4>3 DEF Bearings
    <3>3. CASE pc[v] = "count" /\ UNCHANGED rows /\ job'[v].total = Cardinality(Members(g))
      <4>1. h = g
        BY <2>3, <2>10, <3>1, <3>3 DEF Grouping, Assigning, Labels
      <4> QED
        BY <3>3, <4>1 DEF Members
    <3> QED
      BY <2>1, <2>10, <3>2, <3>3 DEF Onward, Ended, Staying, Joining, AfterAttach
  <2> QED
    BY <2>1, <2>4, <2>5, <2>6, <2>7, <2>8, <2>9, <2>10 DEF Bearings
<1> QED
  BY <1>0, <1>1, <1>2 DEF CallStep

---------------------------------------------------------------------------
(* The tables are true and what is settled is told, signature by signature *)

\* A row of detail d is in a group signed d, or a call is placing it.
Placed(d) ==
    \A e \in Executions : rows[e] # None /\ rows[e].detail = d =>
        rows[e].groupId \in Signed(d) \/ \E w \in Workers : Moving(w, e)

\* A group counts its rows, or a call is counting them again.
Tallied(d) ==
    \A h \in Signed(d) : \/ groups[h].occurrences = Cardinality(Members(h))
                         \/ \E w \in Workers : Recounting(w, h)

\* A group holds a row, or a call is filling or deleting it.
Peopled(d) ==
    \A h \in Signed(d) : Members(h) # {} \/ \E w \in Workers : Filling(w, h)

Told(h) == opened[h] > 0 \/ regressed[h] > 0

\* A settled row is in a group somebody was told about, or a call is at it.
Heard(d) ==
    \A e \in Executions : Settled(e) /\ rows[e].detail = d =>
        \/ rows[e].groupId \in Signed(d) /\ Told(rows[e].groupId)
        \/ \E w \in Workers : Telling(w, e)

\* A marked group was announced, or is about to be.
Advertised ==
    \A g \in Live : groups[g].notified =>
        opened[g] > 0 \/ \E w \in Workers : pc[w] = "emitOpened" /\ job[w].gid = g

\* A row that no call moves stays in its group, and its group stays.
LEMMA StaysIn ==
  ASSUME NEW d, CalmStep(d), NEW e \in Executions, rows[e] # None,
         rows[e].groupId \in Signed(d), \A w \in Workers : ~ Joining(w, e)
  PROVE  rows'[e].groupId = rows[e].groupId /\ rows[e].groupId \in Signed(d)'
<1>1. e \in Members(rows[e].groupId)
  BY DEF Members
<1> QED
  BY <1>1, DiesEmpty, LeavesBy

\* Where a row of detail d comes from.
LEMMA ComesFrom ==
  ASSUME NEW d, CalmStep(d), NEW e \in Executions, rows'[e] # None, rows'[e].detail = d
  PROVE  \/ \E w \in Workers : Moving(w, e)' /\ Telling(w, e)'
         \/ /\ rows'[e].groupId \in Signed(d)'
            /\ \E w \in Workers : Joining(w, e) /\ Telling(w, e)'
         \/ /\ rows[e] # None /\ rows[e].detail = d /\ rows[e] \in Row
            /\ rows'[e].detailState = rows[e].detailState
            /\ \A w \in Workers : ~ Joining(w, e)
<1>1. RowMove(e) /\ (rows[e] # None => rows[e] \in Row)
  BY CalmFacts DEF TypeInv, CoreTypeOK
<1>2. ASSUME NEW w \in Workers, Inserted(w, e) \/ Fetched(w, e)
      PROVE  Moving(w, e)' /\ Telling(w, e)'
  BY <1>2 DEF Inserted, Fetched, Moving, Telling, Searching, Assigning, Labels
<1>3. ASSUME NEW w \in Workers, Joining(w, e)
      PROVE  rows'[e].groupId \in Signed(d)' /\ Telling(w, e)'
  <2>1. pc[w] \in Assigning /\ pc[w] \in Grouping /\ job[w].exec = e /\ UNCHANGED groups
    BY <1>3 DEF Joining, Grouping, Assigning, Labels
  <2>2. rows'[e].detail = rows[e].detail /\ rows'[e].groupId = job[w].gid
    BY <1>1, <1>3 DEF Joining, Row
  <2>3. job[w].row.detail = d
    BY <2>1, <2>2 DEF CalmStep, Mirrors
  <2>4. job[w].gid \in Signed(d)
    BY <2>1, <2>3 DEF CalmStep, Bearings
  <2>5. rows'[e].groupId \in Signed(d)'
    BY <2>1, <2>2, <2>4 DEF Signed, Live
  <2> QED
    BY <1>3, <2>1, <2>5 DEF Joining, Telling, Assigning, Labels
<1>4. CASE \A w \in Workers : ~ (Inserted(w, e) \/ Fetched(w, e) \/ Joining(w, e))
  <2>1. rows'[e] = rows[e] \/ Detached(e)
    BY <1>1, <1>4 DEF RowMove
  <2> QED
    BY <1>1, <1>4, <2>1 DEF Detached, Row
<1> QED
  BY <1>2, <1>3, <1>4

\* A call that leaves the search for a group leaves its row in one.
LEMMA FindsPlace ==
  ASSUME NEW d, CalmStep(d), NEW w \in Workers, NEW e \in Executions, Moving(w, e),
         rows[e].detail = d, ~ Joining(w, e)
  PROVE  Moving(w, e)' \/ rows[e].groupId \in Signed(d)
<1>1. /\ pc[w] \in Assigning /\ pc[w] \in Searching /\ job[w].exec = e
      /\ Onward(w) /\ Mirrors(w, d) /\ Bearings(w, d)
  BY CalmFacts DEF CalmStep, Moving, Searching, Assigning, Labels
<1>2. job[w].row.detail = d /\ rows[e] # None
  BY <1>1 DEF Mirrors
<1>3. CASE pc'[w] \in Searching
  BY <1>1, <1>3, KeepsOn DEF Moving, Searching, Assigning, Labels
<1>4. CASE pc'[w] \notin Searching
  <2>1. pc[w] \notin {"reread"}
    BY <1>1, <1>2 DEF Bearings
  <2>2. Staying(w) \/ (pc[w] = "grouped" /\ (rows[e] = None \/ job[w].gid \notin Live))
    BY <1>1, <1>4, <2>1 DEF Onward, Searching
  <2>3. job[w].gid \in Signed(d) /\ pc[w] = "grouped"
    BY <1>1, <1>2, <2>2 DEF Bearings, Staying, Grouping, Assigning, Labels
  <2>4. Staying(w)
    BY <1>2, <2>2, <2>3 DEF Signed
  <2> QED
    BY <1>1, <2>3, <2>4 DEF Staying, Mirrors
<1> QED
  BY <1>3, <1>4

LEMMA PlacedOfNext ==
  ASSUME NEW d, CalmStep(d), Placed(d)
  PROVE  Placed(d)'
<1> SUFFICES ASSUME NEW e \in Executions, rows'[e] # None, rows'[e].detail = d
             PROVE  rows'[e].groupId \in Signed(d)' \/ \E w \in Workers : Moving(w, e)'
  BY DEF Placed
<1>1. CASE /\ rows[e] # None /\ rows[e].detail = d /\ rows[e] \in Row
           /\ \A w \in Workers : ~ Joining(w, e)
  BY <1>1, FindsPlace, StaysIn DEF Placed
<1> QED
  BY <1>1, ComesFrom

\* The call that moves a row counts the group it left and the one it joined.
LEMMA MovesCounted ==
  ASSUME NEW d, CalmStep(d), NEW h \in Signed(d), h \in Signed(d)', Members(h)' # Members(h)
  PROVE  \E w \in Workers : Recounting(w, h)'
<1>1. ASSUME NEW e \in Executions, rows[e] # None, rows[e].groupId = h, rows'[e].groupId # h
      PROVE  \E w \in Workers : Recounting(w, h)'
  BY <1>1, LeavesBy DEF Recounting
<1>2. ASSUME NEW e \in Executions, rows'[e] # None, rows'[e].groupId = h,
             ~ (rows[e] # None /\ rows[e].groupId = h)
      PROVE  \E w \in Workers : Recounting(w, h)'
  <2>1. PICK w \in Workers : Joining(w, e) /\ job[w].gid = h
    BY <1>2, JoinsBy
  <2> QED
    BY <2>1 DEF Joining, Recounting
<1>3. \A e \in Executions : rows[e] # None => rows'[e] # None
  BY CalmFacts, RowsLast DEF CalmStep
<1> QED
  BY <1>1, <1>2, <1>3 DEF Members

\* A recount ends with the count stored.
LEMMA EndsCounted ==
  ASSUME NEW d, CalmStep(d), NEW h \in Signed(d), h \in Signed(d)',
         NEW w \in Workers, Recounting(w, h), ~ Recounting(w, h)'
  PROVE  groups'[h].occurrences = Cardinality(Members(h))
<1>1. /\ pc[w] \in {"countPrevious", "applyPrevious", "count", "apply"}
      /\ pc[w] \in Assigning /\ pc[w] \in Grouping
      /\ Onward(w) /\ h \in Live /\ h \in Live'
  BY CalmFacts DEF Recounting, Leaving, Grouping, Assigning, Labels, Signed
<1>2. ~ (pc'[w] = pc[w] /\ job'[w] = job[w])
  BY DEF Recounting, Leaving
<1>3. pc'[w] \in Grouping =>
        job'[w].gid = job[w].gid /\ job'[w].row = job[w].row
  BY <1>1, KeepsOn DEF Grouping
<1>4. CASE pc[w] = "applyPrevious"
  <2>1. pc'[w] # "idle" \/ job[w].row.groupId \notin Live
    BY <1>1, <1>2, <1>4 DEF Onward, Staying, Joining
  <2>2. pc'[w] # "idle"
    <3> SUFFICES ASSUME pc'[w] = "idle" PROVE FALSE
      OBVIOUS
    <3>1. job[w].gid = h
      BY <1>1, <2>1 DEF Recounting, Leaving
    <3>2. HandlesSignature(w, d)
      BY <1>1, <3>1, HandsOn
    <3>3. ~ CutShort(d)
      BY CalmFacts
    <3> QED
      BY <1>4, <3>2, <3>3 DEF CutShort
  <2>3. /\ pc'[w] = "count"
        /\ \/ job[w].total = 0 /\ job[w].row.groupId \notin Live'
           \/ job[w].total > 0 /\ groups'[job[w].row.groupId].occurrences = job[w].total
    BY <1>1, <1>2, <1>4, <2>2 DEF Onward, Ended, Staying, Joining
  <2>4. job[w].gid # h
    BY <1>3, <2>3 DEF Recounting, Grouping, Assigning, Labels
  <2>5. job[w].row.groupId = h /\ Storing(w, h)
    BY <1>4, <2>4 DEF Recounting, Leaving, Storing
  <2> QED
    BY <1>1, <2>3, <2>5, StoresTruth
<1>5. CASE pc[w] = "apply"
  <2>1. job[w].gid = h /\ Storing(w, h)
    BY <1>5 DEF Recounting, Leaving, Storing
  <2>2. \/ job[w].total = 0 /\ h \notin Live'
        \/ job[w].total > 0 /\ groups'[h].occurrences = job[w].total
    BY <1>1, <1>2, <1>5, <2>1 DEF Onward, Ended, Staying, Joining
  <2> QED
    BY <1>1, <2>1, <2>2, StoresTruth
<1>6. CASE pc[w] \in {"countPrevious", "count"}
  <2>1. pc'[w] = IF pc[w] = "count" THEN "apply" ELSE "applyPrevious"
    BY <1>1, <1>2, <1>6 DEF Onward, Ended, Staying, Joining
  <2> QED
    BY <1>3, <1>6, <2>1 DEF Recounting, Leaving, Grouping, Assigning, Labels
<1> QED
  BY <1>1, <1>4, <1>5, <1>6

LEMMA TalliedOfNext ==
  ASSUME NEW d, CalmStep(d), Tallied(d)
  PROVE  Tallied(d)'
<1> SUFFICES ASSUME NEW h \in Signed(d)', \A w \in Workers : ~ Recounting(w, h)'
             PROVE  groups'[h].occurrences = Cardinality(Members(h)')
  BY DEF Tallied
<1>1. CASE h \notin Signed(d)
  <2>1. PICK w \in Workers : Creating(w, h)
    BY <1>1, BornBare
  <2>2. \A e \in Executions : rows[e] # None => rows[e].groupId # h
    BY <1>1, BornBare
  <2>3. Members(h)' = {}
    BY <2>1, <2>2 DEF Members, Creating
  <2> QED
    BY <2>1, <2>3, FS_EmptySet DEF Creating, NewGroup
<1>2. CASE h \in Signed(d)
  <2>1. Members(h)' = Members(h)
    BY <1>2, MovesCounted
  <2>2. TallyStep(h) /\ groups[h] # None /\ groups'[h] # None
    BY <1>2, CalmFacts DEF Signed, Live
  <2>3. CASE groups'[h].occurrences = groups[h].occurrences
    BY <1>2, <2>1, <2>3, EndsCounted DEF Tallied
  <2>4. ASSUME NEW w \in Workers, Storing(w, h), groups'[h].occurrences = job[w].total
        PROVE  groups'[h].occurrences = Cardinality(Members(h))
    BY <1>2, <2>4, StoresTruth
  <2> QED
    BY <2>1, <2>2, <2>3, <2>4 DEF TallyStep, Creating
<1> QED
  BY <1>1, <1>2

\* A call that is filling or emptying a group leaves it with a row, or deleted.
LEMMA EndsPeopled ==
  ASSUME NEW d, CalmStep(d), NEW h \in Signed(d), h \in Signed(d)',
         NEW w \in Workers, Filling(w, h), ~ Filling(w, h)'
  PROVE  Members(h) # {} \/ Members(h)' # {}
<1>1. /\ pc[w] \in {"grouped", "countPrevious", "applyPrevious"}
      /\ pc[w] \in Assigning /\ pc[w] \in Grouping
      /\ Onward(w) /\ h \in Live /\ h \in Live'
      /\ Mirrors(w, d) /\ Bearings(w, d)
      /\ job[w].exec \in Executions
  BY CalmFacts
  DEF CalmStep, TypeInv, Context, Filling, Leaving, Grouping, Assigning, Labels, Signed
<1>2. ~ (pc'[w] = pc[w] /\ job'[w] = job[w])
  BY DEF Filling, Leaving
<1>3. CASE pc[w] = "grouped"
  <2>1. job[w].gid = h /\ rows[job[w].exec] # None
    BY <1>1, <1>3 DEF Filling, Leaving, Mirrors
  <2>2. CASE Staying(w)
    <3>1. rows[job[w].exec].groupId = h
      BY <1>1, <1>3, <2>1, <2>2 DEF Staying, Mirrors, Searching
    <3> QED
      BY <1>1, <2>1, <3>1 DEF Members
  <2>3. CASE Joining(w, job[w].exec)
    <3>1. rows'[job[w].exec] # None /\ rows[job[w].exec] \in Row
      BY <1>1, <2>1, RowsLast, CalmFacts DEF CalmStep, TypeInv, CoreTypeOK
    <3>2. rows'[job[w].exec].groupId = h
      BY <2>1, <2>3, <3>1 DEF Joining, Row
    <3> QED
      BY <1>1, <3>1, <3>2 DEF Members
  <2> QED
    BY <1>1, <1>2, <1>3, <2>1, <2>2, <2>3 DEF Onward
<1>4. CASE pc[w] = "applyPrevious"
  <2>1. job[w].row.groupId = h /\ Storing(w, h)
    BY <1>4 DEF Filling, Leaving, Storing
  <2>2. job[w].total > 0
    BY <1>1, <1>2, <1>4, <2>1 DEF Onward, Ended, Staying, Joining
  <2>3. job[w].total = Cardinality(Members(h))
    BY <2>1, StoresTruth
  <2> QED
    BY <2>2, <2>3, FS_EmptySet
<1>5. CASE pc[w] = "countPrevious"
  <2>1. pc'[w] = "applyPrevious"
    BY <1>1, <1>2, <1>5 DEF Onward, Ended, Staying, Joining
  <2>2. job'[w].row = job[w].row
    BY <1>1, <2>1, KeepsOn DEF Assigning, Labels
  <2> QED
    BY <1>5, <2>1, <2>2 DEF Filling, Leaving
<1> QED
  BY <1>1, <1>3, <1>4, <1>5

LEMMA PeopledOfNext ==
  ASSUME NEW d, CalmStep(d), Peopled(d)
  PROVE  Peopled(d)'
<1> SUFFICES ASSUME NEW h \in Signed(d)', \A w \in Workers : ~ Filling(w, h)'
             PROVE  Members(h)' # {}
  BY DEF Peopled
<1>1. CASE h \notin Signed(d)
  <2>1. PICK w \in Workers : Creating(w, h)
    BY <1>1, BornBare
  <2> QED
    BY <2>1 DEF Creating, Filling
<1>2. CASE h \in Signed(d)
  <2>1. ASSUME NEW e \in Members(h) PROVE e \in Members(h)'
    <3>1. rows'[e] # None
      BY CalmFacts, RowsLast DEF CalmStep, Members
    <3>2. rows'[e].groupId = h
      BY <1>2, <2>1, LeavesBy DEF Members, Filling
    <3> QED
      BY <3>1, <3>2 DEF Members
  <2> QED
    BY <1>2, <2>1, EndsPeopled DEF Peopled
<1> QED
  BY <1>1, <1>2

\* No announcement and no alert is taken back.
LEMMA ToldStays ==
  ASSUME TypeInv, Next, NEW h \in GroupIds
  PROVE  /\ opened[h] > 0 => opened'[h] > 0
         /\ Told(h) => Told(h)'
<1>0. opened \in [GroupIds -> Nat] /\ regressed \in [GroupIds -> Nat]
  BY DEF TypeInv, CoreTypeOK
<1>1. opened[h] > 0 => opened'[h] > 0
  BY <1>0, OpenedOfNext
<1>2. regressed[h] > 0 => regressed'[h] > 0
  <2>1. ASSUME NEW w \in Workers, EmitRegressed(w) PROVE regressed[h] > 0 => regressed'[h] > 0
    BY <1>0, <2>1 DEF EmitRegressed
  <2> QED
    BY <2>1, RegressedOfNext
<1> QED
  BY <1>1, <1>2 DEF Told

LEMMA AdvertisedOfNext ==
  ASSUME TypeInv, FreshIds, Next, ~ Restart, Advertised
  PROVE  Advertised'
<1> SUFFICES ASSUME NEW g \in Live', groups'[g].notified,
                    ~ \E w \in Workers : pc'[w] = "emitOpened" /\ job'[w].gid = g
             PROVE  opened'[g] > 0
  BY DEF Advertised
<1>1. g \in GroupIds /\ FaceStep(g) /\ groups'[g] # None
  BY FacesOfNext DEF Live
<1>2. ASSUME NEW w \in Workers, MarkNotified(w), job[w].gid = g, g \in Live PROVE FALSE
  <2>1. Goto(w, "emitOpened") /\ UNCHANGED job
    BY <1>2 DEF MarkNotified
  <2>2. pc'[w] = "emitOpened"
    BY <2>1, GotoKeeps DEF TypeInv, Labels
  <2> QED
    BY <1>2, <2>1, <2>2
<1>3. g \in Live /\ groups[g].notified
  BY <1>1, <1>2 DEF FaceStep, Live
<1>4. ASSUME NEW w \in Workers, pc[w] = "emitOpened", job[w].gid = g
      PROVE  opened'[g] > 0
  <2>1. Onward(w) /\ opened[g] \in Nat
    BY <1>1, <1>4, OnwardOfNext DEF Assigning, Labels, TypeInv, CoreTypeOK
  <2>2. ~ (pc'[w] = pc[w] /\ job'[w] = job[w])
    BY <1>4
  <2> QED
    BY <1>4, <2>1, <2>2 DEF Onward, Ended, Staying, Joining
<1> QED
  BY <1>1, <1>3, <1>4, ToldStays DEF Advertised

\* A call that ends has its row's group told.
LEMMA EndsHeard ==
  ASSUME NEW d, CalmStep(d), Advertised, NEW w \in Workers, NEW e \in Executions,
         Telling(w, e), ~ Telling(w, e)', Settled(e), rows[e].detail = d,
         NEW g, job[w].gid = g
  PROVE  rows[e].groupId = g /\ g \in Signed(d) /\ Told(g)'
<1> DEFINE row == job[w].row
<1>1. /\ pc[w] \in Assigning /\ job[w].exec = e
      /\ Onward(w) /\ Mirrors(w, d) /\ Bearings(w, d)
      /\ TypeInv /\ Next
  BY CalmFacts DEF CalmStep, Telling
<1>2. row.detail = d /\ row.detailState # "pending" /\ rows[e] # None
  BY <1>1 DEF Mirrors, Settled
<1>3. HandlesSignature(w, d)
  BY <1>1, <1>2, HandsOn
<1>4. pc'[w] \notin Assigning
  BY <1>1, KeepsOn DEF Telling
<1>5. pc[w] \in Grouping => g \in Signed(d) /\ g \in Live
  BY <1>1, <1>2 DEF Bearings, Signed
<1>6. ~ (pc[w] = "applyPrevious" /\ pc'[w] = "idle")
  BY <1>3, CalmFacts DEF CutShort
<1>7. ~ (pc[w] = "reread" \/ Provisional(row))
  BY <1>1, <1>2 DEF Bearings, Provisional
<1>8. \/ pc[w] \in {"alert", "journal"} /\ job[w].seen.notified
      \/ pc[w] = "emitRegressed" /\ regressed'[g] = regressed[g] + 1
      \/ pc[w] = "emitOpened" /\ opened'[g] = opened[g] + 1
  BY <1>1, <1>2, <1>4, <1>5, <1>6, <1>7
  DEF Onward, Ended, Staying, Joining, AfterAttach, Grouping, Assigning, Labels
<1>9. pc[w] \in Joined /\ pc[w] \in Grouping
  BY <1>8 DEF Joined, Grouping, Assigning, Labels
<1>10. rows[e].groupId = g /\ g \in Signed(d) /\ g \in GroupIds
  BY <1>1, <1>2, <1>5, <1>9 DEF Bearings, Live
<1>11. Told(g)'
  <2>1. opened[g] \in Nat /\ regressed[g] \in Nat
    BY <1>1, <1>10 DEF TypeInv, CoreTypeOK
  <2>2. CASE pc[w] \in {"alert", "journal"} /\ job[w].seen.notified
    <3>1. groups[g].notified
      BY <1>1, <1>2, <1>9, <2>2 DEF Bearings
    <3>2. ASSUME NEW v \in Workers, pc[v] = "emitOpened", job[v].gid = g PROVE FALSE
      <4>1. pc[v] \in Assigning /\ pc[v] \in Grouping
        BY <3>2 DEF Grouping, Assigning, Labels
      <4>2. HandlesSignature(v, d)
        BY <1>10, <3>2, <4>1, HandsOn
      <4>3. v = w
        BY <1>3, <4>2, AloneWith
      <4> QED
        BY <2>2, <3>2, <4>3
    <3>3. opened[g] > 0
      BY <1>5, <1>9, <3>1, <3>2 DEF Advertised
    <3> QED
      BY <1>1, <1>10, <3>3, ToldStays DEF Told
  <2> QED
    BY <1>8, <2>1, <2>2 DEF Told
<1> QED
  BY <1>10, <1>11

LEMMA HeardOfNext ==
  ASSUME NEW d, CalmStep(d), Heard(d), Advertised
  PROVE  Heard(d)'
<1> SUFFICES ASSUME NEW e \in Executions, Settled(e)', rows'[e].detail = d,
                    \A w \in Workers : ~ Telling(w, e)'
             PROVE  /\ rows'[e].groupId \in Signed(d)'
                    /\ opened'[rows'[e].groupId] > 0 \/ regressed'[rows'[e].groupId] > 0
  BY DEF Heard, Told
<1>1. /\ rows[e] # None /\ rows[e].detail = d
      /\ rows'[e].detailState = rows[e].detailState
      /\ \A w \in Workers : ~ Joining(w, e)
  BY ComesFrom DEF Settled
<1>2. Settled(e)
  BY <1>1 DEF Settled
<1>3. PICK g \in Signed(d) : rows[e].groupId = g /\ Told(g)'
  <2>1. ASSUME NEW g \in Signed(d), rows[e].groupId = g, Told(g) PROVE Told(g)'
    BY <2>1, ToldStays, CalmFacts DEF CalmStep, Signed, Live
  <2> QED
    BY <1>1, <1>2, <2>1, EndsHeard DEF Heard
<1> QED
  BY <1>1, <1>3, StaysIn DEF Told

Sound(d) ==
    /\ \A w \in Workers : Mirrors(w, d) /\ Bearings(w, d)
    /\ Placed(d) /\ Tallied(d) /\ Peopled(d) /\ Heard(d)

SoundInv ==
    /\ AnnounceInv
    /\ budget.restarts <= MaxRestarts /\ budget.prunes <= MaxPrunes
    /\ Undisturbed => /\ prune.at = "idle"
                      /\ Advertised
                      /\ \A d \in Details : Apart(d) => Sound(d)

LEMMA InitSound == Init => SoundInv
<1> SUFFICES ASSUME Init PROVE SoundInv
  OBVIOUS
<1>1. AnnounceInv
  BY InitAnnounce
<1>2. /\ budget.restarts <= MaxRestarts /\ budget.prunes <= MaxPrunes
      /\ prune.at = "idle" /\ Live = {}
      /\ \A e \in Executions : rows[e] = None
      /\ \A w \in Workers : pc[w] = "idle"
  BY ConstantsAssumption DEF Init, NoPrune, Live
<1>3. \A w \in Workers : pc[w] \notin Assigning /\ pc[w] \notin Grouping /\ pc[w] \notin Joined
  BY <1>2 DEF Joined, Grouping, Assigning
<1>4. ASSUME NEW d PROVE Sound(d)
  <2>1. \A w \in Workers : Mirrors(w, d) /\ Bearings(w, d)
    BY <1>2, <1>3 DEF Mirrors, Bearings
  <2> QED
    BY <1>2, <2>1 DEF Sound, Placed, Tallied, Peopled, Heard, Settled, Signed
<1> QED
  BY <1>1, <1>2, <1>4 DEF SoundInv, Advertised

\* Without a restart or a run of the prune so far, there was none before.
LEMMA CalmOfNext ==
  ASSUME TypeInv, Next, budget.restarts <= MaxRestarts, budget.prunes <= MaxPrunes,
         Undisturbed => prune.at = "idle"
  PROVE  /\ budget'.restarts <= MaxRestarts /\ budget'.prunes <= MaxPrunes
         /\ Undisturbed' => Undisturbed /\ prune'.at = "idle" /\ ~ Restart /\ ~ Prune
<1>1. /\ budget \in [actions : Nat, prunes : Nat, restarts : Nat]
      /\ MaxRestarts \in Nat /\ MaxPrunes \in Nat
  BY ConstantsAssumption DEF TypeInv, CoreTypeOK
<1>2. CASE Restart
  BY <1>1, <1>2 DEF Restart, Undisturbed
<1>3. CASE PruneRows
  BY <1>1, <1>3 DEF PruneRows, Undisturbed
<1>4. CASE PruneList \/ PruneCount \/ PruneApply \/ PruneEnd
  <2>1. prune.at # "idle" /\ budget' = budget
    BY <1>4 DEF PruneList, PruneCount, PruneApply, PruneEnd, PruneStep
  <2> QED
    BY <2>1 DEF Undisturbed
<1>5. CASE ~ Restart /\ ~ Prune
  <2>1. /\ budget'.restarts = budget.restarts /\ budget'.prunes = budget.prunes
        /\ prune' = prune
    BY <1>1, <1>5
    DEF Next, Work, Continue, Outside, Ingest, Pick, Regroup, Insert, FetchDetail, Lookup,
        Create, Reread, SameGroup, Attach, CountPrevious, ApplyPrevious, Count, Apply,
        ReopenRegressed, JournalRegression, EmitRegressed, Recur, HoldBack, MarkNotified,
        EmitOpened, User, Resolve, Reopen, Ignore, Transition, Tick
  <2> QED
    BY <1>5, <2>1 DEF Undisturbed
<1> QED
  BY <1>2, <1>3, <1>4, <1>5 DEF Prune

LEMMA NextSound == SoundInv /\ [Next]_vars => SoundInv'
<1>1. ASSUME SoundInv, Next PROVE SoundInv'
  <2>1. AnnounceInv' /\ TypeInv /\ FreshIds /\ HistoryInv
    BY <1>1, NextAnnounce DEF SoundInv, AnnounceInv
  <2>2. /\ budget'.restarts <= MaxRestarts /\ budget'.prunes <= MaxPrunes
        /\ Undisturbed' => Undisturbed /\ prune'.at = "idle" /\ ~ Restart /\ ~ Prune
    BY <1>1, <2>1, CalmOfNext DEF SoundInv
  <2>3. ASSUME Undisturbed' PROVE Advertised'
    BY <1>1, <2>1, <2>2, <2>3, AdvertisedOfNext DEF SoundInv
  <2>4. ASSUME Undisturbed', NEW d \in Details, Apart(d)' PROVE Sound(d)'
    <3>1. d \in Details \ together'.signatures /\ Apart(d)
      BY <1>1, <2>1, <2>4, HistoryOfNext DEF Apart
    <3>2. Sound(d) /\ Advertised
      BY <1>1, <2>2, <2>4, <3>1 DEF SoundInv
    <3>3. CalmStep(d)
      BY <1>1, <2>2, <2>4, <3>1, <3>2 DEF CalmStep, SoundInv, Sound
    <3>4. \A w \in Workers : Mirrors(w, d)' /\ Bearings(w, d)'
      BY <3>3, MirrorsOfNext, BearingsOfNext
    <3>5. Placed(d)' /\ Tallied(d)' /\ Peopled(d)' /\ Heard(d)'
      BY <3>2, <3>3, PlacedOfNext, TalliedOfNext, PeopledOfNext, HeardOfNext DEF Sound
    <3> QED
      BY <3>4, <3>5 DEF Sound
  <2> QED
    BY <2>1, <2>2, <2>3, <2>4 DEF SoundInv
<1>2. ASSUME SoundInv, UNCHANGED vars PROVE SoundInv'
  <2>1. AnnounceInv'
    BY <1>2, NextAnnounce DEF SoundInv
  <2>2. UNCHANGED <<rows, groups, pc, job, prune, opened, regressed, budget, together>>
    BY <1>2 DEF vars, core, alerts
  <2>3. \A h : Members(h)' = Members(h)
    BY <2>2 DEF Members
  <2>4. \A d : Signed(d)' = Signed(d)
    BY <2>2 DEF Signed, Live
  <2>5. ASSUME NEW d, Sound(d) PROVE Sound(d)'
    <3>1. \A w \in Workers : Mirrors(w, d)' /\ Bearings(w, d)'
      BY <2>2, <2>3, <2>4, <2>5 DEF Sound, Mirrors, Bearings
    <3>2. Placed(d)' /\ Tallied(d)' /\ Peopled(d)' /\ Heard(d)'
      BY <2>2, <2>3, <2>4, <2>5
      DEF Sound, Placed, Tallied, Peopled, Heard, Told, Settled, Moving, Telling, Recounting,
          Filling, Leaving
    <3> QED
      BY <3>1, <3>2 DEF Sound
  <2>6. Advertised => Advertised'
    BY <2>2 DEF Advertised, Live
  <2> QED
    BY <1>2, <2>1, <2>2, <2>5, <2>6 DEF SoundInv, Undisturbed, Apart
<1> QED
  BY <1>1, <1>2

\* However many calls interleave, and whatever the users do meanwhile, the
\* tables of problems are true once nothing is in flight, for each signature
\* that no two calls had in hand at once.
THEOREM GroupsAreTrue == Spec => []GroupsTrue
<1>1. SoundInv => GroupsTrue
  <2> SUFFICES ASSUME SoundInv, Quiet, Undisturbed
               PROVE  /\ \A e \in Executions : rows[e] # None /\ Apart(rows[e].detail) =>
                            /\ rows[e].groupId \in Live
                            /\ groups[rows[e].groupId].signature = rows[e].detail
                      /\ \A g \in Live : Apart(groups[g].signature) =>
                            /\ groups[g].occurrences = Cardinality(Members(g))
                            /\ Members(g) # {}
    BY DEF GroupsTrue
  <2>1. CoreTypeOK /\ \A w \in Workers : pc[w] = "idle"
    BY DEF SoundInv, AnnounceInv, TypeInv, Quiet
  <2>2. ASSUME NEW e \in Executions, rows[e] # None, Apart(rows[e].detail)
        PROVE  rows[e].groupId \in Live /\ groups[rows[e].groupId].signature = rows[e].detail
    <3>1. rows[e].detail \in Details
      BY <2>1, <2>2 DEF CoreTypeOK, Row
    <3> QED
      BY <2>1, <2>2, <3>1 DEF SoundInv, Sound, Placed, Moving, Searching, Signed
  <2>3. ASSUME NEW g \in Live, Apart(groups[g].signature)
        PROVE  groups[g].occurrences = Cardinality(Members(g)) /\ Members(g) # {}
    <3>1. groups[g].signature \in Details /\ g \in Signed(groups[g].signature)
      BY <2>1, LiveType DEF Group, Signed
    <3> QED
      BY <2>1, <2>3, <3>1
      DEF SoundInv, Sound, Tallied, Peopled, Recounting, Filling, Leaving
  <2> QED
    BY <2>2, <2>3
<1> QED
  BY <1>1, InitSound, NextSound, PTL DEF Spec

\* Nor does a settled row of such a signature stay in a problem nobody was told
\* about; and a recurrence recalls an announcement that was made, unless two
\* calls were at work on the group at once.
THEOREM ToldInGoodOrder == Spec => []ToldInOrder
<1>1. SoundInv => SettledIsTold
  <2> SUFFICES ASSUME SoundInv, Quiet, Undisturbed, NEW e \in Executions, Settled(e),
                      Apart(rows[e].detail)
               PROVE  /\ rows[e].groupId \in Live
                      /\ opened[rows[e].groupId] + regressed[rows[e].groupId] > 0
    BY DEF SettledIsTold
  <2>1. CoreTypeOK /\ \A w \in Workers : pc[w] = "idle"
    BY DEF SoundInv, AnnounceInv, TypeInv, Quiet
  <2>2. rows[e].detail \in Details
    BY <2>1 DEF CoreTypeOK, Row, Settled
  <2>3. rows[e].groupId \in Live /\ Told(rows[e].groupId)
    BY <2>1, <2>2 DEF SoundInv, Sound, Heard, Telling, Assigning, Signed
  <2>4. opened[rows[e].groupId] \in Nat /\ regressed[rows[e].groupId] \in Nat
    BY <2>1, <2>3 DEF CoreTypeOK, Live
  <2> QED
    BY <2>3, <2>4 DEF Told
<1>2. OnceInv => RecurredAfterOpened
  BY DEF OnceInv, Recalled, RecurredAfterOpened
<1> QED
  BY <1>1, <1>2, InitSound, NextSound, InitOnce, NextOnce, PTL DEF Spec, ToldInOrder
=============================================================================
