--------------------------- MODULE WorkflowLocks ---------------------------
(***************************************************************************)
(* The lock of a copy of a workflow, and the guard every write to n8n or   *)
(* Make passes: WorkflowLockService                                        *)
(* (apps/api/src/infra/workflow-lock/workflow-lock.service.ts) with the    *)
(* verdict of packages/core/src/domain/workflow-lock.ts.                   *)
(*                                                                         *)
(* The modules of the services that write extend this one.  A call carries *)
(* the locks its request lifts by name; the guard reads the locks once,    *)
(* where it is called, and journals those it lifts.                        *)
(***************************************************************************)
EXTENDS Integers, FiniteSets

CONSTANT Workflows   \* copies of workflows

VARIABLES
    locked,   \* rows of table WorkflowLock
    journal   \* copies with a row in table WorkflowLockOverride

lockVars == <<locked, journal>>

\* Locked, and not lifted by the request: the write must be refused.
Blocking(ids, lifts) == (ids \intersect locked) \ lifts

\* Faulty variant: a request that lifts one lock lifts them all.
LiftsAny(ids, lifts) == lifts # {} \/ Blocking(ids, lifts) = {}

CanWrite(ids, lifts) == Blocking(ids, lifts) = {}

Overridden(ids, lifts) == (ids \intersect locked) \intersect lifts

\* The guard lets the write go and journals the locks it lifts.
AssertWritable(ids, lifts) ==
    /\ CanWrite(ids, lifts)
    /\ journal' = journal \union Overridden(ids, lifts)
    /\ UNCHANGED locked

Refused(ids, lifts) == ~ CanWrite(ids, lifts) /\ UNCHANGED lockVars

Lock(w) == locked' = locked \union {w} /\ UNCHANGED journal

Unlock(w) == locked' = locked \ {w} /\ UNCHANGED journal

LockTypeOK == locked \subseteq Workflows /\ journal \subseteq Workflows
=============================================================================
