--------------------- MODULE PromotionTransactionProofs ---------------------
(***************************************************************************)
(* The transactions of the controller, with their crashes, replays and     *)
(* concurrent services, implement the registry: whatever promote(),        *)
(* rollback() and ingestion do, the registry sees one of its own events or *)
(* nothing.  The registry's theorems therefore hold of the whole system.   *)
(***************************************************************************)
EXTENDS PromotionTransaction, PromotionRegistryProofs

Quiet == UNCHANGED registryVars

\* A generation of an export, and the export it was made from.
LEMMA GensFacts ==
    ASSUME NEW g \in Gens
    PROVE  /\ g \in GenId
           /\ CandOf(g) \in Exports
BY TransactionConstants DEF Gens, CandOf

\* The events of the evaluation stages are candidate events.
LEMMA EvaluateIsCandidateNext ==
    ASSUME NEW h \in Exports, EvaluateCandidate(h)
    PROVE  CandidateNext
<1>1. Inbox[h] \in Path /\ KeyOf[h] \in EvalKey
  BY TransactionConstants
<1>2. CASE DiscoverCandidate(h, Inbox[h])
  BY <1>1, <1>2 DEF CandidateNext
<1>3. CASE MoveCandidate(h, Inbox[h], "claimed")
  <2>1. "claimed" \in CandidateState
    BY DEF CandidateState
  <2> QED
    BY <1>1, <1>3, <2>1 DEF CandidateNext
<1>4. CASE /\ candidates[h].state \in DOMAIN NextStage
           /\ StartEvaluation(h, Inbox[h], NextStage[candidates[h].state],
                              KeyOf[h])
  <2> DEFINE target == NextStage[candidates[h].state]
  <2>1. target \in CandidateState
    BY <1>4 DEF StartEvaluation, CandidateState
  <2> QED
    BY <1>1, <1>4, <2>1 DEF CandidateNext
<1>5. CASE ConfirmCandidate(h, Inbox[h], KeyOf[h])
  BY <1>1, <1>5 DEF CandidateNext
<1> QED
  BY <1>2, <1>3, <1>4, <1>5 DEF EvaluateCandidate

\* The steps of the process itself, of ingestion and of the task list.
LEMMA ControllerIsRegistryStep ==
    ASSUME NEW g \in Gens
    PROVE  /\ Reconcile \/ ReconcileHalt \/ StaleEvaluation \/ OrchestrateDone
                \/ IngestHalt \/ IngestDone \/ TasksDone \/ SelectPromotion
                \/ SelectReplay => Quiet
           /\ \A ph \in Phase : IngestAck(g, ph) => Quiet
           /\ \A ph \in {"canary", "intermediate"} :
                 IngestReport(g, ph) => GenerationNext \/ Quiet
           /\ IngestAudit(g) => Quiet
<1>1. Exit => Quiet
  BY DEF Exit, Quiet
<1>2. Reconcile \/ ReconcileHalt \/ StaleEvaluation \/ OrchestrateDone
        \/ IngestHalt \/ IngestDone \/ TasksDone \/ SelectPromotion
        \/ SelectReplay => Quiet
  BY <1>1 DEF Reconcile, ReconcileHalt, StaleEvaluation, OrchestrateDone,
              IngestHalt, IngestDone, TasksDone, SelectPromotion,
              SelectReplay, Quiet
<1>3. \A ph \in Phase : IngestAck(g, ph) => Quiet
  BY DEF IngestAck, Quiet
<1>4. ASSUME NEW ph \in {"canary", "intermediate"}, IngestReport(g, ph)
      PROVE  GenerationNext \/ Quiet
  <2>1. "quarantined" \in GenerationState
    BY DEF GenerationState
  <2>2. AdvanceGeneration(g, "quarantined") \/ Quiet
    BY <1>4 DEF IngestReport, Quiet
  <2> QED
    BY <2>1, <2>2, GensFacts DEF GenerationNext
<1>5. IngestAudit(g) => Quiet
  BY DEF IngestAudit, Quiet
<1> QED
  BY <1>2, <1>3, <1>4, <1>5

\* Every durable effect of promote() is one registry event or none.
LEMMA PromoteIsRegistryStep ==
    ASSUME NEW g \in Gens, Promote(g)
    PROVE  GenerationNext \/ PinNext \/ Quiet
<1>1. CASE EnterPromote(g) \/ WriteIntent(g) \/ WritePreviousChampion(g)
             \/ SnapshotCheckpoint(g) \/ AcceptCandidate(g) \/ StartWorker(g)
             \/ MarkLaunched(g) \/ ReuseWorker(g)
  BY <1>1 DEF EnterPromote, WriteIntent, WritePreviousChampion,
              SnapshotCheckpoint, AcceptCandidate, StartWorker, MarkLaunched,
              ReuseWorker, Quiet
<1>2. CASE SwapChampion(g) \/ MarkSwap(g) \/ AdmitData(g) \/ MarkAdmitted(g)
             \/ QueueAudit(g) \/ Complete(g) \/ PromoteReturn(g)
             \/ PromoteHalt(g)
  BY <1>2 DEF SwapChampion, MarkSwap, AdmitData, MarkAdmitted, QueueAudit,
              Complete, PromoteReturn, PromoteHalt, Exit, Quiet
<1>3. CASE IntentEvent(g)
  <2>1. /\ Accepted[CandOf(g)] \in Path
        /\ KeyOf[CandOf(g)] \in EvalKey
    BY GensFacts, TransactionConstants
  <2> QED
    BY <1>3, <2>1, GensFacts DEF IntentEvent, GenerationNext
<1>4. CASE PinPreviousChampion(g)
  <2>1. PinOf[g] \in PinId
    BY GensFacts, TransactionConstants
  <2> QED
    BY <1>4, <2>1 DEF PinPreviousChampion, PinNext
<1>5. CASE RolloutEvent(g)
  <2>1. {"canary", "rollout"} \subseteq GenerationState
    BY DEF GenerationState
  <2> QED
    BY <1>5, <2>1, GensFacts DEF RolloutEvent, GenerationNext
<1>6. CASE Activate(g)
  BY <1>6, GensFacts DEF Activate, GenerationNext
<1> QED
  BY <1>1, <1>2, <1>3, <1>4, <1>5, <1>6 DEF Promote

\* So is every durable effect of rollback().
LEMMA RollbackIsRegistryStep ==
    ASSUME NEW g \in Gens, Rollback(g)
    PROVE  GenerationNext \/ Quiet
<1>1. CASE EnterRollback(g) \/ WriteRollbackIntent(g) \/ StopConsumers(g)
             \/ MoveData(g) \/ MoveShuffle(g) \/ RestoreCheckpoint(g)
             \/ RestoreChampion(g) \/ MarkRolledBack(g) \/ RollbackReturn(g)
             \/ RollbackHalt(g)
  BY <1>1 DEF EnterRollback, WriteRollbackIntent, StopConsumers, MoveData,
              MoveShuffle, RestoreCheckpoint, RestoreChampion,
              MarkRolledBack, RollbackReturn, RollbackHalt, Exit, Quiet
<1>2. CASE RollbackPendingEvent(g)
  <2>1. "rollback_pending" \in GenerationState
    BY DEF GenerationState
  <2> QED
    BY <1>2, <2>1, GensFacts DEF RollbackPendingEvent, GenerationNext
<1>3. CASE RolledBackEvent(g)
  BY <1>3, GensFacts DEF RolledBackEvent, GenerationNext
<1> QED
  BY <1>1, <1>2, <1>3 DEF Rollback

\* Workers, auditor, watcher, shuffler, trainer, restarts and crashes leave the
\* registry alone.
LEMMA EnvironmentIsQuiet ==
    /\ BootstrapFile \/ StartReconcile \/ StartWatch \/ Crash => Quiet
    /\ GrowContinuousData \/ ScanStart \/ ScanWrite \/ Train => Quiet
    /\ \A g \in Gens :
          /\ \A ph \in Phase : WorkerStep(g, ph) => Quiet
          /\ AuditorStep(g) \/ Shuffle(g) => Quiet
<1>1. BootstrapFile \/ StartReconcile \/ StartWatch \/ Crash => Quiet
  BY DEF BootstrapFile, StartReconcile, StartWatch, Crash, Quiet
<1>2. GrowContinuousData \/ ScanStart \/ ScanWrite \/ Train => Quiet
  BY DEF GrowContinuousData, ScanStart, ScanWrite, Train, Quiet
<1>3. ASSUME NEW g \in Gens
      PROVE  /\ \A ph \in Phase : WorkerStep(g, ph) => Quiet
             /\ AuditorStep(g) \/ Shuffle(g) => Quiet
  BY DEF WorkerStep, WorkerExit, PublishAck, AuditorStep, ReportRollout,
         DeepAudit, Shuffle, Quiet
<1> QED
  BY <1>1, <1>2, <1>3

\* Every step of the system is a step of the registry or leaves it alone.
LEMMA StepSimulation == [TxNext]_vars => [Next]_registryVars
<1> SUFFICES ASSUME [TxNext]_vars
             PROVE  Next \/ Quiet
  BY DEF Quiet
<1>1. CASE BootstrapEvent
  <2>1. Original \in Hash /\ BootGen \in GenId
    BY RegistryConstants, TransactionConstants
  <2> QED
    BY <1>1, <2>1 DEF BootstrapEvent, Next
<1>2. CASE \E h \in Exports : EvaluateCandidate(h)
  BY <1>2, EvaluateIsCandidateNext DEF Next
<1>3. CASE ControllerStep
  <2>1. CASE \E g \in Gens : Promote(g) \/ Rollback(g)
    BY <2>1, PromoteIsRegistryStep, RollbackIsRegistryStep DEF Next
  <2>2. CASE \E g \in Gens :
               \/ \E ph \in Phase : IngestAck(g, ph)
               \/ \E ph \in {"canary", "intermediate"} : IngestReport(g, ph)
               \/ IngestAudit(g)
    BY <2>2, ControllerIsRegistryStep DEF Next
  <2>3. CASE Reconcile \/ ReconcileHalt \/ StaleEvaluation \/ OrchestrateDone
               \/ IngestHalt \/ IngestDone \/ TasksDone \/ SelectPromotion
               \/ SelectReplay
    BY <2>3 DEF Reconcile, ReconcileHalt, StaleEvaluation, OrchestrateDone,
                IngestHalt, IngestDone, TasksDone, SelectPromotion,
                SelectReplay, Exit, Quiet
  <2> QED
    BY <1>3, <2>1, <2>2, <2>3 DEF ControllerStep
<1>4. CASE \/ BootstrapFile \/ StartReconcile \/ StartWatch \/ Crash
           \/ \E g \in Gens, ph \in Phase : WorkerStep(g, ph)
           \/ \E g \in Gens : AuditorStep(g) \/ Shuffle(g)
           \/ GrowContinuousData \/ ScanStart \/ ScanWrite \/ Train
  BY <1>4, EnvironmentIsQuiet
<1>5. CASE UNCHANGED vars
  BY <1>5 DEF vars, Quiet
<1> QED
  BY <1>1, <1>2, <1>3, <1>4, <1>5 DEF TxNext

\* The controller implements the registry: the events that promote(), rollback()
\* and _ingest_rollout_ipc append, in any interleaving and with any crash, are
\* a run of _RegistryBuilder.
THEOREM TransactionImplementsRegistry == TxSpec => Spec
<1>1. TxInit => Init
  BY DEF TxInit
<1> QED
  BY <1>1, StepSimulation, PTL DEF TxSpec, Spec

\* The binding of generations to candidates survives every crash and replay of
\* the transactions.
THEOREM TransactionKeepsBinding == TxSpec => []GenerationBinding
BY TransactionImplementsRegistry, BindingSafe, PTL

\* Every champion change of the whole system is to a candidate tested against
\* the champion it replaces, or back again.
THEOREM TransactionPromotesTested == TxSpec => TestedPromotion
BY TransactionImplementsRegistry, PromotionsAreTested, PTL
=============================================================================
