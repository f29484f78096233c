------------------------ MODULE PromotionTransaction ------------------------
(***************************************************************************)
(* The promotion and rollback transactions of the controller,              *)
(* python/risk_score/promotion_controller.py, and what runs beside them:   *)
(* self-play workers, the auditor, the feedback watcher, the shuffler and  *)
(* the trainer.                                                            *)
(*                                                                         *)
(* promote() and rollback() are written to be called again and again: each *)
(* call walks the same list of steps, and a step whose durable effect is   *)
(* already there is skipped.  The model keeps the durable effects and lets *)
(* PromoteStep and RollbackStep name the first one that is missing; each   *)
(* durable write is one action, and the process may stop between any two.  *)
(*                                                                         *)
(* Each rollout phase has one worker; "full" stands for the workers that   *)
(* the intermediate phase does not start.  Adaptive training handoffs and  *)
(* suite pins are not modelled.                                            *)
(***************************************************************************)
EXTENDS PromotionRegistry, Sequences

CONSTANTS
    BootGen,       \* generation of the bootstrap champion
    GenOf,         \* "generation-" + candidate hash, for each export
    HashOrder,     \* the exports in the order of their hashes
    Inbox,         \* where a candidate is claimed
    Accepted,      \* where its intent moves it
    KeyOf,         \* its evaluation key
    PinOf,         \* the previous-champion pin of a generation
    Audited,       \* generations the deep-audit policy selects
    MayFail,       \* the reports that may say FAIL
    Training,      \* may the trainer save a checkpoint
    SelfPlay,      \* does the champion's continuous self-play add data
    Watching,      \* does the feedback watcher run
    Operator,      \* may reconciliation be rerun on a running host
    KillModes,     \* do workers die with the controller's control group
    Outages,       \* what may crash: the "process", the "host"
    MaxCrashes     \* bound on the number of crashes

Phase == {"canary", "intermediate", "full"}

Upto(ph) == CASE ph = "canary" -> {"canary"}
              [] ph = "intermediate" -> {"canary", "intermediate"}
              [] ph = "full" -> Phase

ASSUME TransactionConstants ==
    /\ BootGen \in GenId
    /\ GenOf \in [Exports -> GenId \ {BootGen}]
    /\ \A h1, h2 \in Exports : GenOf[h1] = GenOf[h2] => h1 = h2
    /\ HashOrder \in Seq(Exports)
    /\ Inbox \in [Exports -> Path]
    /\ Accepted \in [Exports -> Path]
    /\ KeyOf \in [Exports -> EvalKey]
    /\ PinOf \in [GenId -> PinId]
    /\ Audited \subseteq GenId
    /\ MayFail \subseteq {"canary", "intermediate", "deep"}
    /\ {Training, SelfPlay, Watching, Operator} \cup KillModes \subseteq BOOLEAN
    /\ Outages \subseteq {"process", "host"}
    /\ MaxCrashes \in Nat

VARIABLES
    champion_json,   \* champion hash in champion.json
    tx,              \* transactions/<generation>: which files exist
    data,            \* where the generation's self-play data lies
    workers,         \* the rollout workers and their completion reports
    reports,         \* rollout reports in the inbox
    audits,          \* deep audit of a generation
    shuffled,        \* generations with data in a live shuffle directory
    consumed,        \* generations the trainer checkpoint has consumed
    watermark,       \* data and shuffle watermark files
    grown,           \* has continuous data been added since they were written
    scan,            \* None, or the generations a running scan has found
    ctl,             \* the controller process
    ready,           \* boot-ready marker of this boot
    reconciled,      \* the boot service, which the others require, succeeded
    crashes          \* crashes so far

txVars == <<champion_json, tx, data>>
rolloutVars == <<workers, reports, audits>>
feedbackVars == <<shuffled, consumed, watermark, grown, scan>>
processVars == <<ctl, ready, reconciled, crashes>>
vars == <<registryVars, txVars, rolloutVars, feedbackVars, processVars>>

Gens == {GenOf[h] : h \in Exports}
CandOf(g) == CHOOSE h \in Exports : GenOf[h] = g
State(g) == generations[g].state

\* bound: the files whose hash still is the one intent.json names.
\* base: what the trainer checkpoint copied by the transaction had consumed.
\* rb: None, or what rollback-intent.json says is to be undone.
NoTransaction ==
    [intent |-> FALSE, bound |-> {}, snapshot |-> None, accepted |-> FALSE,
     launched |-> {}, acks |-> {}, passes |-> {}, cas |-> FALSE,
     admitted |-> FALSE, complete |-> FALSE, base |-> None, rb |-> None,
     stopped |-> FALSE, rolledBack |-> FALSE]

\* todo: the calls this pass still makes.  again: promote() is called a second
\* time.  seen: the phases whose workers this call of promote() has passed.
Down == [mode |-> "down", step |-> "none", todo |-> <<>>, again |-> FALSE,
         seen |-> {}]

-----------------------------------------------------------------------------
(* The controller process.                                                 *)

Goto(step) == ctl' = [ctl EXCEPT !.step = step]

\* A worker runs, exits, and its completion and acknowledgement are then
\* published by its monitor.  The monitor shares the worker's control group; an
\* exited worker without one waits for the host supervisor.
Killed == [g \in Gens |-> [ph \in Phase |->
             CASE workers[g][ph] = "running" -> "dead"
               [] workers[g][ph] = "exited"  -> "orphaned"
               [] OTHER -> workers[g][ph]]]

\* The process ends: SafetyHalt and every other error leave main().  systemd
\* then kills what is left in the service's control group.
Exit ==
    /\ ctl' = Down
    /\ \E kill \in KillModes : workers' = IF kill THEN Killed ELSE workers
    /\ UNCHANGED <<registryVars, txVars, reports, audits, feedbackVars, ready,
                   reconciled, crashes>>

Frozen == \E g \in Gens :
             tx[g].intent /\ ~tx[g].complete /\ ~tx[g].rolledBack

\* _transactions, as far as a scan uses it.
KnownGenerations == {g \in Gens : tx[g].intent /\ ~tx[g].rolledBack}

\* A frozen scan raises when the data and the shuffles that the watermark lists
\* are not what is there.
FrozenScanFails ==
    \/ grown
    \/ \E g \in watermark.data : data[g] # "admitted"
    \/ ~(watermark.derived \subseteq shuffled)

\* Any other scan raises when data of a known generation disappeared, or when
\* there is data that belongs to none.
ScanFails(known) ==
    \/ \E g \in watermark.data \cap known : data[g] # "admitted"
    \/ \E g \in Gens \ known : data[g] = "admitted"

\* What a scan writes: the generations it found, those with admitted data, those
\* a shuffle manifest names, those the trainer has consumed.
FreshWatermark(known) ==
    [known    |-> known,
     data     |-> {g \in known : data[g] = "admitted"},
     derived  |-> shuffled,
     consumed |-> consumed \cap known]

Unbind(file) == tx' = [g \in Gens |-> [tx[g] EXCEPT !.bound = @ \ {file}]]

WriteWatermark(known) ==
    /\ watermark' = FreshWatermark(known)
    /\ grown' = FALSE
    /\ IF grown \/ watermark # FreshWatermark(known)
       THEN Unbind("watermark")
       ELSE UNCHANGED tx

\* The boot service: one watcher scan, then the controller in reconcile mode.
\* Starting it stops every other service except the host supervisor.
StartReconcile ==
    /\ ctl.mode = "down"
    /\ current_champion # None
    /\ ~reconciled \/ Operator
    /\ IF Frozen THEN ~FrozenScanFails ELSE ~ScanFails(KnownGenerations)
    /\ ctl' = [Down EXCEPT !.mode = "boot", !.step = "ingest"]
    /\ reconciled' = FALSE
    /\ scan' = None
    /\ IF Frozen THEN UNCHANGED <<tx, watermark, grown>>
       ELSE WriteWatermark(KnownGenerations)
    /\ UNCHANGED <<registryVars, champion_json, data, rolloutVars, shuffled,
                   consumed, ready, crashes>>

StartWatch ==
    /\ ctl.mode = "down"
    /\ reconciled
    /\ ctl' = [Down EXCEPT !.mode = "watch", !.step = "reconcile"]
    /\ UNCHANGED <<registryVars, txVars, rolloutVars, feedbackVars, ready,
                   reconciled, crashes>>

\* The controller is killed, or the whole host goes down.
Crash ==
    /\ crashes < MaxCrashes
    /\ crashes' = crashes + 1
    /\ ctl' = Down
    /\ \/ /\ "process" \in Outages
          /\ ctl.mode # "down"
          /\ \E kill \in KillModes :
                workers' = IF kill THEN Killed ELSE workers
          /\ UNCHANGED <<ready, reconciled, scan>>
       \/ /\ "host" \in Outages
          /\ workers' = Killed
          /\ ready' = FALSE
          /\ reconciled' = FALSE
          /\ scan' = None
    /\ UNCHANGED <<registryVars, txVars, reports, audits, shuffled, consumed,
                   watermark, grown>>

\* --bootstrap-champion: champion.json first, then the event.
BootstrapFile ==
    /\ champion_json = None
    /\ champion_json' = Original
    /\ UNCHANGED <<registryVars, tx, data, rolloutVars, feedbackVars,
                   processVars>>

BootstrapEvent ==
    /\ champion_json = Original
    /\ BootstrapChampion(Original, BootGen)
    /\ UNCHANGED <<txVars, rolloutVars, feedbackVars, processVars>>

\* reconcile(mutate=True): a champion file that differs from the registry is
\* accepted only when a champion-cas marker names it.
Repairable == \E g \in Gens : tx[g].cas /\ CandOf(g) = champion_json

Reconcile ==
    /\ ctl.step = "reconcile"
    /\ champion_json = current_champion \/ Repairable
    /\ IF ctl.mode = "boot"
       THEN ctl' = Down /\ ready' = TRUE /\ reconciled' = TRUE
       ELSE Goto("orchestrate") /\ UNCHANGED <<ready, reconciled>>
    /\ UNCHANGED <<registryVars, txVars, rolloutVars, feedbackVars, crashes>>

ReconcileHalt ==
    /\ ctl.step = "reconcile"
    /\ champion_json # current_champion
    /\ ~Repairable
    /\ Exit

-----------------------------------------------------------------------------
(* One pass over the candidates: evaluation, then promotion.               *)

NextStage == [claimed |-> "evaluating_integrity",
              evaluating_integrity |-> "evaluating_screen",
              evaluating_screen |-> "evaluating_finalist",
              evaluating_finalist |-> "evaluating_confirmation"]

\* Mutant: each candidate may have an attempt.
ConfirmationAllocated_Never(h) == FALSE

\* A champion has one confirmation attempt.
ConfirmationAllocated(h) ==
    \E o \in Exports \ {h} :
       /\ candidates[o].state \in {"evaluating_confirmation", "confirmed"}
       /\ candidates[o].tested = current_champion

Stale(h) == /\ candidates[h].state \in EvaluatingStates
            /\ candidates[h].tested # current_champion

\* Candidates that fail a stage have no promotion and are left out.
EvaluateCandidate(h) ==
    /\ ctl.step = "orchestrate"
    /\ \/ DiscoverCandidate(h, Inbox[h])
       \/ MoveCandidate(h, Inbox[h], "claimed")
       \/ /\ candidates[h].state \in DOMAIN NextStage
          /\ ~Stale(h)
          /\ NextStage[candidates[h].state] = "evaluating_confirmation"
               => ~ConfirmationAllocated(h)
          /\ StartEvaluation(h, Inbox[h], NextStage[candidates[h].state],
                             KeyOf[h])
       \/ ConfirmCandidate(h, Inbox[h], KeyOf[h])
    /\ UNCHANGED <<txVars, rolloutVars, feedbackVars, processVars>>

\* process_evaluation_stage: evaluated against a champion of the past.
StaleEvaluation ==
    /\ ctl.step = "orchestrate"
    /\ \E h \in Exports : Stale(h)
    /\ Exit

OrchestrateDone ==
    /\ ctl.step = "orchestrate"
    /\ Goto("ingest")
    /\ UNCHANGED <<registryVars, txVars, rolloutVars, feedbackVars, ready,
                   reconciled, crashes>>

-----------------------------------------------------------------------------
(* _ingest_rollout_ipc: acknowledgements, rollout reports, deep audits.    *)

Ingesting == ctl.step \in {"ingest", "ingest2", "ingest3"}

\* Messages of a generation that is being undone are left in the inbox.
Listening(g) ==
    State(g) \notin {"rollback_pending", "rolled_back", "quarantined"}

NewAcks == {m \in Gens \X Phase :
              /\ Listening(m[1])
              /\ workers[m[1]][m[2]] = "done"
              /\ m[2] \notin tx[m[1]].acks}

NewReports == {m \in Gens \X {"canary", "intermediate"} :
                 /\ Listening(m[1])
                 /\ reports[m[1]][m[2]] # "none"
                 /\ m[2] \notin tx[m[1]].passes}

NewAudits == {g \in Gens : audits[g] \in {"out_PASS", "out_FAIL"}}

\* The directories are read again on every pass, so old messages count.
HasIpc == \E g \in Gens :
             \/ Listening(g) /\ \E ph \in Phase : workers[g][ph] = "done"
             \/ audits[g] \notin {"none", "queued"}

\* Mutant: an acknowledgement is taken for a health report.
IngestAck_MarksPassed(g, ph) ==
    /\ Ingesting
    /\ <<g, ph>> \in NewAcks
    /\ ph \in tx[g].launched
    /\ tx' = [tx EXCEPT ![g].acks = @ \cup {ph}, ![g].passes = @ \cup {ph}]
    /\ UNCHANGED <<registryVars, champion_json, data, rolloutVars,
                   feedbackVars, processVars>>

IngestAck(g, ph) ==
    /\ Ingesting
    /\ <<g, ph>> \in NewAcks
    /\ ph \in tx[g].launched
    /\ tx' = [tx EXCEPT ![g].acks = @ \cup {ph}]
    /\ UNCHANGED <<registryVars, champion_json, data, rolloutVars,
                   feedbackVars, processVars>>

FailureState == [canary |-> "canary", intermediate |-> "rollout"]

IngestReport(g, ph) ==
    /\ Ingesting
    /\ NewAcks = {}
    /\ <<g, ph>> \in NewReports
    /\ IF reports[g][ph] = "PASS"
       THEN /\ Upto(ph) \subseteq tx[g].acks
            /\ tx' = [tx EXCEPT ![g].passes = @ \cup {ph}]
            /\ UNCHANGED registryVars
       ELSE /\ State(g) = FailureState[ph]
            /\ AdvanceGeneration(g, "quarantined")
            /\ UNCHANGED tx
    /\ UNCHANGED <<champion_json, data, rolloutVars, feedbackVars,
                   processVars>>

IngestAudit(g) ==
    /\ Ingesting
    /\ NewAcks = {} /\ NewReports = {}
    /\ g \in NewAudits
    /\ audits' = [audits EXCEPT ![g] =
                    IF @ = "out_PASS" THEN "PASS" ELSE "FAIL"]
    /\ UNCHANGED <<registryVars, txVars, workers, reports, feedbackVars,
                   processVars>>

\* An acknowledgement of a worker without a launch marker; a failure report
\* for a generation that is not in the phase it reports on.
IngestHalt ==
    /\ Ingesting
    /\ \/ \E m \in NewAcks : m[2] \notin tx[m[1]].launched
       \/ /\ NewAcks = {}
          /\ \E m \in NewReports :
                /\ reports[m[1]][m[2]] = "FAIL"
                /\ State(m[1]) # FailureState[m[2]]
    /\ Exit

-----------------------------------------------------------------------------
(* The list of generations a pass works on.                                *)

Sorted(kind, S) ==
    LET mine == SelectSeq(HashOrder, LAMBDA h : GenOf[h] \in S) IN
    [i \in DOMAIN mine |-> <<kind, GenOf[mine[i]]>>]

\* Confirmed candidates whose generation is not terminal.
Promotable ==
    {g \in Gens : /\ candidates[CandOf(g)].state = "confirmed"
                  /\ State(g) \notin {"quarantined", "rolled_back"}}

\* _deep_audit_rollbacks
AuditRollbacks ==
    {g \in Gens : /\ audits[g] = "FAIL"
                  /\ State(g) = "active"
                  /\ current_generation = g}

Pending == {g \in Gens : tx[g].intent /\ ~tx[g].complete}

\* Mutant: boot reconciliation only looks for failed audits.
Collected_ForgetsPending ==
    IF ctl.mode = "watch" THEN Sorted("promote", Promotable)
    ELSE Sorted("rollback", AuditRollbacks) \o Sorted("pending", Pending)

Collected ==
    IF ctl.mode = "watch" THEN Sorted("promote", Promotable)
    ELSE Sorted("rollback", AuditRollbacks \cup
                            {g \in Gens : State(g) = "rollback_pending"})
           \o Sorted("pending", Pending)

\* What follows the end of an ingestion pass.
IngestDone ==
    /\ Ingesting
    /\ NewAcks = {} /\ NewReports = {} /\ NewAudits = {}
    /\ CASE ctl.step = "ingest" ->
              ctl' = [ctl EXCEPT !.step = "task", !.todo = Collected]
         [] ctl.step = "ingest2" -> Goto("enter")
         [] ctl.step = "ingest3" ->
              LET g == ctl.todo[1][2] IN
              IF HasIpc /\ ~tx[g].complete
              THEN ctl' = [ctl EXCEPT !.step = "enter", !.again = TRUE]
              ELSE ctl' = [ctl EXCEPT !.step = "task", !.todo = Tail(@)]
    /\ UNCHANGED <<registryVars, txVars, rolloutVars, feedbackVars, ready,
                   reconciled, crashes>>

TasksDone ==
    /\ ctl.step = "task"
    /\ ctl.todo = <<>>
    /\ Goto("reconcile")
    /\ UNCHANGED <<registryVars, txVars, rolloutVars, feedbackVars, ready,
                   reconciled, crashes>>

\* The keyword arguments of promote(): the intent's hashes once there is an
\* intent, the present files' before.
SelectPromotion ==
    /\ ctl.step = "task"
    /\ ctl.todo # <<>>
    /\ ctl.todo[1][1] = "promote"
    /\ LET g == ctl.todo[1][2] IN
       tx' = IF tx[g].intent THEN tx
             ELSE [tx EXCEPT ![g].bound = {"watermark", "checkpoint"}]
    /\ Goto("ingest2")
    /\ UNCHANGED <<registryVars, champion_json, data, rolloutVars,
                   feedbackVars, ready, reconciled, crashes>>

SelectReplay ==
    /\ ctl.step = "task"
    /\ ctl.todo # <<>>
    /\ LET kind == ctl.todo[1][1]  g == ctl.todo[1][2] IN
       \/ /\ kind = "rollback" \/ (kind = "pending"
                                     /\ State(g) = "rollback_pending")
          /\ Goto("undo")
       \/ /\ kind = "pending"
          /\ State(g) \in {"rolled_back", "quarantined"}
          /\ ctl' = [ctl EXCEPT !.todo = Tail(@)]
       \/ /\ kind = "pending"
          /\ State(g) \notin {"rollback_pending", "rolled_back",
                              "quarantined"}
          /\ Goto("enter")
    /\ UNCHANGED <<registryVars, txVars, rolloutVars, feedbackVars, ready,
                   reconciled, crashes>>

\* promote() or rollback() returns to its caller.
Return ==
    ctl' = IF ctl.mode = "watch" /\ ~ctl.again
           THEN [ctl EXCEPT !.step = "ingest3", !.seen = {}]
           ELSE [ctl EXCEPT !.step = "task", !.todo = Tail(@),
                            !.again = FALSE, !.seen = {}]

-----------------------------------------------------------------------------
(* promote(): a list of durable effects, of which the first missing one is *)
(* produced next.                                                          *)

\* The first entry of a list of <<name, condition>> whose condition holds.
FirstOf(ladder) ==
    LET i == CHOOSE i \in DOMAIN ladder :
               ladder[i][2] /\ \A j \in 1 .. i - 1 : ~ladder[j][2]
    IN  ladder[i][1]

\* The generation promote() or rollback() was called with.
At(step, g) == ctl.step = step /\ g = ctl.todo[1][2]

\* Mutant: a worker that has finished and was acknowledged is not reused.
LaunchStep_ForgetsAcks(g, ph) ==
    LET w == workers[g][ph] IN
    CASE ph \in tx[g].launched -> IF w = "running" THEN "reuse" ELSE "halt"
      [] ph \notin tx[g].launched /\ w = "none" -> "start"
      [] ph \notin tx[g].launched /\ w \in {"running", "done"} -> "mark"
      [] OTHER -> "halt"

\* _launch_worker_phase and worker_start, for the worker of one phase.
LaunchStep(g, ph) ==
    LET w == workers[g][ph] IN
    CASE ph \in tx[g].launched ->
           IF ph \in tx[g].acks \/ w = "running" THEN "reuse" ELSE "halt"
      [] ph \notin tx[g].launched /\ w = "none" -> "start"
      [] ph \notin tx[g].launched /\ w \in {"running", "done"} -> "mark"
      [] OTHER -> "halt"

LaunchPhase ==
    FirstOf(<< <<"canary", "canary" \notin ctl.seen>>,
               <<"intermediate", "intermediate" \notin ctl.seen>>,
               <<"full", TRUE>> >>)

Launch(g, ph) == <<LaunchStep(g, ph), ph \notin ctl.seen>>

Missing(g, ph) == ph \notin tx[g].acks \cap tx[g].passes

CanarySteps(g) ==
    << <<"intent_event", State(g) = "absent">>,
       <<"pin", PinOf[g] \notin seen_pin_ids>>,
       <<"accept", ~tx[g].accepted>>,
       Launch(g, "canary"),
       <<"canary", State(g) = "promotion_intent">>,
       <<"return", Missing(g, "canary")>>,
       <<"rollout", State(g) = "canary">> >>

\* Mutant: the full rollout does not wait for the intermediate health report.
FullSteps_NoIntermediateHealth(g) ==
    << Launch(g, "intermediate"),
       <<"return", "intermediate" \notin tx[g].acks>>,
       Launch(g, "full"),
       <<"return", "full" \notin tx[g].acks>> >>

FullSteps(g) ==
    << Launch(g, "intermediate"),
       <<"return", Missing(g, "intermediate")>>,
       Launch(g, "full"),
       <<"return", "full" \notin tx[g].acks>> >>

\* Mutant: the generation is activated before the champion file is swapped.
SwapSteps_ActivateFirst(g) == << <<"activate", TRUE>> >>

\* compare_and_swap_champion, its marker, and the ACTIVE event.
SwapSteps(g) ==
    << <<"cas", champion_json = candidates[CandOf(g)].tested>>,
       <<"halt", champion_json # CandOf(g)>>,
       <<"cas_mark", ~tx[g].cas>>,
       <<"activate", TRUE>> >>

ActiveSteps(g) ==
    << <<"halt", champion_json # CandOf(g)>>,
       <<"admit", data[g] = "staged">>,
       <<"admitted", ~tx[g].admitted>>,
       <<"audit", g \in Audited /\ audits[g] = "none">>,
       <<"complete", ~tx[g].complete>>,
       <<"return", TRUE>> >>

\* The next thing promote(g) does once its arguments are checked.
PromoteStep(g) ==
    FirstOf(IF State(g) = "active" THEN ActiveSteps(g)
            ELSE CanarySteps(g) \o FullSteps(g) \o SwapSteps(g))

\* The champion promote() compares with the one the PASS report names.
TestedAgainst(g) ==
    IF State(g) = "absent" THEN current_champion ELSE generations[g].previous

Unpromotable(g) ==
    \/ "watermark" \notin tx[g].bound
    \/ State(g) \in {"quarantined", "rollback_pending"}
    \/ candidates[CandOf(g)].state # "confirmed"
    \/ candidates[CandOf(g)].tested # TestedAgainst(g)

EnterPromote(g) ==
    /\ At("enter", g)
    /\ ~Unpromotable(g)
    /\ IF State(g) = "rolled_back" THEN Return ELSE Goto("bind")
    /\ UNCHANGED <<registryVars, txVars, rolloutVars, feedbackVars, ready,
                   reconciled, crashes>>

WriteIntent(g) ==
    /\ At("bind", g)
    /\ ~tx[g].intent
    /\ tx' = [tx EXCEPT ![g].intent = TRUE]
    /\ UNCHANGED <<registryVars, champion_json, data, rolloutVars,
                   feedbackVars, processVars>>

\* Mutant: the snapshot is rewritten on every call.
WritePreviousChampion_Always(g) ==
    /\ At("bind", g)
    /\ tx[g].intent
    /\ tx[g].snapshot # champion_json
    /\ tx' = [tx EXCEPT ![g].snapshot = champion_json]
    /\ UNCHANGED <<registryVars, champion_json, data, rolloutVars,
                   feedbackVars, processVars>>

\* previous-champion.json
WritePreviousChampion(g) ==
    /\ At("bind", g)
    /\ tx[g].intent
    /\ tx[g].snapshot = None
    /\ tx' = [tx EXCEPT ![g].snapshot = champion_json]
    /\ UNCHANGED <<registryVars, champion_json, data, rolloutVars,
                   feedbackVars, processVars>>

\* _snapshot_checkpoint: every call compares the trainer's checkpoint with the
\* intent; the first one copies it.
SnapshotCheckpoint(g) ==
    /\ At("bind", g)
    /\ tx[g].intent /\ tx[g].snapshot # None
    /\ "checkpoint" \in tx[g].bound
    /\ tx' = IF tx[g].base = None THEN [tx EXCEPT ![g].base = consumed] ELSE tx
    /\ Goto("climb")
    /\ UNCHANGED <<registryVars, champion_json, data, rolloutVars,
                   feedbackVars, ready, reconciled, crashes>>

-----------------------------------------------------------------------------

Climbing(g, step) == At("climb", g) /\ PromoteStep(g) = step

IntentEvent(g) ==
    /\ Climbing(g, "intent_event")
    /\ PromotionIntent(g, CandOf(g), Accepted[CandOf(g)], KeyOf[CandOf(g)])
    /\ UNCHANGED <<txVars, rolloutVars, feedbackVars, processVars>>

PinPreviousChampion(g) ==
    /\ Climbing(g, "pin")
    /\ \E h \in Hash : /\ h = candidates[CandOf(g)].tested
                       /\ PinReference(PinOf[g], h)
    /\ UNCHANGED <<txVars, rolloutVars, feedbackVars, processVars>>

\* The candidate is moved into accepted/, its leaf and its workers' directories
\* are created.  Each of these moves is redone from where it stopped.
AcceptCandidate(g) ==
    /\ Climbing(g, "accept")
    /\ tx' = [tx EXCEPT ![g].accepted = TRUE]
    /\ UNCHANGED <<registryVars, champion_json, data, rolloutVars,
                   feedbackVars, processVars>>

StartWorker(g) ==
    /\ Climbing(g, "start")
    /\ workers' = [workers EXCEPT ![g][LaunchPhase] = "running"]
    /\ data' = [data EXCEPT ![g] = "staged"]
    /\ Goto("launch")
    /\ UNCHANGED <<registryVars, champion_json, tx, reports, audits,
                   feedbackVars, ready, reconciled, crashes>>

Seen == ctl' = [ctl EXCEPT !.step = "climb", !.seen = @ \cup {LaunchPhase}]

\* The launch marker, for the worker just started or found by a replay.
MarkLaunched(g) ==
    /\ At("launch", g) \/ Climbing(g, "mark")
    /\ tx' = [tx EXCEPT ![g].launched = @ \cup {LaunchPhase}]
    /\ Seen
    /\ UNCHANGED <<registryVars, champion_json, data, rolloutVars,
                   feedbackVars, ready, reconciled, crashes>>

ReuseWorker(g) ==
    /\ Climbing(g, "reuse")
    /\ Seen
    /\ UNCHANGED <<registryVars, txVars, rolloutVars, feedbackVars, ready,
                   reconciled, crashes>>

\* The CANARY and ROLLOUT events.
RolloutEvent(g) ==
    /\ \E target \in {"canary", "rollout"} :
          Climbing(g, target) /\ AdvanceGeneration(g, target)
    /\ UNCHANGED <<txVars, rolloutVars, feedbackVars, processVars>>

SwapChampion(g) ==
    /\ Climbing(g, "cas")
    /\ champion_json' = CandOf(g)
    /\ UNCHANGED <<registryVars, tx, data, rolloutVars, feedbackVars,
                   processVars>>

MarkSwap(g) ==
    /\ Climbing(g, "cas_mark")
    /\ tx' = [tx EXCEPT ![g].cas = TRUE]
    /\ UNCHANGED <<registryVars, champion_json, data, rolloutVars,
                   feedbackVars, processVars>>

Activate(g) ==
    /\ Climbing(g, "activate")
    /\ ActivateGeneration(g)
    /\ UNCHANGED <<txVars, rolloutVars, feedbackVars, processVars>>

\* _commit_generation_data
AdmitData(g) ==
    /\ Climbing(g, "admit")
    /\ data' = [data EXCEPT ![g] = "admitted"]
    /\ UNCHANGED <<registryVars, champion_json, tx, rolloutVars, feedbackVars,
                   processVars>>

MarkAdmitted(g) ==
    /\ Climbing(g, "admitted")
    /\ tx' = [tx EXCEPT ![g].admitted = TRUE]
    /\ UNCHANGED <<registryVars, champion_json, data, rolloutVars,
                   feedbackVars, processVars>>

QueueAudit(g) ==
    /\ Climbing(g, "audit")
    /\ audits' = [audits EXCEPT ![g] = "queued"]
    /\ UNCHANGED <<registryVars, txVars, workers, reports, feedbackVars,
                   processVars>>

Complete(g) ==
    /\ Climbing(g, "complete")
    /\ tx' = [tx EXCEPT ![g].complete = TRUE]
    /\ UNCHANGED <<registryVars, champion_json, data, rolloutVars,
                   feedbackVars, processVars>>

PromoteReturn(g) ==
    /\ Climbing(g, "return")
    /\ Return
    /\ UNCHANGED <<registryVars, txVars, rolloutVars, feedbackVars, ready,
                   reconciled, crashes>>

PromoteHalt(g) ==
    /\ \/ At("enter", g) /\ Unpromotable(g)
       \/ At("bind", g) /\ tx[g].intent /\ tx[g].snapshot # None
            /\ "checkpoint" \notin tx[g].bound
       \/ Climbing(g, "halt")
    /\ Exit

Promote(g) ==
    \/ EnterPromote(g) \/ WriteIntent(g) \/ WritePreviousChampion(g)
    \/ SnapshotCheckpoint(g) \/ IntentEvent(g) \/ PinPreviousChampion(g)
    \/ AcceptCandidate(g) \/ StartWorker(g) \/ MarkLaunched(g)
    \/ ReuseWorker(g) \/ RolloutEvent(g) \/ SwapChampion(g)
    \/ MarkSwap(g) \/ Activate(g) \/ AdmitData(g) \/ MarkAdmitted(g)
    \/ QueueAudit(g) \/ Complete(g) \/ PromoteReturn(g) \/ PromoteHalt(g)

-----------------------------------------------------------------------------
(* rollback(): the same shape.                                             *)

\* The generation must be in both maps of the shuffle watermark, on a replay
\* too.
Unrollable(g) ==
    \/ g \notin watermark.known \cap watermark.derived
    \/ State(g) \notin {"active", "rollback_pending"}
    \/ /\ State(g) = "active"
       /\ \/ current_generation # g
          \/ current_champion # CandOf(g)
          \/ champion_json # CandOf(g)

EnterRollback(g) ==
    /\ At("undo", g)
    /\ ~Unrollable(g)
    /\ Goto("unwind")
    /\ UNCHANGED <<registryVars, txVars, rolloutVars, feedbackVars, ready,
                   reconciled, crashes>>

\* rollback-intent.json: what exists is moved, and the checkpoint is restored
\* when the watermark says that the trainer consumed the generation.
WriteRollbackIntent(g) ==
    /\ At("unwind", g)
    /\ tx[g].rb = None
    /\ tx' = [tx EXCEPT ![g].rb =
                (IF data[g] \in {"staged", "admitted"} THEN {"data"} ELSE {})
                \cup (IF g \in shuffled THEN {"shuffle"} ELSE {})
                \cup (IF g \in watermark.consumed THEN {"checkpoint"} ELSE {})]
    /\ UNCHANGED <<registryVars, champion_json, data, rolloutVars,
                   feedbackVars, processVars>>

RollbackPendingEvent(g) ==
    /\ At("unwind", g)
    /\ tx[g].rb # None
    /\ State(g) = "active"
    /\ AdvanceGeneration(g, "rollback_pending")
    /\ UNCHANGED <<txVars, rolloutVars, feedbackVars, processVars>>

\* consumers_stop: the supervisor acknowledges the pause only while champion.json
\* names the generation that is paused.
StopConsumers(g) ==
    /\ At("unwind", g)
    /\ State(g) = "rollback_pending"
    /\ tx[g].rb # None
    /\ champion_json = CandOf(g)
    /\ tx' = [tx EXCEPT ![g].stopped = TRUE]
    /\ Goto("quarantine")
    /\ UNCHANGED <<registryVars, champion_json, data, rolloutVars,
                   feedbackVars, ready, reconciled, crashes>>

\* Mutant: the champion file is restored before the data is moved.
RollbackStep_ChampionFirst(g) ==
    FirstOf(<< <<"restore_champion", champion_json = CandOf(g)>>,
               <<"rolled_back", State(g) = "rollback_pending">>,
               <<"move_data", "data" \in tx[g].rb
                                /\ data[g] # "quarantined">>,
               <<"move_shuffle", "shuffle" \in tx[g].rb /\ g \in shuffled>>,
               <<"restore_checkpoint", "checkpoint" \in tx[g].rb
                                         /\ consumed # tx[g].base>>,
               <<"mark", ~tx[g].rolledBack>>,
               <<"return", TRUE>> >>)

RollbackStep(g) ==
    FirstOf(<< <<"move_data", "data" \in tx[g].rb
                                /\ data[g] # "quarantined">>,
               <<"move_shuffle", "shuffle" \in tx[g].rb /\ g \in shuffled>>,
               <<"restore_checkpoint", "checkpoint" \in tx[g].rb
                                         /\ consumed # tx[g].base>>,
               <<"restore_champion", champion_json = CandOf(g)>>,
               <<"halt", champion_json # generations[g].previous>>,
               <<"rolled_back", State(g) = "rollback_pending">>,
               <<"mark", ~tx[g].rolledBack>>,
               <<"return", TRUE>> >>)

Unwinding(g, step) == At("quarantine", g) /\ RollbackStep(g) = step

MoveData(g) ==
    /\ Unwinding(g, "move_data")
    /\ data' = [data EXCEPT ![g] = "quarantined"]
    /\ UNCHANGED <<registryVars, champion_json, tx, rolloutVars, feedbackVars,
                   processVars>>

MoveShuffle(g) ==
    /\ Unwinding(g, "move_shuffle")
    /\ shuffled' = shuffled \ {g}
    /\ UNCHANGED <<registryVars, txVars, rolloutVars, consumed, watermark,
                   grown, scan, processVars>>

RestoreCheckpoint(g) ==
    /\ Unwinding(g, "restore_checkpoint")
    /\ consumed' = tx[g].base
    /\ Unbind("checkpoint")
    /\ UNCHANGED <<registryVars, champion_json, data, rolloutVars, shuffled,
                   watermark, grown, scan, processVars>>

RestoreChampion(g) ==
    /\ Unwinding(g, "restore_champion")
    /\ champion_json' = tx[g].snapshot
    /\ UNCHANGED <<registryVars, tx, data, rolloutVars, feedbackVars,
                   processVars>>

RolledBackEvent(g) ==
    /\ Unwinding(g, "rolled_back")
    /\ RollBackGeneration(g)
    /\ UNCHANGED <<txVars, rolloutVars, feedbackVars, processVars>>

MarkRolledBack(g) ==
    /\ Unwinding(g, "mark")
    /\ tx' = [tx EXCEPT ![g].rolledBack = TRUE]
    /\ UNCHANGED <<registryVars, champion_json, data, rolloutVars,
                   feedbackVars, processVars>>

RollbackReturn(g) ==
    /\ Unwinding(g, "return")
    /\ Return
    /\ UNCHANGED <<registryVars, txVars, rolloutVars, feedbackVars, ready,
                   reconciled, crashes>>

RollbackHalt(g) ==
    /\ \/ At("undo", g) /\ Unrollable(g)
       \/ /\ At("unwind", g)
          /\ State(g) = "rollback_pending" /\ champion_json # CandOf(g)
       \/ Unwinding(g, "halt")
    /\ Exit

Rollback(g) ==
    \/ EnterRollback(g) \/ WriteRollbackIntent(g) \/ RollbackPendingEvent(g)
    \/ StopConsumers(g) \/ MoveData(g) \/ MoveShuffle(g)
    \/ RestoreCheckpoint(g) \/ RestoreChampion(g) \/ RolledBackEvent(g)
    \/ MarkRolledBack(g) \/ RollbackReturn(g) \/ RollbackHalt(g)

-----------------------------------------------------------------------------
(* The processes beside the controller.                                    *)

\* pause.json stops the trainer until champion.json names another generation.
Paused == \E g \in Gens : tx[g].stopped /\ champion_json = CandOf(g)

WorkerExit(g, ph) ==
    /\ workers[g][ph] = "running"
    /\ workers' = [workers EXCEPT ![g][ph] = "exited"]
    /\ UNCHANGED <<registryVars, txVars, reports, audits, feedbackVars,
                   processVars>>

\* worker_monitor, or worker_watch_once of the supervisor.
PublishAck(g, ph) ==
    /\ \/ workers[g][ph] = "exited"
       \/ workers[g][ph] = "orphaned" /\ ready /\ ~Paused
    /\ workers' = [workers EXCEPT ![g][ph] = "done"]
    /\ UNCHANGED <<registryVars, txVars, reports, audits, feedbackVars,
                   processVars>>

\* produce_rollout_report needs the acknowledgements the controller recorded.
ReportRollout(g, ph) ==
    /\ reconciled
    /\ reports[g][ph] = "none"
    /\ Upto(ph) \subseteq tx[g].acks
    /\ \E decision \in {"PASS"} \cup (IF ph \in MayFail THEN {"FAIL"} ELSE {}) :
          reports' = [reports EXCEPT ![g][ph] = decision]
    /\ UNCHANGED <<registryVars, txVars, workers, audits, feedbackVars,
                   processVars>>

DeepAudit(g) ==
    /\ reconciled
    /\ audits[g] = "queued"
    /\ \E decision \in {"out_PASS"} \cup
                       (IF "deep" \in MayFail THEN {"out_FAIL"} ELSE {}) :
          audits' = [audits EXCEPT ![g] = decision]
    /\ UNCHANGED <<registryVars, txVars, workers, reports, feedbackVars,
                   processVars>>

\* active_sync_once keeps the champion's self-play running.
GrowContinuousData ==
    /\ SelfPlay
    /\ ready /\ ~Paused
    /\ ~grown
    /\ grown' = TRUE
    /\ UNCHANGED <<registryVars, txVars, rolloutVars, shuffled, consumed,
                   watermark, scan, processVars>>

\* scan_once decides at its start whether the watermarks are frozen, and takes
\* no lock of the controller.
ScanStart ==
    /\ Watching /\ reconciled
    /\ scan = None
    /\ ~Frozen
    /\ scan' = KnownGenerations
    /\ UNCHANGED <<registryVars, txVars, rolloutVars, shuffled, consumed,
                   watermark, grown, processVars>>

ScanWrite ==
    /\ scan # None
    /\ scan' = None
    /\ IF ScanFails(scan) THEN UNCHANGED <<tx, watermark, grown>>
       ELSE WriteWatermark(scan)
    /\ UNCHANGED <<registryVars, champion_json, data, rolloutVars, shuffled,
                   consumed, processVars>>

\* The strict shuffle takes what the data watermark lists.
Shuffle(g) ==
    /\ reconciled
    /\ g \in watermark.data \ shuffled
    /\ data[g] = "admitted"
    /\ shuffled' = shuffled \cup {g}
    /\ UNCHANGED <<registryVars, txVars, rolloutVars, consumed, watermark,
                   grown, scan, processVars>>

\* The trainer saves a checkpoint, on the present shuffles or on older data.
Train ==
    /\ ready /\ ~Paused
    /\ \/ /\ ~(shuffled \subseteq consumed)
          /\ consumed' = consumed \cup shuffled
       \/ /\ Training
          /\ UNCHANGED consumed
    /\ Unbind("checkpoint")
    /\ UNCHANGED <<registryVars, champion_json, data, rolloutVars, shuffled,
                   watermark, grown, scan, processVars>>

-----------------------------------------------------------------------------

TxInit ==
    /\ Init
    /\ champion_json = None
    /\ tx = [g \in Gens |-> NoTransaction]
    /\ data = [g \in Gens |-> "none"]
    /\ workers = [g \in Gens |-> [ph \in Phase |-> "none"]]
    /\ reports = [g \in Gens |-> [canary |-> "none", intermediate |-> "none"]]
    /\ audits = [g \in Gens |-> "none"]
    /\ shuffled = {} /\ consumed = {} /\ grown = FALSE /\ scan = None
    /\ watermark = [known |-> {}, data |-> {}, derived |-> {}, consumed |-> {}]
    /\ ctl = Down
    /\ ready = FALSE /\ reconciled = FALSE
    /\ crashes = 0

\* The steps of a controller that is running.
ControllerStep ==
    \/ Reconcile \/ ReconcileHalt
    \/ StaleEvaluation \/ OrchestrateDone
    \/ \E g \in Gens :
          \/ \E ph \in Phase : IngestAck(g, ph)
          \/ \E ph \in {"canary", "intermediate"} : IngestReport(g, ph)
          \/ IngestAudit(g)
    \/ IngestHalt \/ IngestDone
    \/ TasksDone \/ SelectPromotion \/ SelectReplay
    \/ \E g \in Gens : Promote(g) \/ Rollback(g)

WorkerStep(g, ph) == WorkerExit(g, ph) \/ PublishAck(g, ph)

AuditorStep(g) ==
    \/ \E ph \in {"canary", "intermediate"} : ReportRollout(g, ph)
    \/ DeepAudit(g)

TxNext ==
    \/ BootstrapFile \/ BootstrapEvent
    \/ StartReconcile \/ StartWatch \/ Crash
    \/ ControllerStep
    \/ \E h \in Exports : EvaluateCandidate(h)
    \/ \E g \in Gens, ph \in Phase : WorkerStep(g, ph)
    \/ \E g \in Gens : AuditorStep(g) \/ Shuffle(g)
    \/ GrowContinuousData \/ ScanStart \/ ScanWrite \/ Train

TxSpec == TxInit /\ [][TxNext]_vars

\* systemd restarts the controller, the host reruns the boot service, workers
\* play a finite number of games, and the other services are always restarted.
TxFairness ==
    /\ WF_vars(ControllerStep)
    /\ WF_vars(StartWatch)
    /\ WF_vars(StartReconcile)
    /\ \A g \in Gens :
          /\ \A ph \in Phase : WF_vars(WorkerStep(g, ph))
          /\ WF_vars(AuditorStep(g))
          /\ WF_vars(Shuffle(g))
    /\ WF_vars(ScanStart)
    /\ WF_vars(ScanWrite)
    /\ WF_vars(Train)

FairTxSpec == TxSpec /\ TxFairness

-----------------------------------------------------------------------------
(* Properties.                                                             *)

WorkerState == {"none", "running", "exited", "orphaned", "done", "dead"}

Transaction ==
    [intent : BOOLEAN, bound : SUBSET {"watermark", "checkpoint"},
     snapshot : Hash \cup {None}, accepted : BOOLEAN,
     launched : SUBSET Phase, acks : SUBSET Phase,
     passes : SUBSET {"canary", "intermediate"}, cas : BOOLEAN,
     admitted : BOOLEAN, complete : BOOLEAN, base : (SUBSET Gens) \cup {None},
     rb : (SUBSET {"data", "shuffle", "checkpoint"}) \cup {None},
     stopped : BOOLEAN, rolledBack : BOOLEAN]

Steps == {"none", "reconcile", "orchestrate", "ingest", "ingest2", "ingest3",
          "task", "enter", "bind", "climb", "launch", "undo", "unwind",
          "quarantine"}

\* Every file and process of a transaction is in one of its states; the type
\* invariant of the transaction directory and of the processes.
TxTypeOK ==
    /\ TypeOK
    /\ champion_json \in Hash \cup {None}
    /\ tx \in [Gens -> Transaction]
    /\ data \in [Gens -> {"none", "staged", "admitted", "quarantined"}]
    /\ workers \in [Gens -> [Phase -> WorkerState]]
    /\ reports \in [Gens -> [{"canary", "intermediate"} ->
                                {"none", "PASS", "FAIL"}]]
    /\ audits \in [Gens -> {"none", "queued", "out_PASS", "out_FAIL", "PASS",
                            "FAIL"}]
    /\ shuffled \subseteq Gens /\ consumed \subseteq Gens
    /\ watermark \in [{"known", "data", "derived", "consumed"} -> SUBSET Gens]
    /\ scan \in (SUBSET Gens) \cup {None}
    /\ ctl.mode \in {"down", "boot", "watch"} /\ ctl.step \in Steps
    /\ ctl.seen \subseteq Phase
    /\ {grown, ready, reconciled, ctl.again} \subseteq BOOLEAN
    /\ crashes \in 0 .. MaxCrashes

\* champion.json and the registry name different champions only between the
\* compare-and-swap of a generation in rollout and its ACTIVE event, or between
\* the restored file of a pending rollback and its ROLLED_BACK event.
ProjectionWindow ==
    current_champion # None /\ champion_json # current_champion =>
       \E g \in Gens :
          LET ends == <<generations[g].previous, CandOf(g)>> IN
          \/ /\ State(g) = "rollout"
             /\ <<current_champion, champion_json>> = ends
          \/ /\ State(g) = "rollback_pending"
             /\ <<champion_json, current_champion>> = ends

\* A candidate becomes the champion of the file or of the registry only with the
\* recorded acknowledgement of every worker and both health reports, and no
\* rollout report against it; promote()'s ladder read with _ingest_rollout_ipc.
RolloutEvidence ==
    \A g \in Gens :
       \/ champion_json = CandOf(g)
       \/ State(g) \in {"active", "rollback_pending", "rolled_back"}
       => /\ tx[g].acks = Phase
          /\ \A ph \in {"canary", "intermediate"} : reports[g][ph] = "PASS"

\* Admitted data, shuffles and trainer checkpoints hold only generations that
\* were activated and are not rolled back; _commit_generation_data after the
\* ACTIVE event, and rollback() before the ROLLED_BACK event.
DataFollowsRegistry ==
    \A g \in Gens :
       data[g] = "admitted" \/ g \in shuffled \cup consumed
         => State(g) \in {"active", "rollback_pending"}

\* The champion file that a rollback would write back is the champion that the
\* registry's event restores, however often promote() was called again.
SnapshotIsPrevious ==
    \A g \in Gens :
       tx[g].snapshot # None /\ State(g) # "absent"
         => tx[g].snapshot = generations[g].previous

\* At most one generation is between its intent and its activation:
\* _orchestrate_active_queue allows a champion one confirmation attempt.
OneRollout ==
    \A g1, g2 \in Gens :
       {State(g1), State(g2)} \subseteq {"promotion_intent", "canary",
                                         "rollout"} => g1 = g2

\* No watch pass begins over an unfinished rollback: run_reconcile has replayed
\* it before the services that depend on it start.
WatchSeesNoRollback ==
    ctl.mode = "watch" => \A g \in Gens : State(g) # "rollback_pending"

Resolved(g) == tx[g].complete \/ State(g) \in {"quarantined", "rolled_back"}

\* A promotion that has an intent completes, is quarantined or is rolled back.
PromotionResolves == \A g \in Gens : tx[g].intent ~> Resolved(g)

\* A confirmed candidate is promoted or withdrawn: the plan has the controller
\* "promote passing models into self-play", _advance_confirmed_promotions.
ConfirmedResolves ==
    \A g \in Gens : candidates[CandOf(g)].state = "confirmed" ~> Resolved(g)

\* A rollback that was started is finished, whatever was killed meanwhile:
\* rollback() is to be safe to replay.
RollbackCompletes ==
    \A g \in Gens : State(g) = "rollback_pending" ~> State(g) = "rolled_back"

\* A recorded deep-audit failure of the current generation leads to its
\* rollback.
AuditFailureRollsBack ==
    \A g \in Gens :
       audits[g] = "FAIL" /\ State(g) = "active" /\ current_generation = g
         ~> State(g) \in {"rollback_pending", "rolled_back"}

\* After a rollback no shuffle and no trainer checkpoint derives from the
\* generation: what rollback() quarantines and restores.
RolledBackIsClean ==
    \A g \in Gens : State(g) = "rolled_back" => g \notin shuffled \cup consumed
=============================================================================
