------------------------- MODULE PromotionRegistry -------------------------
(***************************************************************************)
(* The promotion event registry, python/risk_score/promotion_state.py.     *)
(*                                                                         *)
(* The program keeps a hash-chained log of events and rebuilds its state   *)
(* by replaying the log through _RegistryBuilder.  This module models that *)
(* rebuilt state: each action is the effect of one accepted event.  An     *)
(* event the builder refuses, and a retry that finds its event already     *)
(* recorded, leave the state alone and are stuttering steps here.          *)
(*                                                                         *)
(* A model file is its SHA-256, a member of Hash.  A candidate's metadata  *)
(* that no guard reads (parent champion, provenance, timestamps) is left   *)
(* out; so is restore_champion_hash, which the builder only ever sets to   *)
(* the generation's previous champion.                                     *)
(***************************************************************************)
EXTENDS Naturals

CONSTANTS
    Hash,          \* content hashes of model files
    Path,          \* directories a candidate may be recorded at
    EvalKey,       \* evaluation keys
    GenId,         \* generation identifiers
    PinId,         \* reference pin identifiers
    Exports,       \* the hashes the exporter may put into the inbox
    Original,      \* the immutable original model
    None           \* Python's None

ASSUME RegistryConstants ==
    /\ Exports \subseteq Hash
    /\ Original \in Hash
    /\ None \notin Hash \cup Path \cup EvalKey \cup GenId \cup PinId

VARIABLES
    candidates,          \* RegistryState.candidates, "absent" when unknown
    generations,         \* RegistryState.generations, "absent" when unknown
    pins,                \* RegistryState.pins: the hash a pin protects
    seen_pin_ids,        \* identifiers any pin ever used
    path_to_hash,        \* the one hash a path was ever recorded with
    current_champion,    \* current_champion_hash
    current_generation,  \* current_generation_id
    activations          \* how many generations were activated so far

registryVars == <<candidates, generations, pins, seen_pin_ids, path_to_hash,
                  current_champion, current_generation, activations>>

-----------------------------------------------------------------------------
(* States and legal transitions.                                           *)

EvaluatingStates == {"evaluating_integrity", "evaluating_screen",
                     "evaluating_finalist", "evaluating_confirmation"}

CandidateState == EvaluatingStates \cup
    {"discovered", "claimed", "superseded", "rejected", "quarantined",
     "confirmed"}

GenerationState == {"promotion_intent", "canary", "rollout", "active",
                    "rollback_pending", "rolled_back", "quarantined"}

LegalCandidateTransitions ==
    {<<"discovered", t>> : t \in {"claimed", "superseded", "quarantined"}}
    \cup
    {<<"claimed", t>> :
        t \in {"superseded", "evaluating_integrity", "quarantined"}}
    \cup
    {<<"evaluating_integrity", t>> :
        t \in {"evaluating_screen", "superseded", "rejected", "quarantined"}}
    \cup
    {<<"evaluating_screen", t>> :
        t \in {"evaluating_finalist", "superseded", "rejected", "quarantined"}}
    \cup
    {<<"evaluating_finalist", t>> :
        t \in {"evaluating_confirmation", "superseded", "rejected",
               "quarantined"}}
    \cup
    {<<"evaluating_confirmation", t>> :
        t \in {"evaluating_confirmation", "confirmed", "rejected",
               "quarantined"}}

LegalGenerationTransitions ==
    {<<"promotion_intent", t>> :
        t \in {"canary", "rollback_pending", "quarantined"}}
    \cup
    {<<"canary", t>> : t \in {"rollout", "rollback_pending", "quarantined"}}
    \cup
    {<<"rollout", t>> : t \in {"active", "rollback_pending", "quarantined"}}
    \cup
    {<<"active", "rollback_pending">>}
    \cup
    {<<"rollback_pending", t>> : t \in {"rolled_back", "quarantined"}}

CandidateRecord ==
    [state  : CandidateState \cup {"absent"},
     path   : Path \cup {None},
     tested : Hash \cup {None},      \* tested_champion_hash
     key    : EvalKey \cup {None},   \* evaluation_key
     gen    : GenId \cup {None}]     \* generation_id

GenerationRecord ==
    [state     : GenerationState \cup {"absent"},
     candidate : Hash \cup {None},
     path      : Path \cup {None},
     previous  : Hash \cup {None},   \* previous_champion_hash
     rank      : Nat]                \* order of activation

NoCandidate == [state |-> "absent", path |-> None, tested |-> None,
                key |-> None, gen |-> None]

NoGeneration == [state |-> "absent", candidate |-> None, path |-> None,
                 previous |-> None, rank |-> 0]

-----------------------------------------------------------------------------
(* Retention.                                                              *)

ProtectedCandidate(h) ==
    LET c == candidates[h] IN
    \/ c.state \in EvaluatingStates \cup
                     {"discovered", "claimed", "quarantined"}
    \/ c.state = "confirmed" /\ c.gen = None

\* Mutant: a pending rollback no longer protects its two models.
LiveGeneration_ForgetsRollback(g) ==
    /\ generations[g].state
          \in GenerationState \ {"rolled_back", "rollback_pending"}
    /\ generations[g].state = "active" => g = current_generation

\* A generation that protects its candidate and its rollback champion.  An
\* active generation that is no longer the current one protects neither.
LiveGeneration(g) ==
    /\ generations[g].state \in GenerationState \ {"rolled_back"}
    /\ generations[g].state = "active" => g = current_generation

\* not can_delete(h)
Retained(h) ==
    \/ h = Original
    \/ h = current_champion
    \/ ProtectedCandidate(h)
    \/ \E g \in GenId :
          LiveGeneration(g)
            /\ h \in {generations[g].candidate, generations[g].previous}
    \/ \E pin \in PinId : pins[pin] = h

-----------------------------------------------------------------------------
(* Initial state and the effect of each event.                             *)

Init ==
    /\ candidates = [h \in Hash |-> NoCandidate]
    /\ generations = [g \in GenId |-> NoGeneration]
    /\ pins = [pin \in PinId |-> None]
    /\ seen_pin_ids = {}
    /\ path_to_hash = [p \in Path |-> None]
    /\ current_champion = None
    /\ current_generation = None
    /\ activations = 0

BootstrapChampion(h, g) ==
    /\ current_champion = None
    /\ current_champion' = h
    /\ current_generation' = g
    /\ activations' = 1
    /\ generations' = [generations EXCEPT ![g] =
                         [state |-> "active", candidate |-> h, path |-> None,
                          previous |-> None, rank |-> 1]]
    /\ UNCHANGED <<candidates, pins, seen_pin_ids, path_to_hash>>

\* Mutants: the recorded hash of a path is not compared; the wrong value is
\* stored.
RecordPath_NoCheck(h, p) ==
    path_to_hash' = [path_to_hash EXCEPT ![p] = h]

RecordPath_StoresPath(h, p) ==
    /\ path_to_hash[p] \in {None, h}
    /\ path_to_hash' = [path_to_hash EXCEPT ![p] = p]

\* _validate_candidate_identity for a caller that names the recorded path as
\* previous_candidate_path, as transition_candidate always does.
RecordPath(h, p) ==
    /\ path_to_hash[p] \in {None, h}
    /\ path_to_hash' = [path_to_hash EXCEPT ![p] = h]

DiscoverCandidate(h, p) ==
    /\ current_champion # None
    /\ candidates[h].state = "absent"
    /\ RecordPath(h, p)
    /\ candidates' = [candidates EXCEPT ![h] =
                        [NoCandidate EXCEPT !.state = "discovered",
                                            !.path = p]]
    /\ UNCHANGED <<generations, pins, seen_pin_ids, current_champion,
                   current_generation, activations>>

\* candidate.evaluating_*: a second entry into confirmation with the recorded
\* key is a retry, with another key it is the second look.
StartEvaluation(h, p, target, k) ==
    /\ current_champion # None
    /\ target \in EvaluatingStates
    /\ <<candidates[h].state, target>> \in LegalCandidateTransitions
    /\ candidates[h].state = target => candidates[h].key # k
    /\ RecordPath(h, p)
    /\ candidates' = [candidates EXCEPT
                        ![h] = [@ EXCEPT !.state = target, !.path = p,
                                         !.tested = current_champion,
                                         !.key = k]]
    /\ UNCHANGED <<generations, pins, seen_pin_ids, current_champion,
                   current_generation, activations>>

ConfirmCandidate(h, p, k) ==
    /\ current_champion # None
    /\ <<candidates[h].state, "confirmed">> \in LegalCandidateTransitions
    /\ k = candidates[h].key
    /\ current_champion = candidates[h].tested
    /\ RecordPath(h, p)
    /\ candidates' = [candidates EXCEPT
                        ![h] = [@ EXCEPT !.state = "confirmed", !.path = p]]
    /\ UNCHANGED <<generations, pins, seen_pin_ids, current_champion,
                   current_generation, activations>>

\* candidate.claimed, .superseded, .rejected and .quarantined: the evaluation
\* key is optional in these events and never changes.
MoveCandidate(h, p, target) ==
    /\ current_champion # None
    /\ target \in CandidateState \ (EvaluatingStates \cup {"confirmed"})
    /\ <<candidates[h].state, target>> \in LegalCandidateTransitions
    /\ RecordPath(h, p)
    /\ candidates' = [candidates EXCEPT
                        ![h] = [@ EXCEPT !.state = target, !.path = p]]
    /\ UNCHANGED <<generations, pins, seen_pin_ids, current_champion,
                   current_generation, activations>>

\* Mutant: a candidate that has a generation may get a second one.
PromotionIntent_Reassigns(g, h, p, k) ==
    /\ current_champion # None
    /\ candidates[h].state = "confirmed"
    /\ generations[g].state = "absent"
    /\ candidates[h].tested = current_champion
    /\ candidates[h].key = k
    /\ RecordPath(h, p)
    /\ generations' = [generations EXCEPT ![g] =
                         [state |-> "promotion_intent", candidate |-> h,
                          path |-> p, previous |-> current_champion,
                          rank |-> 0]]
    /\ candidates' = [candidates EXCEPT
                        ![h] = [@ EXCEPT !.path = p, !.gen = g]]
    /\ UNCHANGED <<pins, seen_pin_ids, current_champion, current_generation,
                   activations>>

PromotionIntent(g, h, p, k) ==
    /\ current_champion # None
    /\ candidates[h].state = "confirmed"
    /\ generations[g].state = "absent"
    /\ candidates[h].gen = None
    /\ candidates[h].tested = current_champion
    /\ candidates[h].key = k
    /\ RecordPath(h, p)
    /\ generations' = [generations EXCEPT ![g] =
                         [state |-> "promotion_intent", candidate |-> h,
                          path |-> p, previous |-> current_champion,
                          rank |-> 0]]
    /\ candidates' = [candidates EXCEPT
                        ![h] = [@ EXCEPT !.path = p, !.gen = g]]
    /\ UNCHANGED <<pins, seen_pin_ids, current_champion, current_generation,
                   activations>>

\* What every later event of a generation needs: the bootstrap generation has
\* no previous champion to name, and the candidate must still be where the
\* intent recorded it, because only an intent may move it.
GenerationStep(g, target) ==
    /\ current_champion # None
    /\ <<generations[g].state, target>> \in LegalGenerationTransitions
    /\ generations[g].previous # None
    /\ candidates[generations[g].candidate].path = generations[g].path
    /\ path_to_hash[generations[g].path] \in {None, generations[g].candidate}
    /\ path_to_hash' = [path_to_hash EXCEPT ![generations[g].path] =
                          generations[g].candidate]

AdvanceGeneration(g, target) ==
    /\ target \notin {"active", "rolled_back"}
    /\ GenerationStep(g, target)
    /\ generations' = [generations EXCEPT ![g].state = target]
    /\ UNCHANGED <<candidates, pins, seen_pin_ids, current_champion,
                   current_generation, activations>>

\* Mutant: activation does not compare the champion with the tested one.
ActivateGeneration_NoCompare(g) ==
    /\ GenerationStep(g, "active")
    /\ current_champion' = generations[g].candidate
    /\ current_generation' = g
    /\ activations' = activations + 1
    /\ generations' = [generations EXCEPT
                         ![g] = [@ EXCEPT !.state = "active",
                                          !.rank = activations + 1]]
    /\ UNCHANGED <<candidates, pins, seen_pin_ids>>

ActivateGeneration(g) ==
    /\ GenerationStep(g, "active")
    /\ current_champion = generations[g].previous
    /\ current_champion' = generations[g].candidate
    /\ current_generation' = g
    /\ activations' = activations + 1
    /\ generations' = [generations EXCEPT
                         ![g] = [@ EXCEPT !.state = "active",
                                          !.rank = activations + 1]]
    /\ UNCHANGED <<candidates, pins, seen_pin_ids>>

\* _active_generation_for: the last of the generations that made h active.
ActiveGenerationsOf(h) ==
    {g \in GenId : generations[g].state = "active"
                     /\ generations[g].candidate = h}

ActiveGenerationFor(h) ==
    IF ActiveGenerationsOf(h) = {} THEN None
    ELSE CHOOSE g \in ActiveGenerationsOf(h) :
           \A o \in ActiveGenerationsOf(h) :
              generations[o].rank <= generations[g].rank

\* Mutants: a rollback over an unrelated champion is accepted; the current
\* generation is not recomputed.
RollBackGeneration_Unrelated(g) ==
    /\ GenerationStep(g, "rolled_back")
    /\ current_champion' = generations[g].previous
    /\ current_generation' = ActiveGenerationFor(generations[g].previous)
    /\ generations' = [generations EXCEPT ![g].state = "rolled_back"]
    /\ UNCHANGED <<candidates, pins, seen_pin_ids, activations>>

RollBackGeneration_KeepsCurrent(g) ==
    /\ GenerationStep(g, "rolled_back")
    /\ current_champion \in {generations[g].candidate, generations[g].previous}
    /\ current_champion' = generations[g].previous
    /\ generations' = [generations EXCEPT ![g].state = "rolled_back"]
    /\ UNCHANGED <<candidates, pins, seen_pin_ids, current_generation,
                   activations>>

RollBackGeneration(g) ==
    /\ GenerationStep(g, "rolled_back")
    /\ current_champion \in {generations[g].candidate, generations[g].previous}
    /\ current_champion' = generations[g].previous
    /\ current_generation' = ActiveGenerationFor(generations[g].previous)
    /\ generations' = [generations EXCEPT ![g].state = "rolled_back"]
    /\ UNCHANGED <<candidates, pins, seen_pin_ids, activations>>

\* Mutant: only an active pin blocks the identifier.
PinReference_Reuses(pin, h) ==
    /\ current_champion # None
    /\ pins[pin] = None
    /\ seen_pin_ids' = seen_pin_ids \cup {pin}
    /\ pins' = [pins EXCEPT ![pin] = h]
    /\ UNCHANGED <<candidates, generations, path_to_hash, current_champion,
                   current_generation, activations>>

PinReference(pin, h) ==
    /\ current_champion # None
    /\ pin \notin seen_pin_ids
    /\ seen_pin_ids' = seen_pin_ids \cup {pin}
    /\ pins' = [pins EXCEPT ![pin] = h]
    /\ UNCHANGED <<candidates, generations, path_to_hash, current_champion,
                   current_generation, activations>>

UnpinReference(pin) ==
    /\ current_champion # None
    /\ pins[pin] # None
    /\ pins' = [pins EXCEPT ![pin] = None]
    /\ UNCHANGED <<candidates, generations, seen_pin_ids, path_to_hash,
                   current_champion, current_generation, activations>>

-----------------------------------------------------------------------------

CandidateNext ==
    \E h \in Exports, p \in Path :
       \/ DiscoverCandidate(h, p)
       \/ \E target \in CandidateState, k \in EvalKey :
             StartEvaluation(h, p, target, k)
       \/ \E k \in EvalKey : ConfirmCandidate(h, p, k)
       \/ \E target \in CandidateState : MoveCandidate(h, p, target)

GenerationNext ==
    \E g \in GenId :
       \/ \E h \in Exports, p \in Path, k \in EvalKey :
             PromotionIntent(g, h, p, k)
       \/ \E target \in GenerationState : AdvanceGeneration(g, target)
       \/ ActivateGeneration(g)
       \/ RollBackGeneration(g)

PinNext ==
    \E pin \in PinId :
       \/ \E h \in Hash : PinReference(pin, h)
       \/ UnpinReference(pin)

Next ==
    \/ \E h \in Hash, g \in GenId : BootstrapChampion(h, g)
    \/ CandidateNext
    \/ GenerationNext
    \/ PinNext

Spec == Init /\ [][Next]_registryVars

-----------------------------------------------------------------------------
(* Properties.                                                             *)

\* Every registry field holds a value of its kind; the type invariant of
\* RegistryState and its records.
TypeOK ==
    /\ candidates \in [Hash -> CandidateRecord]
    /\ generations \in [GenId -> GenerationRecord]
    /\ pins \in [PinId -> Hash \cup {None}]
    /\ seen_pin_ids \subseteq PinId
    /\ path_to_hash \in [Path -> Hash \cup {None}]
    /\ current_champion \in Hash \cup {None}
    /\ current_generation \in GenId \cup {None}
    /\ activations \in Nat

\* A generation created by a promotion intent and the candidate it promotes
\* name each other for good: the candidate is confirmed, was tested against
\* the generation's previous champion, and lies where the intent put it.  So
\* one candidate never serves two generations, and no later event of a
\* generation can be refused because its candidate moved.
GenerationBinding ==
    \A g \in GenId :
       generations[g].previous # None =>
          LET c == candidates[generations[g].candidate] IN
          /\ c.state = "confirmed"
          /\ c.gen = g
          /\ c.tested = generations[g].previous
          /\ c.path = generations[g].path
          /\ path_to_hash[c.path] = generations[g].candidate

\* current_generation_id and current_champion_hash, which two different
\* branches of _apply_generation assign, never drift apart: the current
\* generation is one that made the champion active and was not rolled back,
\* and the registry has no current generation only when no active one is left
\* for the champion.
CurrentGenerationMatchesChampion ==
    /\ current_generation # None =>
          /\ generations[current_generation].candidate = current_champion
          /\ generations[current_generation].state
                \in {"active", "rollback_pending", "quarantined"}
    /\ current_generation = None /\ current_champion # None =>
          ActiveGenerationsOf(current_champion) = {}

\* Two candidates are never recorded at one path, whatever moves they made.
DistinctPaths ==
    \A h1, h2 \in Hash :
       /\ candidates[h1].state # "absent"
       /\ candidates[h2].state # "absent"
       /\ candidates[h1].path = candidates[h2].path
       => h1 = h2

\* A model that was rolled back never serves as champion again.  The claim is
\* about registries in which the bootstrap champion's own hash was not
\* exported as a candidate: such a candidate may get a generation of its own.
NoRolledBackChampion ==
    (\A g \in GenId :
        generations[g].state # "absent" /\ generations[g].previous = None =>
           candidates[generations[g].candidate].state = "absent")
    => \A g \in GenId :
          generations[g].state = "rolled_back" =>
             generations[g].candidate # current_champion

\* "a promotion uses the champion SHA that the evaluation actually tested":
\* the champion changes only to a confirmed candidate tested against the
\* champion it replaces, or back to a champion that some generation, rolled
\* back by this very step, had replaced.
ChampionChange(g) ==
    LET c == candidates[generations[g].candidate] IN
    /\ generations[g].previous # None
    /\ c.state = "confirmed" /\ c.gen = g
    /\ \/ /\ generations[g].state = "rollout"
          /\ generations'[g].state = "active"
          /\ generations[g].candidate = current_champion'
          /\ c.tested = current_champion
       \/ /\ generations[g].state = "rollback_pending"
          /\ generations'[g].state = "rolled_back"
          /\ generations[g].candidate = current_champion
          /\ c.tested = current_champion'

TestedPromotion ==
    [][current_champion # None /\ current_champion' # current_champion
         => \E g \in GenId : ChampionChange(g)]_registryVars

\* A model that becomes champion, by activation or by rollback, was protected
\* from deletion just before: its files cannot have been removed.
SwapTargetRetained ==
    [][current_champion # None /\ current_champion' # current_champion
         => Retained(current_champion')]_registryVars

\* A pin that was released stays released: pin identifiers are used once, so
\* a late retry of pin_reference cannot protect or unprotect anything.
PinNotResurrected ==
    [][\A pin \in seen_pin_ids :
          pins'[pin] \in {pins[pin], None}]_registryVars

=============================================================================
