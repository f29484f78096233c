---------------------- MODULE PromotionRegistryProofs ----------------------
(***************************************************************************)
(* Proofs about PromotionRegistry, for every set of hashes, paths, keys,   *)
(* generations and pins.                                                   *)
(***************************************************************************)
EXTENDS PromotionRegistry, TLAPS

-----------------------------------------------------------------------------
(* The inductive invariant.                                                *)

\* A known candidate is recorded at a path that belongs to it.
CandidatePaths ==
    \A h \in Hash :
       candidates[h].state # "absent" =>
          /\ candidates[h].path \in Path
          /\ path_to_hash[candidates[h].path] = h

\* Only a confirmed candidate has a generation.
GenerationOfConfirmed ==
    \A h \in Hash : candidates[h].gen # None => candidates[h].state = "confirmed"

\* A generation with a previous champion is a promotion of a known hash.
PromotedGenerations ==
    \A g \in GenId :
       /\ generations[g].previous # None =>
             generations[g].candidate \in Hash /\ generations[g].state # "absent"
       /\ generations[g].state # "absent" => generations[g].candidate \in Hash

\* Before the bootstrap there is nothing at all.
NothingBeforeBootstrap ==
    current_champion = None =>
       /\ current_generation = None
       /\ \A h \in Hash : candidates[h].state = "absent"
       /\ \A g \in GenId : generations[g].state = "absent"

\* Only the bootstrap generation has no previous champion.
OneBootstrap ==
    \A g1, g2 \in GenId :
       /\ generations[g1].state # "absent" /\ generations[g1].previous = None
       /\ generations[g2].state # "absent" /\ generations[g2].previous = None
       => g1 = g2

IInv ==
    /\ TypeOK
    /\ OneBootstrap
    /\ CandidatePaths
    /\ GenerationOfConfirmed
    /\ PromotedGenerations
    /\ NothingBeforeBootstrap
    /\ GenerationBinding
    /\ CurrentGenerationMatchesChampion

-----------------------------------------------------------------------------
(* Facts about the operators.                                              *)

\* A confirmed candidate makes no further transition.
LEMMA ConfirmedIsTerminal ==
    ASSUME NEW t
    PROVE  <<"confirmed", t>> \notin LegalCandidateTransitions
BY DEF LegalCandidateTransitions

\* An unknown candidate makes no transition but its discovery.
LEMMA AbsentCandidateIsStuck ==
    ASSUME NEW t
    PROVE  <<"absent", t>> \notin LegalCandidateTransitions
BY DEF LegalCandidateTransitions

\* The candidate states are where the transition relation says.
LEMMA LegalCandidateTypes ==
    ASSUME NEW s, NEW t, <<s, t>> \in LegalCandidateTransitions
    PROVE  s \in CandidateState /\ t \in CandidateState
BY DEF LegalCandidateTransitions, CandidateState, EvaluatingStates

\* A generation starts a transition from a known state and ends in one.
LEMMA LegalGenerationTypes ==
    ASSUME NEW s, NEW t, <<s, t>> \in LegalGenerationTransitions
    PROVE  /\ s \in GenerationState \ {"rolled_back", "quarantined"}
           /\ t \in GenerationState \ {"promotion_intent"}
           /\ t = "active" => s = "rollout"
           /\ t = "rolled_back" => s = "rollback_pending"
           /\ s = "active" => t = "rollback_pending"
           /\ s = "rollback_pending" => t \in {"rolled_back", "quarantined"}
BY DEF LegalGenerationTransitions, GenerationState
\* _active_generation_for: at most two generations made one model active, the
\* bootstrap and the candidate's own, so a last one exists whenever there is
\* one, and None is returned only when there is none.
LEMMA ActiveGenerationForSpec ==
    ASSUME IInv, NEW h \in Hash
    PROVE  \/ ActiveGenerationFor(h) = None /\ ActiveGenerationsOf(h) = {}
           \/ ActiveGenerationFor(h) \in ActiveGenerationsOf(h)
  <1> DEFINE S == ActiveGenerationsOf(h)
             Last(g) == \A o \in S : generations[o].rank <= generations[g].rank
  <1>1. CASE S = {}
    BY <1>1 DEF ActiveGenerationFor
  <1>2. CASE S # {}
    <2>1. ActiveGenerationFor(h) = CHOOSE g \in S : Last(g)
      BY <1>2 DEF ActiveGenerationFor
    <2>2. \A g \in S : g \in GenId /\ generations[g].rank \in Nat
      BY DEF ActiveGenerationsOf, IInv, TypeOK, GenerationRecord
    <2>3. \A g \in S : generations[g].previous = None \/ g = candidates[h].gen
      BY DEF ActiveGenerationsOf, IInv, GenerationBinding
    <2>4. \A g1, g2 \in S : generations[g1].previous = None
                              /\ generations[g2].previous = None => g1 = g2
      BY <2>2 DEF ActiveGenerationsOf, IInv, OneBootstrap
    <2>5. \E g \in S : Last(g)
      <3>1. PICK a \in S : TRUE
        BY <1>2
      <3>2. CASE \A o \in S : generations[o].rank <= generations[a].rank
        BY <3>2
      <3>3. CASE \E o \in S : ~(generations[o].rank <= generations[a].rank)
        <4>1. PICK b \in S : ~(generations[b].rank <= generations[a].rank)
          BY <3>3
        <4>2. generations[a].rank <= generations[b].rank /\ a # b
          BY <2>2, <4>1
        <4>3. \A o \in S : o = a \/ o = b
          BY <2>3, <2>4, <4>2
        <4>4. Last(b)
          BY <2>2, <4>2, <4>3
        <4> QED
          BY <4>4
      <3> QED
        BY <3>2, <3>3
    <2> HIDE DEF S, Last
    <2>6. (CHOOSE g \in S : Last(g)) \in S
      BY <2>5
    <2> QED
      BY <2>1, <2>6 DEF S
  <1> QED
    BY <1>1, <1>2

-----------------------------------------------------------------------------
(* The invariant is inductive: one lemma per action.                       *)

\* Nothing exists in the initial state.
LEMMA InitIInv ==
    ASSUME Init
    PROVE  IInv
  <1>1. TypeOK
    BY DEF Init, TypeOK, CandidateRecord, GenerationRecord, NoCandidate,
           NoGeneration
  <1>2. CandidatePaths /\ GenerationOfConfirmed
    BY DEF Init, CandidatePaths, GenerationOfConfirmed, NoCandidate
  <1>3. PromotedGenerations /\ NothingBeforeBootstrap /\ OneBootstrap
    BY DEF Init, PromotedGenerations, NothingBeforeBootstrap, OneBootstrap,
           NoCandidate, NoGeneration
  <1>4. GenerationBinding
    BY DEF Init, GenerationBinding, NoGeneration
  <1>5. CurrentGenerationMatchesChampion
    BY DEF Init, CurrentGenerationMatchesChampion
  <1> QED
    BY <1>1, <1>2, <1>3, <1>4, <1>5 DEF IInv

\* Bootstrapping creates the one generation without a previous champion.
LEMMA BootstrapIInv ==
    ASSUME IInv, NEW h \in Hash, NEW g \in GenId, BootstrapChampion(h, g)
    PROVE  IInv'
  <1> USE RegistryConstants
  <1>1. TypeOK'
    BY DEF IInv, TypeOK, BootstrapChampion, CandidateRecord, GenerationRecord,
           GenerationState
  <1>2. CandidatePaths' /\ GenerationOfConfirmed'
    BY DEF IInv, BootstrapChampion, CandidatePaths, GenerationOfConfirmed
  <1>3. \A o \in GenId : generations[o].state = "absent"
                           /\ generations[o].previous = None
    BY DEF IInv, BootstrapChampion, NothingBeforeBootstrap, PromotedGenerations
  <1>4. /\ \A o \in GenId \ {g} : generations'[o] = generations[o]
        /\ generations'[g] = [state |-> "active", candidate |-> h,
                              path |-> None, previous |-> None, rank |-> 1]
    BY DEF IInv, TypeOK, BootstrapChampion
  <1>5. PromotedGenerations' /\ OneBootstrap' /\ GenerationBinding'
    BY <1>3, <1>4 DEF PromotedGenerations, OneBootstrap, GenerationBinding
  <1>6. NothingBeforeBootstrap'
    BY DEF BootstrapChampion, NothingBeforeBootstrap
  <1>7. CurrentGenerationMatchesChampion'
    BY <1>4 DEF BootstrapChampion, CurrentGenerationMatchesChampion
  <1> QED
    BY <1>1, <1>2, <1>5, <1>6, <1>7 DEF IInv

\* A step that changes one candidate, which has no generation and is not
\* confirmed, and records its path.
LEMMA CandidateStepIInv ==
    ASSUME IInv, NEW h \in Hash, NEW p \in Path, NEW c \in CandidateRecord,
           current_champion # None,
           candidates[h].state # "confirmed",
           c.state # "absent", c.path = p, c.gen = candidates[h].gen,
           RecordPath(h, p),
           candidates' = [candidates EXCEPT ![h] = c],
           UNCHANGED <<generations, pins, seen_pin_ids, current_champion,
                       current_generation, activations>>
    PROVE  IInv'
  <1> USE RegistryConstants
  <1>1. TypeOK'
    BY DEF IInv, TypeOK, RecordPath
  <1>2. /\ \A o \in Hash \ {h} : candidates'[o] = candidates[o]
        /\ candidates'[h] = c
    BY DEF IInv, TypeOK
  <1>3. /\ \A q \in Path \ {p} : path_to_hash'[q] = path_to_hash[q]
        /\ path_to_hash'[p] = h
        /\ path_to_hash[p] \in {None, h}
    BY DEF IInv, TypeOK, RecordPath
  <1>4. CandidatePaths'
    BY <1>2, <1>3 DEF IInv, CandidatePaths
  <1>5. GenerationOfConfirmed'
    BY <1>2 DEF IInv, GenerationOfConfirmed
  <1>6. PromotedGenerations' /\ OneBootstrap' /\ NothingBeforeBootstrap'
    BY DEF IInv, PromotedGenerations, OneBootstrap, NothingBeforeBootstrap
  <1>7. GenerationBinding'
    <2> SUFFICES ASSUME NEW g \in GenId, generations[g].previous # None
                 PROVE  LET d == candidates'[generations[g].candidate] IN
                        /\ d.state = "confirmed" /\ d.gen = g
                        /\ d.tested = generations[g].previous
                        /\ d.path = generations[g].path
                        /\ path_to_hash'[d.path] = generations[g].candidate
      BY DEF GenerationBinding
    <2> DEFINE o == generations[g].candidate
    <2>1. /\ o \in Hash
          /\ candidates[o].state = "confirmed" /\ candidates[o].gen = g
          /\ candidates[o].tested = generations[g].previous
          /\ candidates[o].path = generations[g].path
          /\ path_to_hash[candidates[o].path] = o
      BY DEF IInv, GenerationBinding, PromotedGenerations
    <2>2. o # h /\ candidates'[o] = candidates[o]
      BY <1>2, <2>1
    <2>3. candidates[o].path \in Path /\ candidates[o].path # p
      BY <1>3, <2>1, <2>2 DEF IInv, CandidatePaths
    <2> QED
      BY <1>3, <2>1, <2>2, <2>3
  <1>8. CurrentGenerationMatchesChampion'
    BY DEF IInv, CurrentGenerationMatchesChampion, ActiveGenerationsOf
  <1> QED
    BY <1>1, <1>4, <1>5, <1>6, <1>7, <1>8 DEF IInv

\* The four kinds of candidate event.
LEMMA CandidateNextIInv ==
    ASSUME IInv, CandidateNext
    PROVE  IInv'
  <1> USE RegistryConstants
  <1>1. PICK h \in Hash, p \in Path :
          \/ DiscoverCandidate(h, p)
          \/ \E target \in CandidateState, k \in EvalKey :
                StartEvaluation(h, p, target, k)
          \/ \E k \in EvalKey : ConfirmCandidate(h, p, k)
          \/ \E target \in CandidateState : MoveCandidate(h, p, target)
    BY DEF CandidateNext
  <1>2. candidates[h] \in CandidateRecord
    BY DEF IInv, TypeOK
  <1>3. CASE DiscoverCandidate(h, p)
    <2> DEFINE c == [NoCandidate EXCEPT !.state = "discovered", !.path = p]
    <2>1. c \in CandidateRecord /\ c.state = "discovered" /\ c.path = p
            /\ c.gen = None
      BY DEF CandidateRecord, NoCandidate, CandidateState
    <2>2. candidates[h].gen = None
      BY <1>2, <1>3 DEF IInv, GenerationOfConfirmed, DiscoverCandidate
    <2> QED
      BY <1>3, <2>1, <2>2, CandidateStepIInv DEF DiscoverCandidate
  <1>4. ASSUME NEW target \in CandidateState, NEW k \in EvalKey,
               StartEvaluation(h, p, target, k)
        PROVE  IInv'
    <2> DEFINE c == [candidates[h] EXCEPT !.state = target, !.path = p,
                       !.tested = current_champion, !.key = k]
    <2>1. c \in CandidateRecord /\ c.state = target /\ c.path = p
            /\ c.gen = candidates[h].gen
      BY <1>2, <1>4 DEF CandidateRecord, IInv, TypeOK
    <2>2. candidates[h].state # "confirmed" /\ target # "absent"
      BY <1>4, ConfirmedIsTerminal DEF StartEvaluation, EvaluatingStates
    <2>3. candidates' = [candidates EXCEPT ![h] = c]
      BY <1>4 DEF StartEvaluation
    <2> HIDE DEF c
    <2> QED
      BY <1>4, <2>1, <2>2, <2>3, CandidateStepIInv DEF StartEvaluation
  <1>5. ASSUME NEW k \in EvalKey, ConfirmCandidate(h, p, k)
        PROVE  IInv'
    <2> DEFINE c == [candidates[h] EXCEPT !.state = "confirmed", !.path = p]
    <2>1. c \in CandidateRecord /\ c.state = "confirmed" /\ c.path = p
            /\ c.gen = candidates[h].gen
      BY <1>2, <1>5 DEF CandidateRecord, CandidateState
    <2>2. candidates[h].state # "confirmed"
      BY <1>5, ConfirmedIsTerminal DEF ConfirmCandidate
    <2>3. candidates' = [candidates EXCEPT ![h] = c]
      BY <1>5 DEF ConfirmCandidate
    <2> HIDE DEF c
    <2> QED
      BY <1>5, <2>1, <2>2, <2>3, CandidateStepIInv DEF ConfirmCandidate
  <1>6. ASSUME NEW target \in CandidateState, MoveCandidate(h, p, target)
        PROVE  IInv'
    <2> DEFINE c == [candidates[h] EXCEPT !.state = target, !.path = p]
    <2>1. c \in CandidateRecord /\ c.state = target /\ c.path = p
            /\ c.gen = candidates[h].gen
      BY <1>2, <1>6 DEF CandidateRecord
    <2>2. candidates[h].state # "confirmed" /\ target # "absent"
      BY <1>6, ConfirmedIsTerminal
      DEF MoveCandidate, CandidateState, EvaluatingStates
    <2>3. candidates' = [candidates EXCEPT ![h] = c]
      BY <1>6 DEF MoveCandidate
    <2> HIDE DEF c
    <2> QED
      BY <1>6, <2>1, <2>2, <2>3, CandidateStepIInv DEF MoveCandidate
  <1> QED
    BY <1>1, <1>3, <1>4, <1>5, <1>6

\* An intent binds a fresh generation to a confirmed candidate without one.
LEMMA PromotionIntentIInv ==
    ASSUME IInv, NEW g \in GenId, NEW h \in Hash, NEW p \in Path,
           NEW k \in EvalKey, PromotionIntent(g, h, p, k)
    PROVE  IInv'
  <1> USE RegistryConstants
  <1> DEFINE c == [candidates[h] EXCEPT !.path = p, !.gen = g]
             n == [state |-> "promotion_intent", candidate |-> h, path |-> p,
                   previous |-> current_champion, rank |-> 0]
  <1>0. /\ candidates[h] \in CandidateRecord
        /\ candidates[h].state = "confirmed"
        /\ candidates[h].tested = current_champion
        /\ current_champion \in Hash
    BY DEF IInv, TypeOK, PromotionIntent
  <1>1. /\ c \in CandidateRecord /\ n \in GenerationRecord
        /\ c.state = "confirmed" /\ c.path = p /\ c.gen = g
        /\ c.tested = current_champion
    BY <1>0 DEF CandidateRecord, GenerationRecord, GenerationState
  <1>2. /\ candidates' = [candidates EXCEPT ![h] = c]
        /\ generations' = [generations EXCEPT ![g] = n]
        /\ current_champion \in Hash
        /\ UNCHANGED <<pins, seen_pin_ids, current_champion,
                       current_generation, activations>>
    BY DEF IInv, TypeOK, PromotionIntent
  <1>3. /\ candidates[h].state = "confirmed" /\ candidates[h].gen = None
        /\ generations[g].state = "absent" /\ generations[g].previous = None
    BY DEF PromotionIntent, IInv, PromotedGenerations
  <1>4. /\ \A q \in Path \ {p} : path_to_hash'[q] = path_to_hash[q]
        /\ path_to_hash'[p] = h
        /\ path_to_hash[p] \in {None, h}
        /\ path_to_hash' \in [Path -> Hash \cup {None}]
    BY DEF IInv, TypeOK, PromotionIntent, RecordPath
  <1> HIDE DEF c
  <1>5. TypeOK'
    BY <1>1, <1>2, <1>4 DEF IInv, TypeOK
  <1>6. /\ \A o \in Hash \ {h} : candidates'[o] = candidates[o]
        /\ candidates'[h] = c
        /\ \A o \in GenId \ {g} : generations'[o] = generations[o]
        /\ generations'[g] = n
    BY <1>2 DEF IInv, TypeOK
  <1>7. CandidatePaths' /\ GenerationOfConfirmed'
    BY <1>1, <1>3, <1>4, <1>6 DEF IInv, CandidatePaths, GenerationOfConfirmed
  <1>8. PromotedGenerations' /\ OneBootstrap' /\ NothingBeforeBootstrap'
    BY <1>2, <1>6
    DEF IInv, PromotedGenerations, OneBootstrap, NothingBeforeBootstrap
  <1>9. GenerationBinding'
    <2> SUFFICES ASSUME NEW x \in GenId, generations'[x].previous # None
                 PROVE  LET d == candidates'[generations'[x].candidate] IN
                        /\ d.state = "confirmed" /\ d.gen = x
                        /\ d.tested = generations'[x].previous
                        /\ d.path = generations'[x].path
                        /\ path_to_hash'[d.path] = generations'[x].candidate
      BY DEF GenerationBinding
    <2>1. CASE x = g
      BY <1>1, <1>4, <1>6, <2>1
    <2>2. CASE x # g
      <3> DEFINE o == generations[x].candidate
      <3>1. /\ generations'[x] = generations[x]
            /\ o \in Hash
            /\ candidates[o].state = "confirmed" /\ candidates[o].gen = x
            /\ candidates[o].tested = generations[x].previous
            /\ candidates[o].path = generations[x].path
            /\ path_to_hash[candidates[o].path] = o
        BY <1>6, <2>2 DEF IInv, GenerationBinding, PromotedGenerations
      <3>2. o # h /\ candidates'[o] = candidates[o]
        BY <1>3, <1>6, <3>1
      <3>3. candidates[o].path \in Path /\ candidates[o].path # p
        BY <1>4, <3>1, <3>2 DEF IInv, CandidatePaths
      <3> QED
        BY <1>4, <3>1, <3>2, <3>3
    <2> QED
      BY <2>1, <2>2
  <1>10. CurrentGenerationMatchesChampion'
    <2>1. ActiveGenerationsOf(current_champion)'
             = ActiveGenerationsOf(current_champion)
      BY <1>2, <1>3, <1>6 DEF ActiveGenerationsOf
    <2>2. current_generation # None => current_generation \in GenId \ {g}
      BY <1>3 DEF IInv, TypeOK, CurrentGenerationMatchesChampion
    <2> QED
      BY <1>2, <1>6, <2>1, <2>2 DEF IInv, CurrentGenerationMatchesChampion
  <1> QED
    BY <1>5, <1>7, <1>8, <1>9, <1>10 DEF IInv

\* A later event of a generation finds its candidate's path where the intent
\* recorded it.
LEMMA GenerationStepFacts ==
    ASSUME IInv, NEW g \in GenId, NEW t, GenerationStep(g, t)
    PROVE  /\ path_to_hash' = path_to_hash
           /\ generations[g].candidate \in Hash
           /\ generations[g].previous \in Hash
           /\ generations[g].state # "absent"
           /\ t \in GenerationState
  <1>1. /\ generations[g] \in GenerationRecord
        /\ generations[g].previous # None
        /\ generations[g].candidate \in Hash
        /\ generations[g].state # "absent"
        /\ t \in GenerationState
    BY LegalGenerationTypes DEF IInv, TypeOK, PromotedGenerations,
       GenerationStep
  <1>2. generations[g].previous \in Hash
    BY <1>1 DEF GenerationRecord
  <1>3. path_to_hash[generations[g].path] = generations[g].candidate
    BY <1>1 DEF IInv, GenerationBinding
  <1>4. path_to_hash' = path_to_hash
    BY <1>3 DEF GenerationStep, IInv, TypeOK
  <1> QED
    BY <1>1, <1>2, <1>4

\* A step that changes only the state and the rank of one promoted
\* generation keeps everything but, possibly, the current generation's match
\* with the champion.
LEMMA GenerationChangeIInv ==
    ASSUME IInv, NEW g \in GenId, NEW n \in GenerationRecord,
           generations[g].previous # None,
           n.state # "absent",
           n.candidate = generations[g].candidate,
           n.path = generations[g].path,
           n.previous = generations[g].previous,
           generations' = [generations EXCEPT ![g] = n],
           current_champion' \in Hash,
           current_generation' \in GenId \cup {None},
           activations' \in Nat,
           CurrentGenerationMatchesChampion',
           UNCHANGED <<candidates, pins, seen_pin_ids, path_to_hash>>
    PROVE  IInv'
  <1> USE RegistryConstants
  <1>1. TypeOK'
    BY DEF IInv, TypeOK
  <1>2. /\ \A o \in GenId \ {g} : generations'[o] = generations[o]
        /\ generations'[g] = n
    BY DEF IInv, TypeOK
  <1>3. CandidatePaths' /\ GenerationOfConfirmed'
    BY DEF IInv, CandidatePaths, GenerationOfConfirmed
  <1>4. PromotedGenerations' /\ OneBootstrap'
    BY <1>2 DEF IInv, PromotedGenerations, OneBootstrap
  <1>5. NothingBeforeBootstrap'
    BY DEF NothingBeforeBootstrap
  <1>6. GenerationBinding'
    BY <1>2 DEF IInv, GenerationBinding
  <1> QED
    BY <1>1, <1>3, <1>4, <1>5, <1>6 DEF IInv

\* Canary, rollout, rollback_pending and quarantined leave the champion alone;
\* the generation of the champion is active or beyond, so it can only go to
\* rollback_pending or quarantined.
LEMMA AdvanceGenerationIInv ==
    ASSUME IInv, NEW g \in GenId, NEW t \in GenerationState,
           AdvanceGeneration(g, t)
    PROVE  IInv'
  <1> USE RegistryConstants
  <1> DEFINE n == [generations[g] EXCEPT !.state = t]
  <1>1. /\ <<generations[g].state, t>> \in LegalGenerationTransitions
        /\ generations[g].previous # None
        /\ generations[g] \in GenerationRecord
        /\ t \notin {"active", "rolled_back"}
    BY DEF AdvanceGeneration, GenerationStep, IInv, TypeOK
  <1>2. /\ n \in GenerationRecord /\ n.state = t
        /\ n.candidate = generations[g].candidate
        /\ n.path = generations[g].path
        /\ n.previous = generations[g].previous
    BY <1>1 DEF GenerationRecord
  <1>3. t # "absent"
    BY DEF GenerationState
  <1>4. /\ path_to_hash' = path_to_hash
        /\ generations' = [generations EXCEPT ![g] = n]
        /\ UNCHANGED <<candidates, pins, seen_pin_ids, current_champion,
                       current_generation, activations>>
    BY GenerationStepFacts DEF AdvanceGeneration
  <1>5. /\ current_champion' \in Hash
        /\ current_generation' \in GenId \cup {None}
        /\ activations' \in Nat
    BY <1>4 DEF IInv, TypeOK, AdvanceGeneration, GenerationStep
  <1> HIDE DEF n
  <1>6. /\ \A o \in GenId \ {g} : generations'[o] = generations[o]
        /\ generations'[g] = n
    BY <1>4 DEF IInv, TypeOK
  <1>7. ActiveGenerationsOf(current_champion)'
           \subseteq ActiveGenerationsOf(current_champion)
    BY <1>1, <1>2, <1>4, <1>6 DEF ActiveGenerationsOf
  <1>8. CurrentGenerationMatchesChampion'
    <2>1. CASE current_generation = g
      <3>1. t \in {"rollback_pending", "quarantined"}
        BY <1>1, <2>1, LegalGenerationTypes
        DEF IInv, CurrentGenerationMatchesChampion
      <3> QED
        BY <1>2, <1>4, <1>6, <2>1, <3>1
        DEF IInv, CurrentGenerationMatchesChampion
    <2>2. CASE current_generation # g
      BY <1>4, <1>6, <1>7, <2>2
      DEF IInv, TypeOK, CurrentGenerationMatchesChampion
    <2> QED
      BY <2>1, <2>2
  <1> QED
    BY <1>1, <1>2, <1>3, <1>4, <1>5, <1>8, GenerationChangeIInv

\* Activation makes the generation and its candidate current together.
LEMMA ActivateGenerationIInv ==
    ASSUME IInv, NEW g \in GenId, ActivateGeneration(g)
    PROVE  IInv'
  <1> USE RegistryConstants
  <1> DEFINE n == [generations[g] EXCEPT !.state = "active",
                                         !.rank = activations + 1]
  <1>1. /\ generations[g].previous # None
        /\ generations[g].candidate \in Hash
        /\ generations[g] \in GenerationRecord
        /\ activations \in Nat
        /\ path_to_hash' = path_to_hash
    BY GenerationStepFacts DEF ActivateGeneration, GenerationStep, IInv, TypeOK
  <1>2. /\ n \in GenerationRecord /\ n.state = "active"
        /\ n.candidate = generations[g].candidate
        /\ n.path = generations[g].path
        /\ n.previous = generations[g].previous
    <2>1. activations + 1 \in Nat
      BY <1>1
    <2> DEFINE r == activations + 1
    <2> HIDE DEF r
    <2>2. r \in Nat /\ n = [generations[g] EXCEPT !.state = "active",
                                                  !.rank = r]
      BY <2>1 DEF r
    <2> QED
      BY <1>1, <2>2 DEF GenerationRecord, GenerationState
  <1>3. /\ generations' = [generations EXCEPT ![g] = n]
        /\ current_champion' = n.candidate
        /\ current_generation' = g
        /\ activations' = activations + 1
        /\ UNCHANGED <<candidates, pins, seen_pin_ids>>
    BY <1>2 DEF ActivateGeneration
  <1> HIDE DEF n
  <1>4. generations'[g] = n
    BY <1>3 DEF IInv, TypeOK
  <1>5. CurrentGenerationMatchesChampion'
    BY <1>2, <1>3, <1>4 DEF CurrentGenerationMatchesChampion
  <1>6. activations' \in Nat /\ current_champion' \in Hash
    BY <1>1, <1>2, <1>3
  <1> QED
    BY <1>1, <1>2, <1>3, <1>5, <1>6, GenerationChangeIInv

\* A rollback makes the previous champion current, with the generation
\* _active_generation_for finds for it.
LEMMA RollBackGenerationIInv ==
    ASSUME IInv, NEW g \in GenId, RollBackGeneration(g)
    PROVE  IInv'
  <1> USE RegistryConstants
  <1> DEFINE n == [generations[g] EXCEPT !.state = "rolled_back"]
             h == generations[g].previous
  <1>1. /\ generations[g].previous \in Hash
        /\ generations[g].previous # None
        /\ generations[g] \in GenerationRecord
        /\ generations[g].state = "rollback_pending"
        /\ path_to_hash' = path_to_hash
    BY GenerationStepFacts, LegalGenerationTypes
    DEF RollBackGeneration, GenerationStep, IInv, TypeOK
  <1>2. /\ n \in GenerationRecord /\ n.state = "rolled_back"
        /\ n.candidate = generations[g].candidate
        /\ n.path = generations[g].path
        /\ n.previous = generations[g].previous
    BY <1>1 DEF GenerationRecord, GenerationState
  <1>3. /\ generations' = [generations EXCEPT ![g] = n]
        /\ current_champion' = h
        /\ current_generation' = ActiveGenerationFor(h)
        /\ UNCHANGED <<candidates, pins, seen_pin_ids, activations>>
    BY DEF RollBackGeneration
  <1>4. \/ current_generation' = None /\ ActiveGenerationsOf(h) = {}
        \/ current_generation' \in ActiveGenerationsOf(h)
    BY <1>1, <1>3, ActiveGenerationForSpec
  <1> HIDE DEF n
  <1>5. /\ \A o \in GenId \ {g} : generations'[o] = generations[o]
        /\ generations'[g] = n
    BY <1>3 DEF IInv, TypeOK
  <1>6. ActiveGenerationsOf(current_champion)' = ActiveGenerationsOf(h)
    BY <1>1, <1>2, <1>3, <1>5 DEF ActiveGenerationsOf
  <1>7. CurrentGenerationMatchesChampion'
    BY <1>1, <1>3, <1>4, <1>5, <1>6
    DEF CurrentGenerationMatchesChampion, ActiveGenerationsOf
  <1>8. /\ current_generation' \in GenId \cup {None}
        /\ activations' \in Nat /\ current_champion' \in Hash
    BY <1>1, <1>3, <1>4 DEF IInv, TypeOK, ActiveGenerationsOf
  <1> QED
    BY <1>1, <1>2, <1>3, <1>7, <1>8, GenerationChangeIInv

\* Pins touch nothing else.
LEMMA PinNextIInv ==
    ASSUME IInv, PinNext
    PROVE  IInv'
  <1> USE RegistryConstants
  <1>1. /\ UNCHANGED <<candidates, generations, path_to_hash, current_champion,
                       current_generation, activations>>
        /\ pins' \in [PinId -> Hash \cup {None}]
        /\ seen_pin_ids' \subseteq PinId
    BY DEF IInv, TypeOK, PinNext, PinReference, UnpinReference
  <1>2. TypeOK'
    BY <1>1 DEF IInv, TypeOK
  <1>3. CandidatePaths' /\ GenerationOfConfirmed' /\ PromotedGenerations'
          /\ NothingBeforeBootstrap' /\ OneBootstrap' /\ GenerationBinding'
    BY <1>1 DEF IInv, CandidatePaths, GenerationOfConfirmed, OneBootstrap,
                PromotedGenerations, NothingBeforeBootstrap, GenerationBinding
  <1>4. CurrentGenerationMatchesChampion'
    BY <1>1 DEF IInv, CurrentGenerationMatchesChampion, ActiveGenerationsOf
  <1> QED
    BY <1>2, <1>3, <1>4 DEF IInv

\* A stuttering step.
LEMMA StutterIInv ==
    ASSUME IInv, UNCHANGED registryVars
    PROVE  IInv'
  <1>1. TypeOK'
    BY DEF IInv, TypeOK, registryVars
  <1>2. CandidatePaths' /\ GenerationOfConfirmed' /\ PromotedGenerations'
          /\ NothingBeforeBootstrap' /\ OneBootstrap' /\ GenerationBinding'
    BY DEF IInv, CandidatePaths, GenerationOfConfirmed, OneBootstrap,
           PromotedGenerations, NothingBeforeBootstrap, GenerationBinding,
           registryVars
  <1>3. CurrentGenerationMatchesChampion'
    BY DEF IInv, CurrentGenerationMatchesChampion, ActiveGenerationsOf,
           registryVars
  <1> QED
    BY <1>1, <1>2, <1>3 DEF IInv

\* Every step of the registry preserves the inductive invariant.
LEMMA NextIInv ==
    ASSUME IInv, [Next]_registryVars
    PROVE  IInv'
  <1> USE RegistryConstants
  <1>1. ASSUME NEW h \in Hash, NEW g \in GenId, BootstrapChampion(h, g)
        PROVE  IInv'
    BY <1>1, BootstrapIInv
  <1>2. CASE CandidateNext
    BY <1>2, CandidateNextIInv
  <1>3. CASE GenerationNext
    <2>1. PICK g \in GenId :
             \/ \E h \in Exports, p \in Path, k \in EvalKey :
                   PromotionIntent(g, h, p, k)
             \/ \E t \in GenerationState : AdvanceGeneration(g, t)
             \/ ActivateGeneration(g)
             \/ RollBackGeneration(g)
      BY <1>3 DEF GenerationNext
    <2> QED
      BY <2>1, PromotionIntentIInv, AdvanceGenerationIInv,
         ActivateGenerationIInv, RollBackGenerationIInv
  <1>4. CASE PinNext
    BY <1>4, PinNextIInv
  <1>5. CASE UNCHANGED registryVars
    BY <1>5, StutterIInv
  <1> QED
    BY <1>1, <1>2, <1>3, <1>4, <1>5 DEF Next

-----------------------------------------------------------------------------
(* The theorems.                                                           *)

\* The inductive invariant holds throughout.
THEOREM Invariance == Spec => []IInv
  <1>1. Init => IInv
    BY InitIInv
  <1>2. IInv /\ [Next]_registryVars => IInv'
    BY NextIInv
  <1> QED
    BY <1>1, <1>2, PTL DEF Spec

\* Every field of the rebuilt registry state has its type.
THEOREM TypeCorrect == Spec => []TypeOK
  <1>1. IInv => TypeOK
    BY DEF IInv
  <1> QED
    BY <1>1, Invariance, PTL

\* Each promotion stays bound to the one confirmed candidate it was created
\* for, and to the champion that candidate was tested against.
THEOREM BindingSafe == Spec => []GenerationBinding
  <1>1. IInv => GenerationBinding
    BY DEF IInv
  <1> QED
    BY <1>1, Invariance, PTL

\* The current generation and the current champion never drift apart.
THEOREM CurrentGenerationSafe == Spec => []CurrentGenerationMatchesChampion
  <1>1. IInv => CurrentGenerationMatchesChampion
    BY DEF IInv
  <1> QED
    BY <1>1, Invariance, PTL

\* Two candidates never share a path.
THEOREM PathsSafe == Spec => []DistinctPaths
  <1>1. IInv => DistinctPaths
    BY DEF IInv, CandidatePaths, DistinctPaths
  <1> QED
    BY <1>1, Invariance, PTL

\* Only two events change the champion once there is one.
LEMMA ChampionChangeActions ==
    ASSUME IInv, [Next]_registryVars, current_champion # None,
           current_champion' # current_champion
    PROVE  \E g \in GenId : ActivateGeneration(g) \/ RollBackGeneration(g)
  <1>1. ~ \E h \in Hash, g \in GenId : BootstrapChampion(h, g)
    BY DEF BootstrapChampion
  <1>2. ~ CandidateNext
    BY DEF CandidateNext, DiscoverCandidate, StartEvaluation,
           ConfirmCandidate, MoveCandidate
  <1>3. ~ PinNext
    BY DEF PinNext, PinReference, UnpinReference
  <1>4. GenerationNext
    BY <1>1, <1>2, <1>3 DEF Next, registryVars
  <1> QED
    BY <1>4 DEF GenerationNext, PromotionIntent, AdvanceGeneration

\* The champion changes only by activating a confirmed candidate tested
\* against it, or by returning to the champion the leaving one was tested
\* against.
THEOREM PromotionsAreTested == Spec => TestedPromotion
  <1> USE RegistryConstants
  <1>1. ASSUME IInv, [Next]_registryVars, current_champion # None,
               current_champion' # current_champion
        PROVE  \E g \in GenId : ChampionChange(g)
    <2>1. PICK g \in GenId : ActivateGeneration(g) \/ RollBackGeneration(g)
      BY <1>1, ChampionChangeActions
    <2>2. generations[g].previous # None
      BY <2>1 DEF ActivateGeneration, RollBackGeneration, GenerationStep
    <2>3. LET c == candidates[generations[g].candidate] IN
             /\ c.state = "confirmed" /\ c.gen = g
             /\ c.tested = generations[g].previous
      BY <1>1, <2>2 DEF IInv, GenerationBinding
    <2>4. CASE ActivateGeneration(g)
      <3>1. generations[g].state = "rollout" /\ generations'[g].state = "active"
        BY <1>1, <2>4, LegalGenerationTypes
        DEF ActivateGeneration, GenerationStep, IInv, TypeOK, GenerationRecord
      <3> QED
        BY <2>2, <2>3, <2>4, <3>1 DEF ActivateGeneration, ChampionChange
    <2>5. CASE RollBackGeneration(g)
      <3>1. /\ generations[g].state = "rollback_pending"
            /\ generations'[g].state = "rolled_back"
        BY <1>1, <2>5, LegalGenerationTypes
        DEF RollBackGeneration, GenerationStep, IInv, TypeOK, GenerationRecord
      <3> QED
        BY <1>1, <2>2, <2>3, <2>5, <3>1 DEF RollBackGeneration, ChampionChange
    <2> QED
      BY <2>1, <2>4, <2>5
  <1> QED
    BY <1>1, Invariance, PTL DEF Spec, TestedPromotion

\* A model about to become champion is protected from deletion.
THEOREM SwapTargetsAreRetained == Spec => SwapTargetRetained
  <1> USE RegistryConstants
  <1>1. ASSUME IInv, [Next]_registryVars, current_champion # None,
               current_champion' # current_champion
        PROVE  Retained(current_champion')
    <2>1. PICK g \in GenId : ActivateGeneration(g) \/ RollBackGeneration(g)
      BY <1>1, ChampionChangeActions
    <2>2. generations[g].state \in {"rollout", "rollback_pending"}
      BY <2>1, LegalGenerationTypes
      DEF ActivateGeneration, RollBackGeneration, GenerationStep
    <2>3. LiveGeneration(g)
      BY <2>2 DEF LiveGeneration, GenerationState
    <2>4. current_champion' \in {generations[g].candidate,
                                 generations[g].previous}
      BY <2>1 DEF ActivateGeneration, RollBackGeneration
    <2> QED
      BY <2>3, <2>4 DEF Retained
  <1> QED
    BY <1>1, Invariance, PTL DEF Spec, SwapTargetRetained

\* A released pin stays released.
THEOREM PinsAreUsedOnce == Spec => PinNotResurrected
  <1> USE RegistryConstants
  <1>1. ASSUME IInv, [Next]_registryVars, NEW pin \in seen_pin_ids
        PROVE  pins'[pin] \in {pins[pin], None}
    <2>1. CASE PinNext
      BY <1>1, <2>1 DEF IInv, TypeOK, PinNext, PinReference, UnpinReference
    <2>2. CASE ~ PinNext
      BY <1>1, <2>2 DEF Next, registryVars, BootstrapChampion, CandidateNext,
         DiscoverCandidate, StartEvaluation, ConfirmCandidate, MoveCandidate,
         GenerationNext, PromotionIntent, AdvanceGeneration,
         ActivateGeneration, RollBackGeneration
    <2> QED
      BY <2>1, <2>2
  <1>2. IInv /\ [Next]_registryVars =>
          [\A pin \in seen_pin_ids : pins'[pin] \in {pins[pin], None}]_registryVars
    BY <1>1
  <1> QED
    BY <1>2, Invariance, PTL DEF Spec, PinNotResurrected
=============================================================================
