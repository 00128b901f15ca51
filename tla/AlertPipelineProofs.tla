------------------------ MODULE AlertPipelineProofs ------------------------
(* Theorems about AlertPipeline, for every number of cases, alerts,         *)
(* subscribers, workers and callbacks, every table of deliveries and every  *)
(* number of faults: the pipeline implements each of its components, so     *)
(* that what is proved of them holds of it; each row of the table is one    *)
(* delivery that was planned; and, from both, what the pipeline as a whole  *)
(* promises to those who hear of an alert and to those who wait for it.     *)
EXTENDS AlertPipeline, CaseAndAlertProofs

MP == INSTANCE SubscriptionMatchingProofs
  WITH alerts <- Issued, deliveries <- planned, batch <- events, faults <- stops,
       Request <- Editor

EP == INSTANCE DeliveryEngineProofs
  WITH Delivery <- Slot, Recipient <- Alert \X Consumer, Reader <- {}, view <- NotInserted

-----------------------------------------------------------------------------
(* The pipeline implements the case workflow and the alerts. *)

LEMMA IssuanceSteps == [PipelineNext]_pipeVars => [Next]_vars
<1>1. UNCHANGED pipeVars => UNCHANGED vars
  BY DEF pipeVars, issueVars
<1>2. ReviewerStep => Next
  BY DEF ReviewerStep
<1>3. ASSUME NEW f \in Form, NEW n \in Try, NEW a \in Alert, IssueAlert(f, n, a)
      PROVE  Next
  BY <1>3 DEF IssueAlert, Next, AlertNext
<1>4. SubscriberStep \/ ProviderStep \/ ClockStep => UNCHANGED vars
  BY DEF SubscriberStep, ProviderStep, ClockStep, issueVars
<1>5. ASSUME NEW w \in Worker, WorkerCycle(w) \/ StopMatching(w) \/ StopDispatching(w)
      PROVE  UNCHANGED vars
  BY <1>5 DEF WorkerCycle, MatchStep, NothingToMatch, DispatchStep, NothingToDispatch,
              StopMatching, StopDispatching, issueVars
<1> QED
  BY <1>1, <1>2, <1>3, <1>4, <1>5 DEF PipelineNext

\* Whatever reviewers and clients do to cases and alerts is done as AlertIssuance says
\* (apps/api/src/cases.rs, alerts.rs).
THEOREM ImplementsIssuance == PipelineSpec => Spec
<1>1. PipelineInit => Init
  BY DEF PipelineInit
<1> QED
  BY <1>1, IssuanceSteps, PTL DEF PipelineSpec, Spec

-----------------------------------------------------------------------------
(* It implements the matching. *)

LEMMA MatchingUntouched ==
  ASSUME UNCHANGED matchVars, Issued' = Issued
  PROVE  UNCHANGED Matching!vars
BY DEF matchVars, Matching!vars, Matching!outboxVars, Matching!editVars, Matching!workVars,
       Matching!faultVars

LEMMA AlertsUntouched == UNCHANGED issueVars => Issued' = Issued
BY DEF issueVars, vars, alertVars, Issued

LEMMA MatchingSteps == [PipelineNext]_pipeVars => [Matching!Next]_(Matching!vars)
<1>1. UNCHANGED pipeVars => UNCHANGED Matching!vars
  BY MatchingUntouched, AlertsUntouched DEF pipeVars
<1>2. ReviewerStep \/ ProviderStep \/ ClockStep => UNCHANGED Matching!vars
  BY MatchingUntouched, AlertsUntouched DEF ReviewerStep, ProviderStep, ClockStep
<1>3. ASSUME NEW f \in Form, NEW n \in Try, NEW a \in Alert, IssueAlert(f, n, a)
      PROVE  Matching!Next
  BY <1>3 DEF IssueAlert, Matching!Next
<1>4. SubscriberStep => Matching!Next
  BY DEF SubscriberStep, Matching!Next
<1>5. ASSUME NEW w \in Worker, WorkerCycle(w) \/ StopMatching(w) \/ StopDispatching(w)
      PROVE  [Matching!Next]_(Matching!vars)
  <2>1. MatchStep(w) => Matching!WorkerStep(w)
    BY DEF MatchStep, WritePlanned, Matching!WorkerStep, Matching!EventStep
  <2>2. NothingToMatch(w) \/ DispatchStep(w) \/ NothingToDispatch(w) \/ StopDispatching(w)
          => UNCHANGED Matching!vars
    BY MatchingUntouched, AlertsUntouched
    DEF NothingToMatch, DispatchStep, NothingToDispatch, StopDispatching
  <2>3. StopMatching(w) => Matching!Abort(w)
    BY DEF StopMatching
  <2> QED
    BY <1>5, <2>1, <2>2, <2>3 DEF WorkerCycle, Matching!Next
<1> QED
  BY <1>1, <1>2, <1>3, <1>4, <1>5 DEF PipelineNext

\* The outbox and the plans are handled as SubscriptionMatching says, with the events that the
\* alerts of AlertIssuance left there (PostgresAlertRepository::create).
THEOREM ImplementsMatching == PipelineSpec => Matching!Spec
<1>1. PipelineInit => Matching!Init
  BY DEF PipelineInit
<1> QED
  BY <1>1, MatchingSteps, PTL DEF PipelineSpec, Matching!Spec

-----------------------------------------------------------------------------
(* It implements the engine. *)

LEMMA EngineUntouched == UNCHANGED engineVars => UNCHANGED Engine!vars
BY DEF engineVars, Engine!vars, Engine!dbVars, Engine!workerVars, Engine!apiVars,
       Engine!providerVars, Engine!history

LEMMA EngineSteps == [PipelineNext]_pipeVars => [Engine!Next]_(Engine!vars)
<1>1. UNCHANGED pipeVars => UNCHANGED Engine!vars
  BY EngineUntouched DEF pipeVars
<1>2. ReviewerStep \/ SubscriberStep => UNCHANGED Engine!vars
  BY EngineUntouched DEF ReviewerStep, SubscriberStep
<1>3. ASSUME NEW f \in Form, NEW n \in Try, NEW a \in Alert, IssueAlert(f, n, a)
      PROVE  UNCHANGED Engine!vars
  BY <1>3, EngineUntouched DEF IssueAlert
<1>4. ProviderStep \/ ClockStep => Engine!Next
  BY DEF ProviderStep, ClockStep, Engine!Next
<1>5. ASSUME NEW w \in Worker, WorkerCycle(w) \/ StopMatching(w) \/ StopDispatching(w)
      PROVE  [Engine!Next]_(Engine!vars)
  <2>1. ASSUME NEW d \in plan[w], WritePlanned(w, d)
        PROVE  [Engine!Next]_(Engine!vars)
    BY <2>1, EngineUntouched DEF WritePlanned, Engine!Next
  <2>2. MatchStep(w) => [Engine!Next]_(Engine!vars)
    BY <2>1, EngineUntouched DEF MatchStep
  <2>3. NothingToMatch(w) \/ NothingToDispatch(w) \/ StopMatching(w) => UNCHANGED Engine!vars
    BY EngineUntouched DEF NothingToMatch, NothingToDispatch, StopMatching
  <2>4. DispatchStep(w) \/ StopDispatching(w) => Engine!WorkerStep(w) \/ Engine!Abort(w)
    BY DEF DispatchStep, StopDispatching
  <2> QED
    BY <1>5, <2>2, <2>3, <2>4 DEF WorkerCycle, Engine!Next
<1> QED
  BY <1>1, <1>2, <1>3, <1>4, <1>5 DEF PipelineNext

\* The table of deliveries is filled, worked off and answered for as DeliveryEngine says
\* (create_planned, dispatch::process_batch, receive_webhook).
THEOREM ImplementsEngine == PipelineSpec => Engine!Spec
<1>1. PipelineInit => Engine!Init
  BY DEF PipelineInit
<1> QED
  BY <1>1, EngineSteps, PTL DEF PipelineSpec, Engine!Spec

-----------------------------------------------------------------------------
(* The components as they are here and as the theorems about them have them. *)

LEMMA SameOldest ==
  \A S : Matching!Oldest(S) = MP!Oldest(S) /\ Engine!Oldest(S) = EP!Oldest(S)
<1>1. \A S : Matching!Cardinality(S) = MP!Cardinality(S)
  BY DEF Matching!Cardinality, MP!Cardinality
<1>2. \A S : Engine!Cardinality(S) = EP!Cardinality(S)
  BY DEF Engine!Cardinality, EP!Cardinality
<1> QED
  BY <1>1, <1>2 DEF Matching!Oldest, MP!Oldest, Engine!Oldest, EP!Oldest

LEMMA SameMatchingActions ==
  /\ \A a \in Alert : Matching!CreateAlert(a) <=> MP!CreateAlert(a)
  /\ \A s \in Subscription : Matching!Delete(s) <=> MP!Delete(s)
  /\ \A s \in Subscription, rules \in RuleSet :
       Matching!CreateSubscription(s, rules) <=> MP!CreateSubscription(s, rules)
  /\ \A s \in Subscription, rules \in RuleSet, r \in Editor :
       Matching!LoadForUpdate(r, s, rules) <=> MP!LoadForUpdate(r, s, rules)
  /\ \A r \in Editor : Matching!Update(r) <=> MP!Update(r)
  /\ \A c \in Consumer, p \in Preference : Matching!Upsert(c, p) <=> MP!Upsert(c, p)
  /\ \A w \in Worker : Matching!ClaimUnpublished(w) <=> MP!ClaimUnpublished(w)
  /\ \A w \in Worker : Matching!Match(w) <=> MP!Match(w)
  /\ \A w \in Worker : Matching!MarkPublished(w) <=> MP!MarkPublished(w)
  /\ \A w \in Worker : Matching!Abort(w) <=> MP!Abort(w)
  /\ \A w \in Worker, c \in Consumer : Matching!ReadPreference(w, c) <=> MP!ReadPreference(w, c)
  /\ \A w \in Worker : \A d \in plan[w] : Matching!CreatePlanned(w, d) <=> MP!CreatePlanned(w, d)
<1>1. \A a \in Alert : Matching!CreateAlert(a) <=> MP!CreateAlert(a)
  BY DEF Matching!CreateAlert, MP!CreateAlert, Matching!editVars, MP!editVars, Matching!workVars,
         MP!workVars, Matching!faultVars, MP!faultVars, Matching!Exists, MP!Exists,
         Matching!Matches, MP!Matches
<1>2. \A s \in Subscription : Matching!Delete(s) <=> MP!Delete(s)
  BY DEF Matching!Delete, MP!Delete, Matching!NoSubscription, MP!NoSubscription,
         Matching!outboxVars, MP!outboxVars, Matching!workVars, MP!workVars, Matching!faultVars,
         MP!faultVars, Matching!Exists, MP!Exists, Matching!Withdraw, MP!Withdraw
<1>3. \A s \in Subscription, rules \in RuleSet :
       Matching!CreateSubscription(s, rules) <=> MP!CreateSubscription(s, rules)
  BY DEF Matching!CreateSubscription, MP!CreateSubscription, Matching!outboxVars, MP!outboxVars,
         Matching!workVars, MP!workVars, Matching!faultVars, MP!faultVars, Matching!Exists,
         MP!Exists
<1>4. \A s \in Subscription, rules \in RuleSet, r \in Editor :
       Matching!LoadForUpdate(r, s, rules) <=> MP!LoadForUpdate(r, s, rules)
  BY DEF Matching!LoadForUpdate, MP!LoadForUpdate, Matching!Idle, MP!Idle, Matching!outboxVars,
         MP!outboxVars, Matching!workVars, MP!workVars, Matching!faultVars, MP!faultVars,
         Matching!Exists, MP!Exists
<1>5. \A r \in Editor : Matching!Update(r) <=> MP!Update(r)
  BY DEF Matching!Update, MP!Update, Matching!Idle, MP!Idle, Matching!outboxVars, MP!outboxVars,
         Matching!workVars, MP!workVars, Matching!faultVars, MP!faultVars, Matching!Exists,
         MP!Exists, Matching!Withdraw, MP!Withdraw, Matching!VersionMatches, MP!VersionMatches
<1>6. \A c \in Consumer, p \in Preference : Matching!Upsert(c, p) <=> MP!Upsert(c, p)
  BY DEF Matching!Upsert, MP!Upsert, Matching!outboxVars, MP!outboxVars, Matching!workVars,
         MP!workVars, Matching!faultVars, MP!faultVars, Matching!Withdraw, MP!Withdraw
<1>7. \A w \in Worker : Matching!ClaimUnpublished(w) <=> MP!ClaimUnpublished(w)
  BY SameOldest
  DEF Matching!ClaimUnpublished, MP!ClaimUnpublished, Matching!editVars, MP!editVars,
      Matching!faultVars, MP!faultVars, Matching!Claimable, MP!Claimable
<1>8. \A w \in Worker : Matching!Match(w) <=> MP!Match(w)
  BY DEF Matching!Match, MP!Match, Matching!outboxVars, MP!outboxVars, Matching!editVars,
         MP!editVars, Matching!faultVars, MP!faultVars, Matching!Exists, MP!Exists,
         Matching!Matches, MP!Matches, Matching!ConsumerMatches, MP!ConsumerMatches,
         Matching!OwnersOf, MP!OwnersOf, Matching!IsCurrent, MP!IsCurrent
<1>9. \A w \in Worker : Matching!MarkPublished(w) <=> MP!MarkPublished(w)
  BY DEF Matching!MarkPublished, MP!MarkPublished, Matching!editVars, MP!editVars,
         Matching!faultVars, MP!faultVars, Matching!IsCurrent, MP!IsCurrent, Matching!AllWritten,
         MP!AllWritten
<1>10. \A w \in Worker : Matching!Abort(w) <=> MP!Abort(w)
  BY DEF Matching!Abort, MP!Abort, Matching!outboxVars, MP!outboxVars, Matching!editVars,
         MP!editVars
<1>11. \A w \in Worker, c \in Consumer : Matching!ReadPreference(w, c) <=> MP!ReadPreference(w, c)
  BY DEF Matching!ReadPreference, MP!ReadPreference, Matching!outboxVars, MP!outboxVars,
         Matching!editVars, MP!editVars, Matching!faultVars, MP!faultVars, Matching!Tiers,
         MP!Tiers, Matching!PlanFor, MP!PlanFor, Matching!IsCurrent, MP!IsCurrent
<1>12. \A w \in Worker : \A d \in plan[w] : Matching!CreatePlanned(w, d) <=> MP!CreatePlanned(w, d)
  BY DEF Matching!CreatePlanned, MP!CreatePlanned, Matching!outboxVars, MP!outboxVars,
         Matching!editVars, MP!editVars, Matching!faultVars, MP!faultVars, Matching!SameKey,
         MP!SameKey, Matching!NextInOrder, MP!NextInOrder
<1> QED
  BY <1>1, <1>2, <1>3, <1>4, <1>5, <1>6, <1>7, <1>8, <1>9, <1>10, <1>11, <1>12

LEMMA SameMatching ==
  /\ Matching!Init <=> MP!Init
  /\ [Matching!Next]_(Matching!vars) <=> [MP!Next]_(MP!vars)
<1>1. Matching!Init <=> MP!Init
  BY DEF Matching!Init, MP!Init, Matching!NoSubscription, MP!NoSubscription, Matching!Idle,
         MP!Idle
<1>2. Matching!Next <=> MP!Next
  BY SameMatchingActions
  DEF Matching!Next, MP!Next, Matching!WorkerStep, MP!WorkerStep, Matching!EventStep,
      MP!EventStep
<1>3. Matching!vars = MP!vars
  BY DEF Matching!vars, MP!vars, Matching!outboxVars, MP!outboxVars, Matching!editVars,
         MP!editVars, Matching!workVars, MP!workVars, Matching!faultVars, MP!faultVars
<1>4. Matching!vars' = MP!vars'
  BY DEF Matching!vars, MP!vars, Matching!outboxVars, MP!outboxVars, Matching!editVars,
         MP!editVars, Matching!workVars, MP!workVars, Matching!faultVars, MP!faultVars
<1> QED
  BY <1>1, <1>2, <1>3, <1>4

LEMMA SameEngineActions ==
  /\ \A n \in Slot : Engine!CreatePlanned(n) <=> EP!CreatePlanned(n)
  /\ \A n \in Slot : Engine!BackoffElapses(n) <=> EP!BackoffElapses(n)
  /\ \A w \in Worker : Engine!ClaimNext(w) <=> EP!ClaimNext(w)
  /\ \A w \in Worker : Engine!NoAdapter(w) <=> EP!NoAdapter(w)
  /\ \A w \in Worker : Engine!Send(w) <=> EP!Send(w)
  /\ \A w \in Worker : Engine!TakeMessage(w) <=> EP!TakeMessage(w)
  /\ \A w \in Worker : Engine!Record(w) <=> EP!Record(w)
  /\ \A w \in Worker : Engine!Abort(w) <=> EP!Abort(w)
  /\ \A e \in EventId, m \in Engine!Message, v \in Engine!Verdict :
       Engine!EmitCallback(e, m, v) <=> EP!EmitCallback(e, m, v)
  /\ \A h \in Handler : Engine!DropMoot(h) <=> EP!DropMoot(h)
  /\ \A h \in Handler : Engine!Load(h) <=> EP!Load(h)
  /\ \A h \in Handler : Engine!ApplyWebhook(h) <=> EP!ApplyWebhook(h)
  /\ \A h \in Handler : Engine!WebhookFails(h) <=> EP!WebhookFails(h)
  /\ \A h \in Handler, c \in callbacks : Engine!RecordIfNew(h, c) <=> EP!RecordIfNew(h, c)
  /\ \A h \in Handler, c \in callbacks :
       Engine!IgnoreDuplicate(h, c) <=> EP!IgnoreDuplicate(h, c)
  /\ \A h \in Handler, c \in callbacks :
       Engine!ReplayGuardFails(h, c) <=> EP!ReplayGuardFails(h, c)
<1>1. \A n \in Slot : Engine!CreatePlanned(n) <=> EP!CreatePlanned(n)
  BY DEF Engine!CreatePlanned, EP!CreatePlanned, Engine!NoRow, EP!NoRow, Engine!PlanOne,
         EP!PlanOne, Engine!workerVars, EP!workerVars, Engine!apiVars, EP!apiVars,
         Engine!providerVars, EP!providerVars, Engine!history, EP!history, Engine!Lower, EP!Lower,
         Engine!EventOf, EP!EventOf
<1>2. \A n \in Slot : Engine!BackoffElapses(n) <=> EP!BackoffElapses(n)
  BY DEF Engine!BackoffElapses, EP!BackoffElapses, Engine!workerVars, EP!workerVars,
         Engine!apiVars, EP!apiVars, Engine!providerVars, EP!providerVars, Engine!history,
         EP!history
<1>3. \A w \in Worker : Engine!ClaimNext(w) <=> EP!ClaimNext(w)
  BY Zenon
  DEF Engine!ClaimNext, EP!ClaimNext, Engine!NoRow, EP!NoRow,
      Engine!CanStartAttempt, EP!CanStartAttempt, Engine!StartAttempt, EP!StartAttempt,
      Engine!apiVars, EP!apiVars, Engine!providerVars, EP!providerVars,
      Engine!history, EP!history, Engine!Lower, EP!Lower, Engine!EventOf, EP!EventOf,
      Engine!GateOpen, EP!GateOpen, Engine!Claimable, EP!Claimable, Engine!Held, EP!Held,
      Engine!Oldest, EP!Oldest, Engine!Cardinality, EP!Cardinality
<1>4. \A w \in Worker : Engine!NoAdapter(w) <=> EP!NoAdapter(w)
  BY DEF Engine!NoAdapter, EP!NoAdapter, Engine!NoRow, EP!NoRow, Engine!dbVars, EP!dbVars,
         Engine!apiVars, EP!apiVars, Engine!providerVars, EP!providerVars, Engine!history,
         EP!history, Engine!Held, EP!Held, Engine!IsCurrent, EP!IsCurrent
<1>5. \A w \in Worker : Engine!Send(w) <=> EP!Send(w)
  BY DEF Engine!Send, EP!Send, Engine!Sending, EP!Sending, Engine!MessageOf, EP!MessageOf,
         Engine!NoRow, EP!NoRow, Engine!dbVars, EP!dbVars, Engine!apiVars, EP!apiVars,
         Engine!providerVars, EP!providerVars, Engine!history, EP!history, Engine!Answer,
         EP!Answer, Engine!Held, EP!Held, Engine!IsCurrent, EP!IsCurrent
<1>6. \A w \in Worker : Engine!TakeMessage(w) <=> EP!TakeMessage(w)
  BY DEF Engine!TakeMessage, EP!TakeMessage, Engine!Sending, EP!Sending, Engine!MessageOf,
         EP!MessageOf, Engine!NoRow, EP!NoRow, Engine!dbVars, EP!dbVars, Engine!workerVars,
         EP!workerVars, Engine!apiVars, EP!apiVars, Engine!history, EP!history, Engine!Held,
         EP!Held, Engine!IsCurrent, EP!IsCurrent
<1>7. \A w \in Worker : Engine!Record(w) <=> EP!Record(w)
  BY DEF Engine!Record, EP!Record, Engine!NoRow, EP!NoRow, Engine!RecordSuccess, EP!RecordSuccess,
         Engine!WillRetry, EP!WillRetry, Engine!RecordFailure, EP!RecordFailure, Engine!apiVars,
         EP!apiVars, Engine!providerVars, EP!providerVars, Engine!history, EP!history,
         Engine!EventOf, EP!EventOf, Engine!Matches, EP!Matches, Engine!Advance, EP!Advance,
         Engine!ApplyAttemptTransition, EP!ApplyAttemptTransition, Engine!Held, EP!Held,
         Engine!IsCurrent, EP!IsCurrent, Engine!Outcome, EP!Outcome
<1>8. \A w \in Worker : Engine!Abort(w) <=> EP!Abort(w)
  BY DEF Engine!Abort, EP!Abort, Engine!NoRow, EP!NoRow, Engine!dbVars, EP!dbVars, Engine!apiVars,
         EP!apiVars, Engine!providerVars, EP!providerVars, Engine!Held, EP!Held
<1>9. \A e \in EventId, m \in Engine!Message, v \in Engine!Verdict :
       Engine!EmitCallback(e, m, v) <=> EP!EmitCallback(e, m, v)
  BY DEF Engine!EmitCallback, EP!EmitCallback, Engine!dbVars, EP!dbVars, Engine!workerVars,
         EP!workerVars, Engine!apiVars, EP!apiVars, Engine!history, EP!history
<1>10. \A h \in Handler : Engine!DropMoot(h) <=> EP!DropMoot(h)
  BY DEF Engine!DropMoot, EP!DropMoot, Engine!NoRow, EP!NoRow, Engine!CanRecordOutcome,
         EP!CanRecordOutcome, Engine!CanRecordDelivered, EP!CanRecordDelivered, Engine!dbVars,
         EP!dbVars, Engine!workerVars, EP!workerVars, Engine!KnownMessage, EP!KnownMessage,
         Engine!WebhookLegal, EP!WebhookLegal, Engine!Applicable, EP!Applicable
<1>11. \A h \in Handler : Engine!Load(h) <=> EP!Load(h)
  BY DEF Engine!Load, EP!Load, Engine!NoRow, EP!NoRow, Engine!CanRecordOutcome,
         EP!CanRecordOutcome, Engine!WillRetry, EP!WillRetry, Engine!RecordFailure,
         EP!RecordFailure, Engine!CanRecordDelivered, EP!CanRecordDelivered,
         Engine!RecordDelivered, EP!RecordDelivered, Engine!dbVars, EP!dbVars, Engine!workerVars,
         EP!workerVars, Engine!providerVars, EP!providerVars, Engine!history, EP!history,
         Engine!KnownMessage, EP!KnownMessage, Engine!WebhookLegal, EP!WebhookLegal,
         Engine!WebhookResult, EP!WebhookResult, Engine!Applicable, EP!Applicable
<1>12. \A h \in Handler : Engine!ApplyWebhook(h) <=> EP!ApplyWebhook(h)
  BY DEF Engine!ApplyWebhook, EP!ApplyWebhook, Engine!NoRow, EP!NoRow, Engine!workerVars,
         EP!workerVars, Engine!history, EP!history, Engine!EventOf, EP!EventOf, Engine!Matches,
         EP!Matches, Engine!Advance, EP!Advance, Engine!ApplyTransition, EP!ApplyTransition,
         Engine!ApplyAttemptTransition, EP!ApplyAttemptTransition
<1>13. \A h \in Handler : Engine!WebhookFails(h) <=> EP!WebhookFails(h)
  BY DEF Engine!WebhookFails, EP!WebhookFails, Engine!NoRow, EP!NoRow, Engine!dbVars, EP!dbVars,
         Engine!workerVars, EP!workerVars
<1>14. \A h \in Handler, c \in callbacks : Engine!RecordIfNew(h, c) <=> EP!RecordIfNew(h, c)
  BY DEF Engine!RecordIfNew, EP!RecordIfNew, Engine!dbVars, EP!dbVars, Engine!workerVars,
         EP!workerVars, Engine!providerVars, EP!providerVars, Engine!history, EP!history
<1>15. \A h \in Handler, c \in callbacks :
       Engine!IgnoreDuplicate(h, c) <=> EP!IgnoreDuplicate(h, c)
  BY DEF Engine!IgnoreDuplicate, EP!IgnoreDuplicate, Engine!dbVars, EP!dbVars, Engine!workerVars,
         EP!workerVars, Engine!apiVars, EP!apiVars, Engine!history, EP!history
<1>16. \A h \in Handler, c \in callbacks :
       Engine!ReplayGuardFails(h, c) <=> EP!ReplayGuardFails(h, c)
  BY DEF Engine!ReplayGuardFails, EP!ReplayGuardFails, Engine!dbVars, EP!dbVars,
         Engine!workerVars, EP!workerVars, Engine!apiVars, EP!apiVars
<1> QED
  BY <1>1, <1>2, <1>3, <1>4, <1>5, <1>6, <1>7, <1>8, <1>9, <1>10, <1>11, <1>12, <1>13, <1>14,
     <1>15, <1>16

LEMMA SameEngineNames ==
  Engine!NoRow = EP!NoRow /\ Engine!Message = EP!Message /\ Engine!Verdict = EP!Verdict
BY DEF Engine!NoRow, EP!NoRow, Engine!Message, EP!Message, Engine!Verdict, EP!Verdict

LEMMA SameEngine ==
  /\ Engine!Init <=> EP!Init
  /\ [Engine!Next]_(Engine!vars) <=> [EP!Next]_(EP!vars)
<1>1. Engine!Init <=> EP!Init
  BY DEF Engine!Init, EP!Init, Engine!NoRow, EP!NoRow
<1>2. Engine!Next <=> EP!Next
  BY SameEngineActions, SameEngineNames
  DEF Engine!Next, EP!Next, Engine!WorkerStep, EP!WorkerStep, Engine!HandlerStep, EP!HandlerStep
<1>3. Engine!vars = EP!vars
  BY DEF Engine!vars, EP!vars, Engine!dbVars, EP!dbVars, Engine!workerVars, EP!workerVars,
         Engine!apiVars, EP!apiVars, Engine!providerVars, EP!providerVars, Engine!history,
         EP!history
<1>4. Engine!vars' = EP!vars'
  BY DEF Engine!vars, EP!vars, Engine!dbVars, EP!dbVars, Engine!workerVars, EP!workerVars,
         Engine!apiVars, EP!apiVars, Engine!providerVars, EP!providerVars, Engine!history,
         EP!history
<1> QED
  BY <1>1, <1>2, <1>3, <1>4

\* All steps of the engine but create_planned.
LEMMA SameOtherStep ==
  ASSUME \/ \E n \in Slot : Engine!BackoffElapses(n)
         \/ \E w \in Worker : \/ Engine!WorkerStep(w) \/ Engine!Abort(w)
                              \/ Engine!TakeMessage(w)
         \/ \E e \in EventId, m \in Engine!Message, v \in Engine!Verdict :
              Engine!EmitCallback(e, m, v)
         \/ \E h \in Handler :
              \/ Engine!HandlerStep(h) \/ Engine!WebhookFails(h)
              \/ \E c \in callbacks : \/ Engine!RecordIfNew(h, c)
                                      \/ Engine!IgnoreDuplicate(h, c)
                                      \/ Engine!ReplayGuardFails(h, c)
  PROVE  EP!OtherStep
BY SameEngineActions, SameEngineNames
DEF EP!OtherStep, Engine!WorkerStep, EP!WorkerStep, Engine!HandlerStep, EP!HandlerStep

LEMMA MatchingProved == PipelineSpec => MP!Spec
BY ImplementsMatching, SameMatching, PTL DEF Matching!Spec, MP!Spec

LEMMA EngineProved == PipelineSpec => EP!Spec
BY ImplementsEngine, SameEngine, PTL DEF Engine!Spec, EP!Spec

\* What the components assume.
LEMMA ComponentAssumptions ==
  MP!MatchingAssumption /\ EP!EngineAssumption /\ EP!NoCallbackAssumption
  /\ EP!RetryPolicyAssumption
<1>1. MP!MatchingAssumption
  BY PipelineAssumption
  DEF Matching!MatchingAssumption, MP!MatchingAssumption, Matching!WellFormed, MP!WellFormed,
      Matching!Endpoint, MP!Endpoint
<1>2. EP!EngineAssumption
  BY PipelineAssumption DEF Engine!EngineAssumption, EP!EngineAssumption
<1>3. EP!NoCallbackAssumption
  BY PipelineAssumption
  DEF Engine!NoCallbackAssumption, EP!NoCallbackAssumption, Engine!Callback, EP!Callback,
      Engine!Message, EP!Message, Engine!Verdict, EP!Verdict
<1>4. EP!RetryPolicyAssumption
  BY PipelineAssumption DEF Engine!RetryPolicyAssumption, EP!RetryPolicyAssumption
<1> QED
  BY <1>1, <1>2, <1>3, <1>4
-----------------------------------------------------------------------------
(* The table of deliveries is the table of the planned. *)

JoinInv == JoinTypeOK /\ RowsArePlanned

\* The components' invariants.
PartsInv == MP!OutboxInv /\ MP!PlanInv /\ EP!EngineInv

LEMMA PartsInvariant == PipelineSpec => []PartsInv
<1>1. MP!Spec => [](MP!OutboxInv)
  BY ComponentAssumptions, MP!OutboxInvariant
<1>2. MP!Spec => [](MP!PlanInv)
  BY ComponentAssumptions, MP!PlanInvariant
<1>3. EP!Spec => [](EP!EngineInv)
  BY ComponentAssumptions, EP!EngineInvariant
<1> QED
  BY <1>1, <1>2, <1>3, MatchingProved, EngineProved, PTL DEF PartsInv

LEMMA PlannedType ==
  ASSUME PartsInv
  PROVE  /\ planned \subseteq Matching!Delivery /\ NotInserted \notin planned
         /\ \A w \in Worker : plan[w] \subseteq Matching!Delivery /\ NotInserted \notin plan[w]
<1>1. planned \subseteq MP!Delivery /\ \A w \in Worker : plan[w] \subseteq MP!Delivery
  BY DEF PartsInv, MP!OutboxInv, MP!TypeOK
<1>2. Matching!Delivery = MP!Delivery
  BY DEF Matching!Delivery, MP!Delivery, Matching!Endpoint, MP!Endpoint,
         Matching!MatchedSubscription, MP!MatchedSubscription
<1> QED
  BY <1>1, <1>2, PipelineAssumption

\* Steps that neither insert nor plan a row.
LEMMA JoinKept ==
  ASSUME JoinInv, UNCHANGED <<inserted, planned>>,
         cycle' \in [Worker -> {"match", "dispatch"}],
         \A n \in Slot : deliveries'[n] = Engine!NoRow <=> deliveries[n] = Engine!NoRow
  PROVE  JoinInv'
<1>1. JoinTypeOK'
  BY DEF JoinInv, JoinTypeOK, Matching!Delivery, Matching!Endpoint, Matching!MatchedSubscription
<1>2. RowsArePlanned'
  BY DEF JoinInv, RowsArePlanned, Engine!NoRow
<1> QED
  BY <1>1, <1>2 DEF JoinInv

LEMMA TurnType ==
  ASSUME JoinTypeOK, NEW w \in Worker, NEW to \in {"match", "dispatch"}, NEW done,
         Turn(w, to, done)
  PROVE  cycle' \in [Worker -> {"match", "dispatch"}]
BY DEF JoinTypeOK, Turn

\* The steps of the API and of a worker before create_planned leave the planned as they are.
LEMMA PlannedUntouched ==
  /\ SubscriberStep => UNCHANGED planned
  /\ \A a \in Alert : Matching!CreateAlert(a) => UNCHANGED planned
  /\ \A w \in Worker :
       /\ Matching!ClaimUnpublished(w) \/ Matching!Match(w) \/ Matching!MarkPublished(w)
            => UNCHANGED planned
       /\ Matching!Abort(w) => UNCHANGED planned
       /\ \A c \in Consumer : Matching!ReadPreference(w, c) => UNCHANGED planned
<1>1. SubscriberStep => UNCHANGED planned
  BY DEF SubscriberStep, Matching!Delete, Matching!CreateSubscription, Matching!LoadForUpdate,
         Matching!Update, Matching!Upsert
<1>2. \A a \in Alert : Matching!CreateAlert(a) => UNCHANGED planned
  BY DEF Matching!CreateAlert
<1>3. ASSUME NEW w \in Worker
      PROVE  /\ Matching!ClaimUnpublished(w) \/ Matching!Match(w) \/ Matching!MarkPublished(w)
                  => UNCHANGED planned
             /\ Matching!Abort(w) => UNCHANGED planned
             /\ \A c \in Consumer : Matching!ReadPreference(w, c) => UNCHANGED planned
  BY DEF Matching!ClaimUnpublished, Matching!Match, Matching!MarkPublished, Matching!Abort,
         Matching!ReadPreference
<1> QED
  BY <1>1, <1>2, <1>3

\* insert_delivery adds a row for the delivery it plans, or neither.
LEMMA WriteJoins ==
  ASSUME JoinInv, PartsInv, NEW w \in Worker, NEW d \in plan[w], WritePlanned(w, d),
         cycle' \in [Worker -> {"match", "dispatch"}]
  PROVE  JoinInv'
<1>1. CASE planned' = planned
  BY <1>1, JoinKept DEF WritePlanned, engineVars
<1>2. CASE planned' # planned
  <2>1. planned' = planned \cup {d} /\ d \notin planned
    BY <1>2 DEF WritePlanned, Matching!CreatePlanned
  <2>2. PICK n \in Slot :
          /\ recipient[n] = <<d.alert, d.consumer>> /\ tier[n] = d.tier
          /\ Engine!CreatePlanned(n)
          /\ inserted' = [inserted EXCEPT ![n] = d]
    BY <1>2 DEF WritePlanned
  <2>3. deliveries[n] = Engine!NoRow /\ deliveries' = [deliveries EXCEPT ![n] = Engine!PlanOne]
    BY <2>2 DEF Engine!CreatePlanned
  <2>4. n \in DOMAIN deliveries /\ DOMAIN deliveries = Slot
    BY DEF PartsInv, EP!EngineInv, EP!TypeOK
  <2>5. Engine!PlanOne # Engine!NoRow
    BY DEF Engine!PlanOne, Engine!NoRow
  <2>6. d # NotInserted /\ d \in Matching!Delivery
    BY PlannedType
  <2>7. inserted \in [Slot -> Matching!Delivery \cup {NotInserted}]
    BY DEF JoinInv, JoinTypeOK
  <2>8. inserted[n] = NotInserted /\ inserted'[n] = d
    BY <2>2, <2>3, <2>7 DEF JoinInv, RowsArePlanned
  <2>9. ASSUME NEW k \in Slot, k # n
        PROVE  inserted'[k] = inserted[k] /\ deliveries'[k] = deliveries[k] /\ inserted'[k] # d
    BY <2>1, <2>2, <2>3, <2>4, <2>6, <2>7, <2>9 DEF JoinInv, RowsArePlanned
  <2>10. JoinTypeOK'
    BY <2>2, <2>6, <2>7
    DEF JoinTypeOK, Matching!Delivery, Matching!Endpoint, Matching!MatchedSubscription
  <2>11. deliveries'[n] # Engine!NoRow
    BY <2>3, <2>4, <2>5
  <2>12. \A k \in Slot : inserted'[k] = NotInserted <=> deliveries'[k] = Engine!NoRow
    BY <2>6, <2>8, <2>9, <2>11 DEF JoinInv, RowsArePlanned
  <2>13. \A k \in Slot : inserted'[k] # NotInserted =>
           /\ inserted'[k] \in planned'
           /\ recipient[k] = <<inserted'[k].alert, inserted'[k].consumer>>
           /\ tier[k] = inserted'[k].tier
    BY <2>1, <2>2, <2>8, <2>9 DEF JoinInv, RowsArePlanned
  <2>14. \A e \in planned' : \E k \in Slot : inserted'[k] = e
    <3>1. ASSUME NEW e \in planned PROVE \E k \in Slot : inserted'[k] = e
      <4>1. PICK k \in Slot : inserted[k] = e
        BY DEF JoinInv, RowsArePlanned
      <4>2. k # n
        BY <2>8, <4>1, PlannedType
      <4> QED
        BY <2>9, <4>1, <4>2
    <3> QED
      BY <2>1, <2>8, <3>1
  <2>15. \A k, l \in Slot :
           inserted'[k] = inserted'[l] => k = l \/ inserted'[k] = NotInserted
    BY <2>8, <2>9 DEF JoinInv, RowsArePlanned
  <2> QED
    BY <2>10, <2>12, <2>13, <2>14, <2>15 DEF JoinInv, RowsArePlanned, Engine!NoRow
<1> QED
  BY <1>1, <1>2

LEMMA JoinStep ==
  ASSUME JoinInv, PartsInv, [PipelineNext]_pipeVars
  PROVE  JoinInv'
<1>1. JoinTypeOK /\ cycle \in [Worker -> {"match", "dispatch"}]
  BY DEF JoinInv, JoinTypeOK
<1>2. ASSUME EP!OtherStep
      PROVE  \A n \in Slot : deliveries'[n] = Engine!NoRow <=> deliveries[n] = Engine!NoRow
  BY <1>2, ComponentAssumptions, EP!OnlyPlanningInserts, SameEngineNames DEF PartsInv
<1>3. CASE UNCHANGED pipeVars
  BY <1>1, <1>3, JoinKept DEF pipeVars, matchVars, engineVars, joinVars
<1>4. CASE ReviewerStep
  BY <1>1, <1>4, JoinKept DEF ReviewerStep, matchVars, engineVars, joinVars
<1>5. CASE SubscriberStep
  <2>1. UNCHANGED planned
    BY <1>5, PlannedUntouched
  <2> QED
    BY <1>1, <1>5, <2>1, JoinKept DEF SubscriberStep, engineVars, joinVars
<1>6. CASE ProviderStep \/ ClockStep
  <2>1. EP!OtherStep
    BY <1>6, SameOtherStep DEF ProviderStep, ClockStep
  <2>2. UNCHANGED <<inserted, planned, cycle>>
    BY <1>6 DEF ProviderStep, ClockStep, matchVars, joinVars
  <2> QED
    BY <1>1, <1>2, <2>1, <2>2, JoinKept
<1>7. ASSUME NEW f \in Form, NEW n \in Try, NEW a \in Alert, IssueAlert(f, n, a)
      PROVE  JoinInv'
  <2>1. UNCHANGED planned
    BY <1>7, PlannedUntouched DEF IssueAlert
  <2> QED
    BY <1>1, <1>7, <2>1, JoinKept DEF IssueAlert, engineVars, joinVars
<1>8. ASSUME NEW w \in Worker, MatchStep(w)
      PROVE  JoinInv'
  <2>1. cycle' \in [Worker -> {"match", "dispatch"}]
    BY <1>1, <1>8, TurnType DEF MatchStep
  <2>2. CASE \E d \in plan[w] : WritePlanned(w, d)
    BY <2>1, <2>2, WriteJoins
  <2>3. CASE /\ \/ Matching!ClaimUnpublished(w) \/ Matching!Match(w) \/ Matching!MarkPublished(w)
                \/ \E c \in Consumer : Matching!ReadPreference(w, c)
             /\ UNCHANGED <<engineVars, inserted>>
    <3>1. UNCHANGED planned
      BY <2>3, PlannedUntouched
    <3> QED
      BY <2>1, <2>3, <3>1, JoinKept DEF engineVars
  <2> QED
    BY <1>8, <2>2, <2>3 DEF MatchStep
<1>9. ASSUME NEW w \in Worker, NothingToMatch(w) \/ NothingToDispatch(w)
      PROVE  JoinInv'
  <2>1. cycle' \in [Worker -> {"match", "dispatch"}]
    BY <1>1, <1>9, TurnType DEF NothingToMatch, NothingToDispatch
  <2> QED
    BY <1>9, <2>1, JoinKept DEF NothingToMatch, NothingToDispatch, matchVars, engineVars
<1>10. ASSUME NEW w \in Worker, DispatchStep(w) \/ StopDispatching(w)
       PROVE  JoinInv'
  <2>1. cycle' \in [Worker -> {"match", "dispatch"}]
    BY <1>1, <1>10, TurnType DEF DispatchStep, StopDispatching
  <2>2. EP!OtherStep
    BY <1>10, SameOtherStep DEF DispatchStep, StopDispatching
  <2> QED
    BY <1>2, <1>10, <2>1, <2>2, JoinKept DEF DispatchStep, StopDispatching, matchVars
<1>11. ASSUME NEW w \in Worker, StopMatching(w)
       PROVE  JoinInv'
  <2>1. UNCHANGED planned
    BY <1>11, PlannedUntouched DEF StopMatching
  <2> QED
    BY <1>1, <1>11, <2>1, JoinKept DEF StopMatching, engineVars, joinVars
<1> QED
  BY <1>3, <1>4, <1>5, <1>6, <1>7, <1>8, <1>9, <1>10, <1>11 DEF PipelineNext, WorkerCycle

LEMMA JoinInvariant == PipelineSpec => []JoinInv
<1>1. PipelineInit => JoinInv
  <2> SUFFICES ASSUME PipelineInit PROVE JoinInv
    OBVIOUS
  <2>1. planned = {} /\ deliveries = [n \in Slot |-> Engine!NoRow]
    BY DEF PipelineInit, Matching!Init, Engine!Init
  <2> QED
    BY <2>1 DEF PipelineInit, JoinInv, JoinTypeOK, RowsArePlanned
<1>2. JoinInv /\ PartsInv /\ [PipelineNext]_pipeVars => JoinInv'
  BY JoinStep
<1> QED
  BY <1>1, <1>2, PartsInvariant, PTL DEF PipelineSpec

\* The table of deliveries is the table of the planned, one row for each, for any number of
\* workers, callbacks and faults (insert_delivery inserts and nothing deletes).
THEOREM RowsArePlannedHolds == PipelineSpec => []RowsArePlanned
<1>1. JoinInv => RowsArePlanned
  BY DEF JoinInv
<1> QED
  BY <1>1, JoinInvariant, PTL

-----------------------------------------------------------------------------
(* What the pipeline promises. *)

\* The row of what a provider took, and the delivery it is for.
LEMMA AcceptedIsPlanned ==
  ASSUME JoinInv, PartsInv, EP!AcceptedIsStarted, NEW m \in accepted
  PROVE  /\ m.delivery \in Slot
         /\ deliveries[m.delivery].attempt_count > 0
         /\ inserted[m.delivery] \in planned
         /\ recipient[m.delivery] =
              <<inserted[m.delivery].alert, inserted[m.delivery].consumer>>
<1>1. m.delivery \in Slot
  BY DEF PartsInv, EP!EngineInv, EP!TypeOK, EP!Message
<1>2. deliveries[m.delivery].attempt_count > 0
  BY DEF EP!AcceptedIsStarted
<1>3. deliveries[m.delivery] # Engine!NoRow
  BY <1>2 DEF Engine!NoRow
<1> QED
  BY <1>1, <1>2, <1>3 DEF JoinInv, RowsArePlanned

\* Nobody hears of an alert but for what explains it: an alert on record, of a case that was
\* verified, for a subscription that matched it, over an endpoint whose turn it was.  For any
\* number of cases, subscribers, workers, callbacks and faults.
THEOREM HeardIsExplainedHolds == PipelineSpec => []HeardIsExplained
<1>1. ASSUME JoinInv, PartsInv, EP!AcceptedIsStarted, AlertsFollowVerification
      PROVE  HeardIsExplained
  <2> SUFFICES ASSUME NEW m \in accepted
               PROVE  LET d == inserted[m.delivery] IN
                      /\ d \in planned /\ alerts[d.alert] # NoAlert
                      /\ \E e \in case_events :
                           e.case = alerts[d.alert].case /\ e.entered = "VERIFIED"
                      /\ \E s \in d.matching, e \in editions :
                           /\ owner[s.subscription] = d.consumer
                           /\ e.subscription = s.subscription /\ e.version = s.version
                           /\ d.alert \in e.rules
                      /\ \A n \in Rows(d.alert, d.consumer) :
                           tier[n] < tier[m.delivery] =>
                             deliveries[n].status = "FAILED_PERMANENTLY"
    BY DEF HeardIsExplained
  <2> DEFINE d == inserted[m.delivery]
  <2>1. /\ m.delivery \in Slot /\ deliveries[m.delivery].attempt_count > 0 /\ d \in planned
        /\ recipient[m.delivery] = <<d.alert, d.consumer>>
    BY <1>1, AcceptedIsPlanned
  <2>2. MP!Placed(d) /\ MP!Explained(d)
    BY <1>1, <2>1 DEF PartsInv, MP!PlanInv
  <2>3. d.alert \in Issued
    BY <1>1, <2>2 DEF PartsInv, MP!OutboxInv, MP!TypeOK, MP!Placed
  <2>4. d.alert \in Alert /\ alerts[d.alert] # NoAlert
    BY <2>3 DEF Issued
  <2>5. \E e \in case_events : e.case = alerts[d.alert].case /\ e.entered = "VERIFIED"
    BY <1>1, <2>4 DEF AlertsFollowVerification
  <2>6. \E s \in d.matching, e \in editions :
          /\ owner[s.subscription] = d.consumer
          /\ e.subscription = s.subscription /\ e.version = s.version /\ d.alert \in e.rules
    BY <2>2 DEF MP!Explained
  <2>7. ASSUME NEW n \in Rows(d.alert, d.consumer), tier[n] < tier[m.delivery]
        PROVE  deliveries[n].status = "FAILED_PERMANENTLY"
    <3>1. n \in EP!Lower(m.delivery)
      BY <2>1, <2>7 DEF Rows, EP!Lower
    <3> QED
      BY <1>1, <2>1, <3>1 DEF PartsInv, EP!EngineInv, EP!FallbackGate
  <2> QED
    BY <2>1, <2>4, <2>5, <2>6, <2>7
<1>2. EP!Spec => [](EP!AcceptedIsStarted)
  BY ComponentAssumptions, EP!AcceptedIsStartedHolds
<1> QED
  BY <1>1, <1>2, JoinInvariant, PartsInvariant, EngineProved, ImplementsIssuance,
     VerificationTheorem, PTL

\* Nobody is reached twice about one alert, unless by the endpoints it asked for at once.
THEOREM ReachedOnceHolds == PipelineSpec => []ReachedOnce
<1>1. ASSUME JoinInv, PartsInv
      PROVE  ReachedOnce
  <2> SUFFICES ASSUME NEW m \in Slot, NEW n \in Slot, m # n, recipient[m] = recipient[n],
                      Engine!Reached(deliveries[m]), Engine!Reached(deliveries[n])
               PROVE  /\ tier[m] = 0 /\ tier[n] = 0
                      /\ inserted[m].endpoint # inserted[n].endpoint
    BY DEF ReachedOnce
  <2>1. ASSUME NEW k \in Slot, NEW l \in Slot, recipient[k] = recipient[l],
               Engine!Reached(deliveries[k]), Engine!Reached(deliveries[l])
        PROVE  ~(tier[k] < tier[l])
    <3>1. deliveries[l].attempt_count \in 1..MaxAttempts
      BY <1>1, <2>1 DEF PartsInv, EP!EngineInv, EP!RowsWellFormed, Engine!Reached
    <3>2. MaxAttempts \in Nat
      BY PipelineAssumption DEF Engine!RetryPolicyAssumption
    <3>3. deliveries[l].attempt_count > 0
      BY <3>1, <3>2
    <3>4. tier[k] < tier[l] => k \in EP!Lower(l)
      BY <2>1 DEF EP!Lower
    <3>5. k \in EP!Lower(l) => deliveries[k].status = "FAILED_PERMANENTLY"
      BY <1>1, <3>3 DEF PartsInv, EP!EngineInv, EP!FallbackGate
    <3> QED
      BY <2>1, <3>4, <3>5 DEF Engine!Reached
  <2>2. tier[m] = tier[n]
    <3>1. tier[m] \in Nat /\ tier[n] \in Nat
      BY PipelineAssumption DEF Engine!EngineAssumption
    <3> QED
      BY <2>1, <3>1
  <2>3. deliveries[m] # Engine!NoRow /\ deliveries[n] # Engine!NoRow
    BY DEF Engine!NoRow, Engine!Reached
  <2>4. /\ inserted[m] \in planned /\ inserted[n] \in planned /\ inserted[m] # inserted[n]
        /\ inserted[m].alert = inserted[n].alert /\ inserted[m].consumer = inserted[n].consumer
        /\ tier[m] = inserted[m].tier /\ tier[n] = inserted[n].tier
    BY <1>1, <2>3 DEF JoinInv, RowsArePlanned
  <2>5. inserted[m].tier = 0 /\ ~MP!SameKey(inserted[m], inserted[n])
    <3>1. MP!TiersFromOnePreference
      BY <1>1 DEF PartsInv, MP!PlanInv
    <3>2. \A d, e \in planned :
            /\ MP!SameKey(d, e) => d = e
            /\ d.alert = e.alert /\ d.consumer = e.consumer /\ d.tier = e.tier
                 => d = e \/ d.tier = 0
      BY <3>1 DEF MP!TiersFromOnePreference
    <3> QED
      BY <2>2, <2>4, <3>2
  <2> QED
    BY <2>2, <2>4, <2>5 DEF MP!SameKey
<1> QED
  BY <1>1, JoinInvariant, PartsInvariant, PTL

\* Whoever waited for an alert has its rows in the table once the event is published, for
\* everything the preference asks for (process_batch of subscription_matching).
THEOREM OwedIsInTableHolds == PipelineSpec => []OwedIsInTable
<1>1. ASSUME JoinInv, PartsInv, MP!PublishedReachesMatched
      PROVE  OwedIsInTable
  <2> SUFFICES ASSUME NEW a \in published, NEW pair \in promised[a],
                      NEW t \in Matching!Tiers(pair[2])
               PROVE  \E n \in Rows(a, owner[pair[1]]) :
                        tier[n] = t.tier /\ inserted[n].endpoint = t.endpoint
    BY DEF OwedIsInTable
  <2>1. t \in MP!Tiers(pair[2])
    BY DEF Matching!Tiers, MP!Tiers
  <2>2. PICK d \in planned : /\ d.alert = a /\ d.consumer = owner[pair[1]]
                             /\ d.endpoint = t.endpoint /\ d.tier = t.tier
    BY <1>1, <2>1 DEF MP!PublishedReachesMatched
  <2>3. PICK n \in Slot : inserted[n] = d
    BY <1>1 DEF JoinInv, RowsArePlanned
  <2>4. d # NotInserted
    BY <1>1, PlannedType
  <2>5. n \in Rows(a, owner[pair[1]]) /\ tier[n] = t.tier
    BY <1>1, <2>2, <2>3, <2>4 DEF JoinInv, RowsArePlanned, Rows
  <2> QED
    BY <2>2, <2>3, <2>5
<1>2. MP!Spec => [](MP!PublishedReachesMatched)
  BY ComponentAssumptions, MP!PublishedReachesMatchedAlways
<1> QED
  BY <1>1, <1>2, JoinInvariant, PartsInvariant, MatchingProved, PTL
=============================================================================
