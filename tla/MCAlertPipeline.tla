--------------------------- MODULE MCAlertPipeline ---------------------------
(* An instance of AlertPipeline for TLC: one alert, and two workers.  The     *)
(* case is verified before anything else happens, then somebody subscribes.   *)
(* The initial state chooses the rest of the scene: a subscriber with a       *)
(* fallback who changes its mind, or who does not while workers stop, or      *)
(* while the provider calls back to the one worker there is; or two           *)
(* subscribers together, one of whom wants the alert over all endpoints at    *)
(* once.  A worker may hang in a push, except where it is the only one.       *)
EXTENDS AlertPipeline, TLC

CONSTANTS k1, c1, c2, s1, s2, push, sms, mail, w1

VARIABLE scene

OneCase == [f \in Form |-> k1]
AllKept == [f \in Form |-> "kept"]
Owners  == [s \in Subscription |-> IF s = s1 THEN c1 ELSE c2]
OneRule == {Alert}

Chain == [strategy |-> "PRIMARY_FALLBACK", channels |-> <<push, sms>>]
Swap  == [strategy |-> "PRIORITY_LIST", channels |-> <<sms, push>>]
All   == [strategy |-> "ALL", channels |-> <<push, sms, mail>>]
Lone  == [strategy |-> "PRIMARY_FALLBACK", channels |-> <<push>>]
Preferences == {Chain, Swap, All, Lone}

\* c1 has a fallback, 2.
Recipients   == [n \in Slot |-> <<1, IF n \in {1, 2} THEN c1 ELSE c2>>]
SecondIsLast == [n \in Slot |-> IF n = 2 THEN 1 ELSE 0]

MCpipeVars == <<pipeVars, scene>>

Verified == \E e \in case_events : e.entered = "VERIFIED"

\* Straight to VERIFIED, and no further.
CaseFirst ==
  /\ ~Verified => UNCHANGED <<alertVars, matchVars, engineVars>>
  /\ reports' # reports => cases' # cases
  /\ \A q \in Request : job'[q] # NoRequest =>
       IsAllowed(cases[k1].status, job'[q].change) /\ ~Verified

\* Whoever subscribes has chosen a preference; the alert comes after that.
SubscribersFirst ==
  /\ Issued' # Issued => \A s \in Subscription :
       Matching!Exists(s) \/ (s = s2 /\ scene # "together")
  /\ \A c \in Consumer : preferences'[c] # preferences[c] =>
       preferences'[c] = CASE c = c2 -> All
                           [] c = c1 /\ scene = "together" -> Lone
                           [] OTHER -> IF Issued = {} THEN Chain ELSE Swap
  /\ \A e \in editions' \ editions :
       /\ preferences[owner[e.subscription]] # NoPreference
       /\ e.subscription = s2 => scene = "together"

\* The rest of the alert's life is the workers', but for who disturbs them.
Undisturbed ==
  /\ Issued # {} /\ (scene # "subscribers" \/ Issued \subseteq published) =>
       UNCHANGED <<subscriptions, deleted, preferences, editing, cancelling, form>>
  /\ scene # "stops" => UNCHANGED <<lost, stranded>>
                        /\ \A w \in Worker : answer'[w] # "retryable"
  /\ scene = "stops" => faults' + stops' < 2
  /\ scene # "callbacks" => UNCHANGED callbacks
  /\ scene = "callbacks" => \A w \in Worker \ {w1} : cycle'[w] = cycle[w]
  /\ UNCHANGED scene

\* Where both have subscribed, the row of c1 comes first, then those of c2 as it lists its
\* channels.
InListOrder ==
  scene = "together" => \A n \in {3, 4, 5} : inserted'[n] # inserted[n] =>
    /\ inserted[IF n = 3 THEN 1 ELSE n - 1] # NotInserted
    /\ inserted'[n].endpoint = All.channels[n - 2]

\* The last of these channels takes nothing.
MailIsRefused == \A m \in accepted' : inserted'[m.delivery].endpoint # mail

\* Workers are alike: let w1 be the one that claims the event.
OneMatches == \A w \in Worker \ {w1} : events'[w] = {}

Allowed ==
  CaseFirst /\ SubscribersFirst /\ Undisturbed /\ InListOrder /\ MailIsRefused /\ OneMatches

MCPipelineInit ==
  PipelineInit /\ scene \in {"subscribers", "stops", "callbacks", "together"}

MCPipelineSpec ==
  /\ MCPipelineInit /\ [][PipelineNext /\ Allowed]_MCpipeVars
  /\ WF_MCpipeVars(ClockStep /\ Allowed)
  /\ \A w \in Worker :
       WF_MCpipeVars((Waiting(w) => scene = "callbacks") /\ WorkerCycle(w) /\ Allowed)
=============================================================================
