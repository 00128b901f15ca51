---------------------------- MODULE AlertIssuance ----------------------------
(***************************************************************************)
(* Alerts issued from cases and cancelled again, beside the case workflow: *)
(* the Alert aggregate (domain/src/alert.rs), its endpoints                *)
(* (apps/api/src/alerts.rs), its transactions                              *)
(* (infrastructure/src/postgres/alerts.rs), and the clients that post an   *)
(* alert and post it again when they get no answer.                        *)
(***************************************************************************)
EXTENDS CaseWorkflow

CONSTANTS
  Alert,
  Form,         \* clients, each with one alert to issue
  caseOf,       \* [Form -> Case]
  keying,       \* [Form -> {"fresh", "kept", "none"}]: its Idempotency-Key
  MaxTries,     \* bound on the times a client posts
  Canceller,    \* cancellations the API serves at the same time
  Nothing       \* an idle canceller

ASSUME AlertAssumption ==
  /\ caseOf \in [Form -> Case]
  /\ keying \in [Form -> {"fresh", "kept", "none"}]
  /\ MaxTries \in Nat \ {0}

Try == 1..MaxTries

\* The console makes a new key in every call of createAlert; the API accepts a
\* key the client keeps, or none.
NoKey == <<>>
KeyFor(f, n) == CASE keying[f] = "fresh" -> <<f, n>>
                  [] keying[f] = "kept"  -> <<f, 1>>
                  [] keying[f] = "none"  -> NoKey

AlertRow == [status : {"ACTIVE", "CANCELLED"}, version : 1..2, case : Case,
             key : (Form \X Try) \cup {NoKey}]
NoAlert  == [status |-> "ABSENT"]

Loaded == [alert : Alert, version : 1..2]

VARIABLES
  alerts,        \* [Alert -> AlertRow or NoAlert]
  alert_events,  \* [alert, version, type, actor] rows
  form,          \* [Form -> {"open", "waiting", "shown"}]
  tries,         \* [Form -> times posted]
  post,          \* [Form \X Try -> {"unsent", "sent", "accepted", "done"}]
  cancelling     \* [Canceller -> Loaded or Nothing]: the alert in memory

clientVars == <<form, tries>>
alertVars  == <<alerts, alert_events, clientVars, post, cancelling>>
vars       == <<caseVars, alertVars>>

AlertTypeOK ==
  /\ alerts \in [Alert -> AlertRow \cup {NoAlert}]
  /\ alert_events \subseteq [alert : Alert, version : 1..2,
                             type : {"ALERT_CREATED", "ALERT_CANCELLED"},
                             actor : Form \cup Canceller]
  /\ form \in [Form -> {"open", "waiting", "shown"}]
  /\ tries \in [Form -> 0..MaxTries]
  /\ post \in [Form \X Try -> {"unsent", "sent", "accepted", "done"}]
  /\ cancelling \in [Canceller -> Loaded \cup {Nothing}]

Init ==
  /\ CaseInit
  /\ alerts = [a \in Alert |-> NoAlert]
  /\ alert_events = {}
  /\ form = [f \in Form |-> "open"]
  /\ tries = [f \in Form |-> 0]
  /\ post = [p \in Form \X Try |-> "unsent"]
  /\ cancelling = [x \in Canceller |-> Nothing]

-----------------------------------------------------------------------------
(* Clients. *)

\* handleSubmit: an error leaves the form open to be submitted again.
Submit(f) ==
  /\ form[f] = "open" /\ tries[f] < MaxTries
  /\ tries' = [tries EXCEPT ![f] = tries[f] + 1]
  /\ form' = [form EXCEPT ![f] = "waiting"]
  /\ post' = [post EXCEPT ![<<f, tries[f] + 1>>] = "sent"]
  /\ UNCHANGED <<alerts, alert_events, cancelling>>

\* The connection breaks: the client sees an error, the server may go on.
LoseAnswer(f) ==
  /\ form[f] = "waiting"
  /\ form' = [form EXCEPT ![f] = "open"]
  /\ UNCHANGED <<alerts, alert_events, tries, post, cancelling>>

\* The request is over; whoever still waits for it sees the alert or an error.
Answer(f, n, page) ==
  /\ post' = [post EXCEPT ![<<f, n>>] = "done"]
  /\ form' = IF form[f] = "waiting" /\ tries[f] = n
               THEN [form EXCEPT ![f] = page] ELSE form
  /\ UNCHANGED tries

-----------------------------------------------------------------------------
(* create_alert. *)

\* Mutant: review is enough.
VerifiedOrUnderReview(status) ==
  status \in {"UNDER_REVIEW", "VERIFIED", "ACTIVE", "RESOLVED"}

\* is_verified_or_later
VerifiedOrLater(status) == status \in {"VERIFIED", "ACTIVE", "RESOLVED"}

\* find_by_id and Alert::create_from_case, in memory; 404 and 409 end here.
CheckCase(f, n) ==
  /\ post[<<f, n>>] = "sent"
  /\ IF VerifiedOrLater(cases[caseOf[f]].status)
       THEN /\ post' = [post EXCEPT ![<<f, n>>] = "accepted"]
            /\ UNCHANGED clientVars
       ELSE Answer(f, n, "open")
  /\ UNCHANGED <<alerts, alert_events, cancelling>>

\* Mutant: the key of a cancelled alert is free again.
KeyUsedByActive(key) ==
  key # NoKey /\ \E a \in Alert :
    alerts[a] # NoAlert /\ alerts[a].status = "ACTIVE" /\ alerts[a].key = key

\* insert_alert, ON CONFLICT of alerts_idempotency_key_hash_idx
KeyUsed(key) ==
  key # NoKey /\ \E a \in Alert : alerts[a] # NoAlert /\ alerts[a].key = key

\* create: the alert and its event in one transaction; 201.
InsertAlert(f, n, a) ==
  /\ post[<<f, n>>] = "accepted"
  /\ ~KeyUsed(KeyFor(f, n))
  /\ alerts[a] = NoAlert
  /\ alerts' = [alerts EXCEPT ![a] =
       [status |-> "ACTIVE", version |-> 1, case |-> caseOf[f], key |-> KeyFor(f, n)]]
  /\ alert_events' = alert_events \cup
       {[alert |-> a, version |-> 1, type |-> "ALERT_CREATED", actor |-> f]}
  /\ Answer(f, n, "shown")
  /\ UNCHANGED cancelling

\* Duplicate: rolled back, 409 without the alert.
RefuseDuplicate(f, n) ==
  /\ post[<<f, n>>] = "accepted"
  /\ KeyUsed(KeyFor(f, n))
  /\ Answer(f, n, "open")
  /\ UNCHANGED <<alerts, alert_events, cancelling>>

\* A database error before the commit; 500.
PostFails(f, n) ==
  /\ post[<<f, n>>] \in {"sent", "accepted"}
  /\ Answer(f, n, "open")
  /\ UNCHANGED <<alerts, alert_events, cancelling>>

-----------------------------------------------------------------------------
(* cancel. *)

\* find_by_id and Alert::cancel, in memory: an alert that is not ACTIVE is 409.
LoadToCancel(x, a) ==
  /\ cancelling[x] = Nothing
  /\ alerts[a] # NoAlert /\ alerts[a].status = "ACTIVE"
  /\ cancelling' = [cancelling EXCEPT ![x] = [alert |-> a, version |-> alerts[a].version]]
  /\ UNCHANGED <<alerts, alert_events, clientVars, post>>

\* Mutant: UPDATE alerts SET .. WHERE id alone.
StillThere(l) == alerts[l.alert] # NoAlert

\* WHERE id = .. AND aggregate_version = ..
VersionCurrent(l) == alerts[l.alert].version = l.version

\* Mutant: counted by Alert::cancel and once more by the UPDATE.
CountedTwice(l) == l.version + 2

\* Alert::cancel
Raised(l) == l.version + 1

\* PostgresAlertRepository::cancel: Cancelled, Conflict, or a database error
\* that changes nothing.
StoreCancel(x) ==
  LET l == cancelling[x] IN
  /\ l # Nothing
  /\ \/ /\ VersionCurrent(l)
        /\ alerts' = [alerts EXCEPT ![l.alert] =
             [@ EXCEPT !.status = "CANCELLED", !.version = Raised(l)]]
        /\ alert_events' = alert_events \cup
             {[alert |-> l.alert, version |-> Raised(l),
               type |-> "ALERT_CANCELLED", actor |-> x]}
     \/ UNCHANGED <<alerts, alert_events>>
  /\ cancelling' = [cancelling EXCEPT ![x] = Nothing]
  /\ UNCHANGED <<clientVars, post>>

-----------------------------------------------------------------------------
AlertNext ==
  \/ \E f \in Form : Submit(f) \/ LoseAnswer(f)
  \/ \E f \in Form, n \in Try :
       \/ CheckCase(f, n) \/ RefuseDuplicate(f, n) \/ PostFails(f, n)
       \/ \E a \in Alert : InsertAlert(f, n, a)
  \/ \E x \in Canceller : StoreCancel(x) \/ \E a \in Alert : LoadToCancel(x, a)

\* Alerts read cases; neither writes the other's tables.
Next ==
  \/ CaseNext /\ UNCHANGED alertVars
  \/ AlertNext /\ UNCHANGED caseVars

Spec == Init /\ [][Next]_vars

-----------------------------------------------------------------------------
(* Properties. *)

\* The alerts the client's posts made.
AlertsOf(f) ==
  {e.alert : e \in {d \in alert_events : d.type = "ALERT_CREATED" /\ d.actor = f}}

\* A client that keeps its key makes one alert at most, however often it posts,
\* however late a lost post arrives and whatever becomes of the alert; and no
\* client is shown an alert that is not there (migration 0017: "a retried POST
\* request must produce one alert, not two").
KeptKeyMakesOne ==
  \A f \in Form :
    /\ keying[f] = "kept" => Cardinality(AlertsOf(f)) <= 1
    /\ form[f] = "shown" => AlertsOf(f) # {}

\* alert_events is the story of an alert: created, and cancelled at most once by
\* one request, whoever else tries at the same time (PostgresAlertRepository).
AlertHistory ==
  \A a \in Alert :
    LET events == {e \in alert_events : e.alert = a}
        Typed(type) == {e \in events : e.type = type}
    IN IF alerts[a] = NoAlert THEN events = {}
       ELSE /\ Cardinality(events) = alerts[a].version
            /\ Cardinality(Typed("ALERT_CREATED")) = 1
            /\ alerts[a].status = "CANCELLED" <=> Typed("ALERT_CANCELLED") # {}

\* The case is read before the alert is written and may have moved on, to
\* CANCELLED even; still, no alert exists whose case was not verified before it
\* (is_verified_or_later and the lifecycle together).
AlertsFollowVerification ==
  \A a \in Alert : alerts[a] # NoAlert =>
    \E e \in case_events : e.case = alerts[a].case /\ e.entered = "VERIFIED"

\* createAlert of the console: "a fresh key per submission, so a duplicate
\* click/retry cannot create two alerts from the same case".
RetryCannotCreateTwo == \A f \in Form : Cardinality(AlertsOf(f)) <= 1

=============================================================================
