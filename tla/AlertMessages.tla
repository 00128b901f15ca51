---------------------------- MODULE AlertMessages ----------------------------
(* What an alert says and how one delivery of it is sent: the policy and   *)
(* the fields of domain/src/alert.rs, the message of                       *)
(* application/src/channel.rs, the channel adapters of                     *)
(* infrastructure/src/channels, and the waits of RetryPolicy between       *)
(* attempts.  Who claims a delivery when is module DeliveryEngine; here    *)
(* one worker sends, and the provider behind the adapter may take a        *)
(* message whose answer is never read.                                     *)
EXTENDS Integers, Sequences

CONSTANTS
  FieldLists,   \* lists of fields that are posted
  LegacyLists,  \* lists of fields of alerts from before descriptions had two languages
  RetryLimit,   \* RetryPolicy.max_attempts
  NoDraft, NoAlertYet, NoAdapterYet

Life == INSTANCE DeliveryLifecycle WITH MaxAttempts <- RetryLimit

AlertField ==
  {"INCIDENT_CATEGORY", "APPROXIMATE_AGE", "LAST_SEEN_GENERAL_AREA", "TIME_WINDOW",
   "SAFE_DESCRIPTION", "SAFE_DESCRIPTION_EN", "SAFE_DESCRIPTION_FR", "OFFICIAL_CONTACT",
   "CASE_REFERENCE", "REPORTER_IDENTITY", "INTERNAL_NOTES", "EXACT_LOCATION",
   "WITNESS_DETAILS"}
Descriptions == {"SAFE_DESCRIPTION", "SAFE_DESCRIPTION_EN", "SAFE_DESCRIPTION_FR"}

\* A value is text, or nothing but spaces, or nothing but other white space.
FieldValue == [field : AlertField, value : {"text", "spaces", "tabs"}]

ASSUME MessagesAssumption ==
  /\ RetryLimit \in Nat \ {0}
  /\ FieldLists \subseteq Seq(FieldValue) /\ LegacyLists \subseteq Seq(FieldValue)

VARIABLES
  draft,     \* an alert created in memory
  alert,     \* its row and fields, once stored
  adapters,  \* the registry of channels, from the environment of the worker
  target,    \* channel and endpoint of the delivery
  delivery,  \* its row
  exchange,  \* what the attempt under way waits for, or its outcome
  taken,     \* copies of the message that a provider took
  unheard,   \* history: copies taken whose answer was not read
  heard,     \* history: what was heard of the last attempt that was recorded
  waits      \* history: seconds waited before each retry

messageVars ==
  <<draft, alert, adapters, target, delivery, exchange, taken, unheard, heard, waits>>

-----------------------------------------------------------------------------
(* domain/src/alert.rs *)

IsForbidden(field) == field = "REPORTER_IDENTITY"
IsRestricted(field) == field \in {"INTERNAL_NOTES", "EXACT_LOCATION", "WITNESS_DETAILS"}
AdmitsInternalOnlyFields(visibility) == visibility \in {"INTERNAL", "PARTNER"}

\* AlertPolicy::new accepts it.
IsPolicy(p) ==
  /\ p.allows # {}
  /\ \A field \in p.allows : ~IsForbidden(field)
  /\ ~AdmitsInternalOnlyFields(p.visibility) => \A field \in p.allows : ~IsRestricted(field)
  /\ p.trigger \in {"CASE_VERIFIED", "CASE_ACTIVATED", "CASE_RESOLVED"}

MissingChildCommunity ==
  [incident |-> "MISSING_CHILD", visibility |-> "COMMUNITY", trigger |-> "CASE_VERIFIED",
   allows |-> {"INCIDENT_CATEGORY", "APPROXIMATE_AGE", "LAST_SEEN_GENERAL_AREA",
               "TIME_WINDOW", "SAFE_DESCRIPTION_EN", "SAFE_DESCRIPTION_FR",
               "OFFICIAL_CONTACT", "CASE_REFERENCE"}]

\* resolve_policy: the one policy of the deployment, which new must accept (.expect).
ResolvePolicy(id) == {p \in {MissingChildCommunity} : id = "MISSING_CHILD_COMMUNITY" /\ IsPolicy(p)}

\* authorize_alert_action
MayAct(actor, visibility) == AdmitsInternalOnlyFields(visibility) \/ actor = "reviewer"

\* Mutant: what the allowlist does not name is let through, once.
FieldsAdmittedOnce(p, fields) ==
  \A i, j \in DOMAIN fields : fields[i].field = fields[j].field => i = j

\* The fields that Alert::create_from_case accepts: on the allowlist, each once.
FieldsAdmitted(p, fields) ==
  /\ \A i \in DOMAIN fields : fields[i].field \in p.allows
  /\ \A i, j \in DOMAIN fields : fields[i].field = fields[j].field => i = j

CreatesFromCase(case, p, fields) ==
  /\ case.status \in {"VERIFIED", "ACTIVE", "RESOLVED"}
  /\ case.incident = p.incident
  /\ FieldsAdmitted(p, fields)

\* CHECKs and key of table alert_fields; btrim takes away spaces only.
StoresFields(fields) ==
  /\ \A i \in DOMAIN fields :
       fields[i].value # "spaces" /\ fields[i].field # "REPORTER_IDENTITY"
  /\ \A i, j \in DOMAIN fields : fields[i].field = fields[j].field => i = j

\* Alerts from before descriptions had two languages were written by a policy of their time
\* for the community, which admitted nothing that is forbidden or restricted.
ASSUME LegacyAssumption ==
  \A fields \in LegacyLists :
    /\ StoresFields(fields)
    /\ \A i \in DOMAIN fields : ~IsForbidden(fields[i].field) /\ ~IsRestricted(fields[i].field)

\* field_value, as the set of what is found.
Found(fields, field) == {fields[i] : i \in {j \in DOMAIN fields : fields[j].field = field}}

\* description_for_locale: a value is there or not, whatever it says.
DescriptionFor(fields, locale) ==
  LET primary   == IF locale = "fr" THEN "SAFE_DESCRIPTION_FR" ELSE "SAFE_DESCRIPTION_EN"
      secondary == IF locale = "fr" THEN "SAFE_DESCRIPTION_EN" ELSE "SAFE_DESCRIPTION_FR"
  IN IF Found(fields, primary) # {} THEN Found(fields, primary)
     ELSE IF Found(fields, secondary) # {} THEN Found(fields, secondary)
     ELSE Found(fields, "SAFE_DESCRIPTION")

\* build_outbound_message: severity and target geography, and these fields.
OutboundMessage(fields, locale) ==
  {found \in DescriptionFor(fields, locale) : found.value = "text"}
  \cup Found(fields, "OFFICIAL_CONTACT") \cup Found(fields, "CASE_REFERENCE")

-----------------------------------------------------------------------------
(* Channel adapters. *)

ChannelType == {"WHATS_APP", "SMS", "EMAIL", "PUSH"}

\* Addresses by the shape the adapters look at.
Address ==
  [kind : {"number"}, plus : BOOLEAN, digits : {7, 8, 15, 16}]
  \cup [kind : {"mailbox"}, dot : BOOLEAN] \cup [kind : {"subscription", "other"}]

LooksLikeE164(address) == address.kind = "number" /\ address.plus /\ address.digits \in 8 .. 15
LooksLikeEmail(address) == address.kind = "mailbox" /\ address.dot

ValidateEndpoint(channel, address) ==
  CASE channel \in {"WHATS_APP", "SMS"} -> LooksLikeE164(address)
    [] channel = "EMAIL"                -> LooksLikeEmail(address)
    [] channel = "PUSH"                 -> address.kind = "subscription"

\* ChannelRegistry as main fills it.
Registries ==
  {registry \in [ChannelType -> {"sandbox", "infobip", "resend", "webpush"}] :
     /\ registry["WHATS_APP"] = "sandbox" /\ registry["PUSH"] = "webpush"
     /\ registry["SMS"] \in {"sandbox", "infobip"}
     /\ registry["EMAIL"] \in {"sandbox", "resend"}}

\* With no credentials at all.
AllSandboxed == [channel \in ChannelType |-> IF channel = "PUSH" THEN "webpush" ELSE "sandbox"]

\* What a provider answers: taken, its refusals, its own failures.
ProviderStatus == {"2xx", "404", "409", "410", "422", "429", "5xx"}

\* The refusals that send calls retryable.
Retryable(adapter, status) ==
  status \in {"429", "5xx"} \/ (adapter = "resend" /\ status = "409")

\* ChannelSendOutcome and ChannelError, with what the adapter had learnt from the provider.
Sent == [result |-> "sent", retryable |-> FALSE, status |-> "2xx"]
Failed(retryable, status) == [result |-> "failed", retryable |-> retryable, status |-> status]

\* RetryPolicy::backoff_after_attempt, in seconds.
Exponent(attempts) ==
  IF attempts = 0 THEN 0 ELSE IF attempts - 1 < 6 THEN attempts - 1 ELSE 6

\* 1 << exponent
Multipliers == <<1, 2, 4, 8, 16, 32, 64>>

BackoffAfterAttempt(attempts) ==
  LET seconds == 30 * Multipliers[Exponent(attempts) + 1]
  IN IF seconds < 1800 THEN seconds ELSE 1800

-----------------------------------------------------------------------------
Idle == [stage |-> "idle"]

MessagesTypeOK ==
  /\ draft = NoDraft \/ draft \in FieldLists
  /\ alert = NoAlertYet \/ alert \in FieldLists \cup LegacyLists
  /\ adapters \in Registries
  /\ target = NoAdapterYet
       \/ target \in [channel : ChannelType, address : Address]
  /\ delivery \in Life!Row /\ exchange.stage \in {"idle", "local", "wire", "over"}
  /\ taken \in 0 .. RetryLimit /\ unheard \in 0 .. RetryLimit
  /\ heard \in ProviderStatus \cup {"none", "local"} /\ waits \in Seq(Nat)

MessagesInit ==
  /\ draft = NoDraft /\ alert \in {NoAlertYet} \cup LegacyLists
  /\ adapters \in Registries
  /\ target = NoAdapterYet /\ delivery = Life!NoRow /\ exchange = Idle
  /\ taken = 0 /\ unheard = 0 /\ heard = "none" /\ waits = <<>>

sending == <<target, delivery, exchange, taken, unheard, heard, waits>>

\* create_alert, in memory; who may issue is module OrganizationTrust, and a blank target
\* geography is refused.
DraftAlert(id, actor, case, fields) ==
  /\ draft = NoDraft /\ alert = NoAlertYet
  /\ \E p \in ResolvePolicy(id) : MayAct(actor, p.visibility) /\ CreatesFromCase(case, p, fields)
  /\ draft' = fields
  /\ UNCHANGED <<alert, adapters>> /\ UNCHANGED sending

\* insert_alert and insert_alert_fields: all of it or, on an error, nothing.
StoreAlert ==
  /\ draft # NoDraft
  /\ draft' = NoDraft
  /\ \/ StoresFields(draft) /\ alert' = draft
     \/ UNCHANGED alert
  /\ UNCHANGED adapters /\ UNCHANGED sending

\* A consumer who matches, with one channel; the locale is the reader's in NothingUnpublished.
PlanDelivery(channel, address) ==
  /\ alert # NoAlertYet /\ delivery = Life!NoRow
  /\ target' = [channel |-> channel, address |-> address]
  /\ delivery' = Life!PlanOne
  /\ UNCHANGED <<draft, alert, adapters, exchange, taken, unheard, heard, waits>>

\* claim_next, once next_attempt_at has passed.
ClaimToSend ==
  /\ Life!CanStartAttempt(delivery) /\ exchange = Idle
  /\ delivery' = Life!StartAttempt(delivery)
  /\ exchange' = [stage |-> "local"]
  /\ UNCHANGED <<draft, alert, adapters, target, taken, unheard, heard, waits>>

Over(outcome) == exchange' = [stage |-> "over", outcome |-> outcome]

Adapter == adapters[target.channel]
Valid == ValidateEndpoint(target.channel, target.address)

\* send looks at the address again; a push message may not be signed or encrypted.
RefuseLocally ==
  /\ exchange.stage = "local"
  /\ ~Valid \/ Adapter = "webpush"
  /\ Over(Failed(FALSE, "local"))
  /\ UNCHANGED <<draft, alert, adapters, target, delivery, taken, unheard, heard, waits>>

\* A sandbox prints the message, which is all that will become of it.
PrintInSandbox ==
  /\ exchange.stage = "local" /\ Valid /\ Adapter = "sandbox"
  /\ Over(Sent) /\ taken' = taken + 1
  /\ UNCHANGED <<draft, alert, adapters, target, delivery, unheard, heard, waits>>

PostToProvider ==
  /\ exchange.stage = "local" /\ Valid /\ Adapter # "sandbox"
  /\ exchange' = [stage |-> "wire"]
  /\ UNCHANGED <<draft, alert, adapters, target, delivery, taken, unheard, heard, waits>>

\* Mutant: an answer that cannot be read is a success.
ProviderTakesUnread ==
  /\ exchange.stage = "wire"
  /\ taken' = taken + 1
  /\ \/ Over(Sent) /\ UNCHANGED unheard
     \/ Over(Sent) /\ unheard' = unheard + 1
  /\ UNCHANGED <<draft, alert, adapters, target, delivery, heard, waits>>

\* 2xx; the answer may be lost, late or, but for push, unreadable.
ProviderTakes ==
  /\ exchange.stage = "wire"
  /\ taken' = taken + 1
  /\ \/ Over(Sent) /\ UNCHANGED unheard
     \/ Over(Failed(TRUE, "none")) /\ unheard' = unheard + 1
  /\ UNCHANGED <<draft, alert, adapters, target, delivery, heard, waits>>

\* Any other status.
ProviderRefuses(status) ==
  /\ exchange.stage = "wire" /\ status # "2xx"
  /\ Over(Failed(Retryable(Adapter, status), status))
  /\ UNCHANGED <<draft, alert, adapters, target, delivery, taken, unheard, heard, waits>>

\* The provider is not reached.
Unreachable ==
  /\ exchange.stage = "wire" /\ Over(Failed(TRUE, "none"))
  /\ UNCHANGED <<draft, alert, adapters, target, delivery, taken, unheard, heard, waits>>

\* record_success or record_failure, and apply_attempt_transition with retry_backoff.
RecordOutcome ==
  LET o == exchange.outcome IN
  /\ exchange.stage = "over"
  /\ delivery' = IF o.result = "sent" THEN Life!RecordSuccess(delivery)
                 ELSE Life!RecordFailure(delivery, o.retryable)
  /\ waits' = IF delivery'.status = "RETRYING"
              THEN Append(waits, BackoffAfterAttempt(delivery.attempt_count)) ELSE waits
  /\ heard' = o.status
  /\ exchange' = Idle
  /\ UNCHANGED <<draft, alert, adapters, target, taken, unheard>>

MessagesNext ==
  \/ \E id \in {"MISSING_CHILD_COMMUNITY", "unknown"}, actor \in {"reviewer", "automated"},
       status \in {"UNDER_REVIEW", "VERIFIED"},
       incident \in {"MISSING_CHILD", "OTHER_PROTECTION_INCIDENT"}, fields \in FieldLists :
       DraftAlert(id, actor, [status |-> status, incident |-> incident], fields)
  \/ StoreAlert
  \/ \E channel \in ChannelType, address \in Address : PlanDelivery(channel, address)
  \/ ClaimToSend \/ RefuseLocally \/ PrintInSandbox \/ PostToProvider
  \/ ProviderTakes \/ Unreachable \/ RecordOutcome
  \/ \E status \in ProviderStatus : ProviderRefuses(status)

MessagesSpec == MessagesInit /\ [][MessagesNext]_messageVars

-----------------------------------------------------------------------------
(* Properties. *)

\* What leaves the system for the community holds nothing about witnesses, exact places, notes
\* or reporters, whatever was posted, checked in memory and by the table, and whichever side of
\* the two languages an alert was written on; and whoever receives it gets its one description,
\* in the reader's language if there is one (description_for_locale).  A text of white space
\* other than spaces counts as there and says nothing.
NothingUnpublished ==
  alert # NoAlertYet =>
    /\ \A i, j \in DOMAIN alert : alert[i].field = alert[j].field => i = j
    /\ \A i \in DOMAIN alert : ~IsForbidden(alert[i].field) /\ ~IsRestricted(alert[i].field)
    /\ \A locale \in {"none", "fr", "en"} :
         LET told == {v \in OutboundMessage(alert, locale) : v.field \in Descriptions}
             written == {alert[i].field : i \in DOMAIN alert} \cap Descriptions
             spoken == IF locale = "fr" THEN "SAFE_DESCRIPTION_FR" ELSE "SAFE_DESCRIPTION_EN"
         IN (\A i \in DOMAIN alert : alert[i].value = "text") =>
              IF written = {} THEN told = {}
              ELSE \E v \in told : told = {v} /\ (spoken \in written => v.field = spoken)

Reasons == {"local", "404", "410", "422"}

\* A copy beyond the first is one whose answer nobody read, and every delivery that is SENT was
\* taken by a provider; what retrying cannot mend is final and what it can is not given up
\* before the last attempt, whichever adapter asked; and the waits between attempts double
\* from 30 seconds up to 30 minutes (RetryPolicy, ChannelError).
AttemptsAccounted ==
  /\ taken = unheard + (IF \/ Life!Reached(delivery)
                           \/ exchange.stage = "over" /\ exchange.outcome.result = "sent"
                        THEN 1 ELSE 0)
  /\ delivery.status = "FAILED_PERMANENTLY" =>
       delivery.attempt_count = RetryLimit \/ heard \in Reasons \cup {"409"}
  /\ delivery.status = "RETRYING" => heard \notin Reasons
  /\ taken > 0 => ValidateEndpoint(target.channel, target.address)
  /\ \A i \in DOMAIN waits :
       waits[i] = IF i = 1 THEN 30
                  ELSE IF 2 * waits[i - 1] < 1800 THEN 2 * waits[i - 1] ELSE 1800
=============================================================================
