----------------------------- MODULE ReportIntake -----------------------------
(***************************************************************************)
(* Anonymous reports on their way from a citizen's browser to the reports  *)
(* table: the first attempt and the offline queue                          *)
(* (apps/citizen/src/offline), the endpoint (apps/api/src/reports.rs) and  *)
(* its transaction (infrastructure/src/postgres/reports.rs).               *)
(*                                                                         *)
(* A report is sent under its own id as Idempotency-Key, so the id stands  *)
(* for the key.  The queue is in IndexedDB and shared by the tabs; every   *)
(* tab flushes it on a timer, on reconnect and on focus, so flushes        *)
(* overlap.                                                                *)
(***************************************************************************)
EXTENDS Naturals, FiniteSets

CONSTANTS
  Report,
  Valid,        \* reports whose content the server accepts
  Flush,        \* flushes that may run at the same time
  NoCall,
  MaxFaults     \* bound on broken connections, refusals and closed tabs

ASSUME IntakeAssumption ==
  /\ Valid \subseteq Report
  /\ Report \cap Flush = {}
  /\ MaxFaults \in Nat

\* Who calls send(): the form for its own report, and the flushes.
Caller == Report \cup Flush

\* Answers: 201, 409, 400, 429, and an error that is none of these.
Answer == {"created", "duplicate", "invalid", "throttled", "failed"}
Call   == [report : Report, state : {"sent"} \cup Answer]

ASSUME NoCall \notin Call

VARIABLES
  rows,       \* [Report -> rows of the reports table under this key]
  pending,    \* the pendingReports store
  receipts,   \* reports whose reference code is kept on the device
  told,       \* [Report -> what submitOrQueue returned]
  call,       \* [Caller -> Call or NoCall]: the send() it awaits
  rest,       \* [Flush -> reports of its snapshot still to send]
  orphans,    \* posts on their way that nobody waits for
  faults

vars == <<rows, pending, receipts, told, call, rest, orphans, faults>>

TypeOK ==
  /\ rows \in [Report -> Nat]
  /\ pending \subseteq Report /\ receipts \subseteq Report
  /\ told \in [Report -> {"new", "sending", "sent", "queued", "rejected", "gone"}]
  /\ call \in [Caller -> Call \cup {NoCall}]
  /\ rest \in [Flush -> SUBSET Report]
  /\ orphans \subseteq Report
  /\ faults \in 0..MaxFaults

Init ==
  /\ rows = [r \in Report |-> 0]
  /\ pending = {} /\ receipts = {} /\ orphans = {}
  /\ told = [r \in Report |-> "new"]
  /\ call = [k \in Caller |-> NoCall]
  /\ rest = [f \in Flush |-> {}]
  /\ faults = 0

-----------------------------------------------------------------------------
(* The server. *)

\* insert_report, ON CONFLICT of reports_idempotency_key_hash_idx
KeyUsed(r) == rows[r] > 0

\* prepare_anonymous_report, then submit_anonymous
Verdict(r) == IF r \notin Valid THEN "invalid"
              ELSE IF KeyUsed(r) THEN "duplicate" ELSE "created"

\* Mutant: answered before the transaction is committed.
InsertUncommitted(r) ==
  \/ UNCHANGED rows
  \/ rows' = IF Verdict(r) = "created" THEN [rows EXCEPT ![r] = rows[r] + 1] ELSE rows

Insert(r) ==
  rows' = IF Verdict(r) = "created" THEN [rows EXCEPT ![r] = rows[r] + 1] ELSE rows

\* create_anonymous_report
Handle(k) ==
  /\ call[k] # NoCall /\ call[k].state = "sent"
  /\ Insert(call[k].report)
  /\ call' = [call EXCEPT ![k] =
       [report |-> call[k].report, state |-> Verdict(call[k].report)]]
  /\ UNCHANGED <<pending, receipts, told, rest, orphans, faults>>

\* enforce_rate_limit (429) or a database error (500).
Refuse(k) ==
  /\ faults < MaxFaults
  /\ call[k] # NoCall /\ call[k].state = "sent"
  /\ \E answer \in {"throttled", "failed"} :
       call' = [call EXCEPT ![k] = [report |-> call[k].report, state |-> answer]]
  /\ faults' = faults + 1
  /\ UNCHANGED <<rows, pending, receipts, told, rest, orphans>>

\* A post nobody waits for is handled all the same.
OrphanArrives(r) ==
  /\ r \in orphans
  /\ Insert(r)
  /\ orphans' = orphans \ {r}
  /\ UNCHANGED <<pending, receipts, told, call, rest, faults>>

\* A post that is given up before it was answered may or may not still arrive.
MayStillArrive(k) ==
  IF call[k] # NoCall /\ call[k].state = "sent"
    THEN orphans' \in {orphans, orphans \cup {call[k].report}}
    ELSE orphans' = orphans

\* The connection breaks before or after the server handled the post: fetch
\* throws, or the body of the answer cannot be read.
BreakConnection(k) ==
  /\ faults < MaxFaults
  /\ call[k] # NoCall /\ call[k].state # "failed"
  /\ MayStillArrive(k)
  /\ call' = [call EXCEPT ![k] = [report |-> call[k].report, state |-> "failed"]]
  /\ faults' = faults + 1
  /\ UNCHANGED <<rows, pending, receipts, told, rest>>

-----------------------------------------------------------------------------
(* submitOrQueue. *)

\* Mutant: every 4xx is permanent.
PermanentWithThrottled == {"duplicate", "invalid", "throttled"}

\* Mutant: a 409 is tried again.
PermanentUnlessDuplicate == {"invalid"}

\* isPermanentFailure
Permanent == {"duplicate", "invalid"}

Submit(r) ==
  /\ told[r] = "new"
  /\ told' = [told EXCEPT ![r] = "sending"]
  /\ call' = [call EXCEPT ![r] = [report |-> r, state |-> "sent"]]
  /\ UNCHANGED <<rows, pending, receipts, rest, orphans, faults>>

Answered(k) == call[k] # NoCall /\ call[k].state # "sent"

\* deletePendingReport or putPendingReport, by the answer; the report of a form
\* is not in the store, so there is nothing to delete for it.
PendingAfter(k) ==
  IF call[k].state \in Permanent \cup {"created"} THEN pending \ {call[k].report}
                                                  ELSE pending \cup {call[k].report}

SubmitReturns(r) ==
  /\ Answered(r)
  /\ LET state == call[r].state IN
     /\ told' = [told EXCEPT ![r] = IF state = "created" THEN "sent"
                                    ELSE IF state \in Permanent THEN "rejected"
                                    ELSE "queued"]
     /\ receipts' = IF state = "created" THEN receipts \cup {r} ELSE receipts
  /\ pending' = PendingAfter(r)
  /\ call' = [call EXCEPT ![r] = NoCall]
  /\ UNCHANGED <<rows, rest, orphans, faults>>

-----------------------------------------------------------------------------
(* flushPendingReports. *)

\* listPendingReports: a snapshot.
StartFlush(f) ==
  /\ call[f] = NoCall /\ rest[f] = {}
  /\ pending # {}
  /\ rest' = [rest EXCEPT ![f] = pending]
  /\ UNCHANGED <<rows, pending, receipts, told, call, orphans, faults>>

\* The next of the snapshot, whether or not it is still pending.
SendNext(f, r) ==
  /\ call[f] = NoCall /\ r \in rest[f]
  /\ rest' = [rest EXCEPT ![f] = rest[f] \ {r}]
  /\ call' = [call EXCEPT ![f] = [report |-> r, state |-> "sent"]]
  /\ UNCHANGED <<rows, pending, receipts, told, orphans, faults>>

\* Sent or dropped, or put back for the next flush.
FlushReturns(f) ==
  /\ Answered(f)
  /\ pending' = PendingAfter(f)
  /\ receipts' = IF call[f].state = "created"
                   THEN receipts \cup {call[f].report} ELSE receipts
  /\ call' = [call EXCEPT ![f] = NoCall]
  /\ UNCHANGED <<rows, told, rest, orphans, faults>>

\* The tab is closed: whatever ran in it is gone, IndexedDB stays.  The write
\* that follows an answer may have been made already.
CloseTab(k) ==
  /\ faults < MaxFaults
  /\ call[k] # NoCall \/ (k \in Flush /\ rest[k] # {})
  /\ MayStillArrive(k)
  /\ pending' \in {pending} \cup (IF Answered(k) THEN {PendingAfter(k)} ELSE {})
  /\ call' = [call EXCEPT ![k] = NoCall]
  /\ rest' = IF k \in Flush THEN [rest EXCEPT ![k] = {}] ELSE rest
  /\ told' = IF k \in Report THEN [told EXCEPT ![k] = "gone"] ELSE told
  /\ faults' = faults + 1
  /\ UNCHANGED <<rows, receipts>>

-----------------------------------------------------------------------------
FlushStep(f) ==
  StartFlush(f) \/ FlushReturns(f) \/ \E r \in Report : SendNext(f, r)

Next ==
  \/ \E r \in Report : Submit(r) \/ SubmitReturns(r) \/ OrphanArrives(r)
  \/ \E f \in Flush : FlushStep(f)
  \/ \E k \in Caller : Handle(k) \/ Refuse(k) \/ BreakConnection(k) \/ CloseTab(k)

Spec == Init /\ [][Next]_vars

\* The app is open or opened again and flushes every 20 seconds; a post is
\* answered; send() returns.  Nobody owes a report.
FairSpec ==
  /\ Spec
  /\ \A f \in Flush : WF_vars(FlushStep(f))
  /\ \A r \in Report : WF_vars(SubmitReturns(r))
  /\ \A k \in Caller : WF_vars(Handle(k))

-----------------------------------------------------------------------------
(* Properties. *)

\* Whatever is lost, repeated or late, a report is stored once at most (the id
\* is the Idempotency-Key of every attempt, PendingReport), and what
\* submitOrQueue told its author is true: sent is stored, rejected is invalid,
\* and a valid report that was queued is in the queue or stored.
ToldTruthfully ==
  \A r \in Report :
    /\ rows[r] <= 1
    /\ told[r] = "sent" => rows[r] = 1
    /\ told[r] = "rejected" => r \notin Valid
    /\ told[r] = "queued" /\ r \in Valid => r \in pending \/ rows[r] = 1

\* A reference code kept on the device is one of a stored report, and a report
\* somebody was told is sent has one (addReceipt).
ReceiptsAreReal ==
  \A r \in Report :
    /\ r \in receipts => rows[r] > 0
    /\ told[r] = "sent" => r \in receipts

\* The queue empties in the end and stays empty, whichever flushes overlap and
\* put a report back that another had delivered (flushPendingReports), and
\* every valid report that was queued is stored.
QueueSettles ==
  <>[](/\ pending = {}
       /\ \A r \in Valid : told[r] = "queued" => rows[r] = 1)

\* receipts.ts: "someone who submits a report (possibly while offline, with the
\* reference code arriving later) can still find it after closing the app".
QueuedGetsReceipt ==
  \A r \in Report : told[r] = "queued" /\ rows[r] > 0 /\ r \notin pending =>
    r \in receipts \/ \E f \in Flush : call[f] # NoCall /\ call[f].report = r

=============================================================================
