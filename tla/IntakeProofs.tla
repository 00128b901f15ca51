---------------------------- MODULE IntakeProofs ----------------------------
(* Theorems about module ReportIntake, for every set of reports, valid or  *)
(* not, and any number of overlapping flushes and faults: what an author   *)
(* is told is true.                                                        *)
EXTENDS ReportIntake, TLAPS

-----------------------------------------------------------------------------
(* The inductive invariant. *)

\* An answer still in memory is true of the server: 201 and 409 mean one row,
\* 400 means invalid content; and the first attempt, whose key is new, never
\* gets a 409.
AnswersTrue ==
  \A k \in Caller : call[k] # NoCall =>
    /\ call[k].state \in {"created", "duplicate"} => rows[call[k].report] = 1
    /\ call[k].state = "invalid" => call[k].report \notin Valid
    /\ k \in Report => call[k].report = k /\ call[k].state # "duplicate"

\* Until the first attempt is answered or given up, nothing anywhere knows the
\* report's key.
Fresh(r) == told[r] = "new" \/ (call[r] # NoCall /\ call[r].state = "sent")

FreshIsUnknown ==
  \A r \in Report : Fresh(r) =>
    /\ rows[r] = 0 /\ r \notin orphans /\ r \notin pending
    /\ \A f \in Flush : r \notin rest[f] /\ (call[f] # NoCall => call[f].report # r)

\* told is "new" before the first attempt and "sending" during it.
ToldInStep ==
  \A r \in Report : call[r] # NoCall => told[r] = "sending"

IntakeInv ==
  /\ TypeOK /\ AnswersTrue /\ FreshIsUnknown /\ ToldInStep
  /\ ToldTruthfully /\ ReceiptsAreReal

-----------------------------------------------------------------------------
(* The server. *)

\* One post handled (prepare_anonymous_report, submit_anonymous): the verdict
\* is true of the rows afterwards, and no row is ever taken back.
LEMMA InsertIsTrue ==
  ASSUME TypeOK, NEW r \in Report, Insert(r), \A q \in Report : rows[q] <= 1
  PROVE  /\ rows' \in [Report -> Nat]
         /\ \A q \in Report : rows'[q] <= 1 /\ (rows[q] = 1 => rows'[q] = 1)
         /\ \A q \in Report \ {r} : rows'[q] = rows[q]
         /\ Verdict(r) \in {"created", "duplicate", "invalid"}
         /\ Verdict(r) \in {"created", "duplicate"} => rows'[r] = 1
         /\ Verdict(r) = "invalid" => r \notin Valid
         /\ Verdict(r) = "duplicate" => rows[r] = 1
<1>1. rows \in [Report -> Nat] /\ rows[r] \in Nat
  BY DEF TypeOK
<1>2. rows[r] = 0 \/ rows[r] = 1
  BY <1>1
<1>3. CASE Verdict(r) = "created"
  <2>1. rows[r] = 0
    BY <1>2, <1>3 DEF Verdict, KeyUsed
  <2>2. rows' = [rows EXCEPT ![r] = 1]
    BY <1>3, <2>1 DEF Insert
  <2>3. QED
    BY <1>1, <1>3, <2>1, <2>2
<1>4. CASE Verdict(r) # "created"
  <2>1. rows' = rows
    BY <1>4 DEF Insert
  <2>2. QED
    BY <1>1, <1>2, <1>4, <2>1 DEF Verdict, KeyUsed
<1>5. QED
  BY <1>3, <1>4

-----------------------------------------------------------------------------
(* The steps. *)

\* Nothing is stored, pending or under way at first.
LEMMA InitInv == Init => IntakeInv
<1> SUFFICES ASSUME Init PROVE IntakeInv
  OBVIOUS
<1>1. TypeOK
  BY IntakeAssumption DEF Init, TypeOK
<1>2. AnswersTrue /\ FreshIsUnknown /\ ToldInStep
  BY DEF Init, AnswersTrue, FreshIsUnknown, ToldInStep, Caller
<1>3. ToldTruthfully /\ ReceiptsAreReal
  BY DEF Init, ToldTruthfully, ReceiptsAreReal
<1>4. QED
  BY <1>1, <1>2, <1>3 DEF IntakeInv

\* Submit: the form's report is known to nobody else.
LEMMA SubmitInv ==
  ASSUME IntakeInv, NEW r \in Report, Submit(r)
  PROVE  IntakeInv'
<1> USE IntakeAssumption DEF IntakeInv, Submit
<1>1. TypeOK'
  BY DEF TypeOK, Call, Caller
<1>2. /\ call'[r] = [report |-> r, state |-> "sent"]
      /\ told'[r] = "sending"
      /\ \A k \in Caller \ {r} : call'[k] = call[k]
      /\ \A q \in Report \ {r} : told'[q] = told[q]
  BY DEF TypeOK, Caller
<1>3. AnswersTrue'
  BY <1>2 DEF AnswersTrue, Caller
<1>4. FreshIsUnknown'
  BY <1>2 DEF FreshIsUnknown, Fresh, Caller
<1>5. ToldInStep' /\ ToldTruthfully' /\ ReceiptsAreReal'
  BY <1>2 DEF ToldInStep, ToldTruthfully, ReceiptsAreReal, Caller
<1>6. QED
  BY <1>1, <1>3, <1>4, <1>5

\* Handle: the answer is the verdict.
LEMMA HandleInv ==
  ASSUME IntakeInv, NEW k \in Caller, Handle(k)
  PROVE  IntakeInv'
<1> USE IntakeAssumption DEF IntakeInv
<1> DEFINE r == call[k].report
<1>1. call[k] \in Call /\ r \in Report /\ call[k].state = "sent"
  BY DEF Handle, TypeOK, Call
<1>2. Insert(r)
  BY DEF Handle
<1>3. \A q \in Report : rows[q] <= 1
  BY DEF ToldTruthfully
<1>4. /\ rows' \in [Report -> Nat]
      /\ \A q \in Report : rows'[q] <= 1 /\ (rows[q] = 1 => rows'[q] = 1)
      /\ \A q \in Report \ {r} : rows'[q] = rows[q]
      /\ Verdict(r) \in {"created", "duplicate", "invalid"}
      /\ Verdict(r) \in {"created", "duplicate"} => rows'[r] = 1
      /\ Verdict(r) = "invalid" => r \notin Valid
      /\ Verdict(r) = "duplicate" => rows[r] = 1
  BY <1>1, <1>2, <1>3, InsertIsTrue
<1>5. /\ call'[k] = [report |-> r, state |-> Verdict(r)]
      /\ \A j \in Caller \ {k} : call'[j] = call[j]
      /\ UNCHANGED <<pending, receipts, told, rest, orphans, faults>>
  BY DEF Handle, TypeOK
<1>6. TypeOK'
  <2>1. [report |-> r, state |-> Verdict(r)] \in Call
    BY <1>1, <1>4 DEF Call, Answer
  <2>2. call' \in [Caller -> Call \cup {NoCall}]
    BY <2>1 DEF Handle, TypeOK
  <2>3. QED
    BY <1>4, <1>5, <2>2 DEF TypeOK
<1>7. \A q \in Report : rows[q] \in Nat /\ rows'[q] \in Nat
  BY <1>4 DEF TypeOK
<1>8. AnswersTrue'
  <2>1. k \in Report => r = k /\ rows[k] = 0
    BY <1>1 DEF AnswersTrue, FreshIsUnknown, Fresh, Handle
  <2>2. k \in Report => Verdict(r) # "duplicate"
    BY <1>4, <2>1
  <2>3. \A j \in Caller : call[j] # NoCall => call[j].report \in Report
    BY DEF TypeOK, Call
  <2>4. QED
    BY <1>4, <1>5, <2>1, <2>2, <2>3 DEF AnswersTrue
<1>9. FreshIsUnknown'
  <2>1. call'[k].state # "sent" /\ call'[k].report = r
    BY <1>4, <1>5
  <2>2. ASSUME NEW q \in Report, Fresh(q)' PROVE Fresh(q) /\ q # r /\ q # k
    <3>1. q # k
      BY <1>5, <2>1, <2>2 DEF Fresh, Handle, ToldInStep
    <3>2. call'[q] = call[q] /\ Fresh(q)
      BY <1>5, <2>2, <3>1 DEF Fresh, Caller
    <3>3. q # r
      BY <1>1, <3>1, <3>2 DEF FreshIsUnknown, AnswersTrue, Handle, Caller
    <3>4. QED
      BY <3>1, <3>2, <3>3
  <2>3. QED
    BY <1>4, <1>5, <2>1, <2>2 DEF FreshIsUnknown, Caller
<1>10. ToldInStep'
  BY <1>5 DEF ToldInStep, Handle, Caller
<1>11. ToldTruthfully'
  BY <1>4, <1>5 DEF ToldTruthfully
<1>12. ReceiptsAreReal'
  <2>1. \A q \in Report : rows[q] > 0 => rows'[q] > 0
    BY <1>3, <1>4, <1>7
  <2>2. QED
    BY <1>5, <2>1 DEF ReceiptsAreReal
<1>13. QED
  BY <1>6, <1>8, <1>9, <1>10, <1>11, <1>12

\* OrphanArrives: a post nobody waits for is of a report that is not fresh.
LEMMA OrphanArrivesInv ==
  ASSUME IntakeInv, NEW r \in Report, OrphanArrives(r)
  PROVE  IntakeInv'
<1> USE IntakeAssumption DEF IntakeInv
<1>1. \A q \in Report : rows[q] <= 1
  BY DEF ToldTruthfully
<1>2. /\ rows' \in [Report -> Nat]
      /\ \A q \in Report : rows'[q] <= 1 /\ (rows[q] = 1 => rows'[q] = 1)
      /\ \A q \in Report \ {r} : rows'[q] = rows[q]
  BY <1>1, InsertIsTrue DEF OrphanArrives
<1>3. /\ orphans' = orphans \ {r}
      /\ UNCHANGED <<pending, receipts, told, call, rest, faults>>
  BY DEF OrphanArrives
<1>4. \A q \in Report : rows[q] \in Nat /\ rows'[q] \in Nat
  BY <1>2 DEF TypeOK
<1>5. TypeOK'
  BY <1>2, <1>3 DEF TypeOK
<1>6. AnswersTrue'
  <2>1. \A j \in Caller : call[j] # NoCall => call[j].report \in Report
    BY DEF TypeOK, Call
  <2>2. QED
    BY <1>2, <1>3, <2>1 DEF AnswersTrue
<1>7. FreshIsUnknown'
  <2>1. ~Fresh(r)
    BY DEF FreshIsUnknown, OrphanArrives
  <2>2. QED
    BY <1>2, <1>3, <2>1 DEF FreshIsUnknown, Fresh
<1>8. ToldInStep' /\ ToldTruthfully'
  BY <1>2, <1>3 DEF ToldInStep, ToldTruthfully
<1>9. ReceiptsAreReal'
  <2>1. \A q \in Report : rows[q] > 0 => rows'[q] > 0
    BY <1>1, <1>2, <1>4
  <2>2. QED
    BY <1>3, <2>1 DEF ReceiptsAreReal
<1>10. QED
  BY <1>5, <1>6, <1>7, <1>8, <1>9

\* A post given up before it was answered is of a report that is not fresh any
\* more once its caller has forgotten it (BreakConnection, CloseTab).
LEMMA GivenUpIsNotFresh ==
  ASSUME IntakeInv, NEW k \in Caller, MayStillArrive(k)
  PROVE  /\ orphans' \subseteq Report
         /\ \A q \in Report \ {k} : Fresh(q) => q \notin orphans'
<1> USE IntakeAssumption DEF IntakeInv
<1>1. CASE orphans' = orphans
  BY <1>1 DEF TypeOK, FreshIsUnknown
<1>2. CASE /\ call[k] # NoCall /\ call[k].state = "sent"
           /\ orphans' = orphans \cup {call[k].report}
  <2>1. call[k].report \in Report
    BY <1>2 DEF TypeOK, Call
  <2>2. \A q \in Report \ {k} : Fresh(q) => q # call[k].report
    BY <1>2 DEF FreshIsUnknown, AnswersTrue, Caller
  <2>3. QED
    BY <1>2, <2>1, <2>2 DEF TypeOK, FreshIsUnknown
<1>3. QED
  BY <1>1, <1>2 DEF MayStillArrive

\* A call that fails without an answer keeps the invariant (Refuse,
\* BreakConnection).
LEMMA FailedCallInv ==
  ASSUME IntakeInv, NEW k \in Caller, NEW answer \in {"throttled", "failed"},
         call[k] # NoCall, MayStillArrive(k) \/ UNCHANGED orphans,
         call' = [call EXCEPT ![k] = [report |-> call[k].report, state |-> answer]],
         faults < MaxFaults, faults' = faults + 1,
         UNCHANGED <<rows, pending, receipts, told, rest>>
  PROVE  IntakeInv'
<1> USE IntakeAssumption DEF IntakeInv
<1>1. /\ call[k].report \in Report
      /\ [report |-> call[k].report, state |-> answer] \in Call
  BY DEF TypeOK, Call, Answer
<1>2. /\ orphans' \subseteq Report
      /\ \A q \in Report \ {k} : Fresh(q) => q \notin orphans'
  BY GivenUpIsNotFresh DEF FreshIsUnknown, TypeOK
<1>3. /\ call'[k] = [report |-> call[k].report, state |-> answer]
      /\ \A j \in Caller \ {k} : call'[j] = call[j]
  BY DEF TypeOK
<1>4. TypeOK'
  <2>1. faults' \in 0..MaxFaults
    BY DEF TypeOK
  <2>2. call' \in [Caller -> Call \cup {NoCall}]
    BY <1>1 DEF TypeOK
  <2>3. QED
    BY <1>2, <2>1, <2>2 DEF TypeOK
<1>5. AnswersTrue'
  BY <1>3 DEF AnswersTrue
<1>6. FreshIsUnknown'
  <2>1. ASSUME NEW q \in Report, Fresh(q)' PROVE q # k /\ Fresh(q)
    BY <1>3, <2>1 DEF Fresh, ToldInStep, Caller
  <2>2. QED
    BY <1>2, <1>3, <2>1 DEF FreshIsUnknown, Caller
<1>7. ToldInStep' /\ ToldTruthfully' /\ ReceiptsAreReal'
  BY <1>3 DEF ToldInStep, ToldTruthfully, ReceiptsAreReal, Caller
<1>8. QED
  BY <1>4, <1>5, <1>6, <1>7

\* Refuse and BreakConnection.
LEMMA RefuseInv ==
  ASSUME IntakeInv, NEW k \in Caller, Refuse(k)
  PROVE  IntakeInv'
<1>1. PICK answer \in {"throttled", "failed"} :
        call' = [call EXCEPT ![k] = [report |-> call[k].report, state |-> answer]]
  BY DEF Refuse
<1>2. QED
  BY <1>1, FailedCallInv DEF Refuse

LEMMA BreakConnectionInv ==
  ASSUME IntakeInv, NEW k \in Caller, BreakConnection(k)
  PROVE  IntakeInv'
  BY FailedCallInv DEF BreakConnection

\* What a write to the queue may do once send() is over (PendingAfter): the
\* report of the call alone is touched, and it leaves the queue only when it is
\* stored or invalid.
LEMMA PendingAfterKeeps ==
  ASSUME IntakeInv, NEW k \in Caller, Answered(k)
  PROVE  /\ call[k].report \in Report
         /\ ~Fresh(call[k].report)
         /\ PendingAfter(k) \subseteq Report
         /\ \A q \in Report \ {call[k].report} :
              q \in PendingAfter(k) <=> q \in pending
         /\ \/ call[k].report \in PendingAfter(k)
            \/ call[k].report \notin Valid
            \/ rows[call[k].report] = 1
<1> USE IntakeAssumption DEF IntakeInv
<1>1. call[k].report \in Report /\ call[k] # NoCall /\ call[k].state # "sent"
  BY DEF Answered, TypeOK, Call
<1>2. ~Fresh(call[k].report)
  BY <1>1 DEF FreshIsUnknown, Fresh, AnswersTrue, ToldInStep, Caller
<1>3. CASE call[k].state \in Permanent \cup {"created"}
  <2>1. PendingAfter(k) = pending \ {call[k].report}
    BY <1>3 DEF PendingAfter
  <2>2. call[k].report \notin Valid \/ rows[call[k].report] = 1
    BY <1>1, <1>3 DEF Permanent, AnswersTrue
  <2>3. QED
    BY <1>1, <1>2, <2>1, <2>2 DEF TypeOK
<1>4. CASE call[k].state \notin Permanent \cup {"created"}
  <2>1. PendingAfter(k) = pending \cup {call[k].report}
    BY <1>4 DEF PendingAfter
  <2>2. QED
    BY <1>1, <1>2, <2>1 DEF TypeOK
<1>5. QED
  BY <1>3, <1>4

\* SubmitReturns: what the author is told follows from the answer.
LEMMA SubmitReturnsInv ==
  ASSUME IntakeInv, NEW r \in Report, SubmitReturns(r)
  PROVE  IntakeInv'
<1> USE IntakeAssumption DEF IntakeInv
<1> DEFINE state == call[r].state
<1>1. /\ Answered(r) /\ r \in Caller
      /\ call[r] # NoCall /\ state # "sent" /\ call[r].report = r
      /\ pending' = PendingAfter(r)
  BY DEF SubmitReturns, Answered, AnswersTrue, Caller
<1>2. /\ ~Fresh(r) /\ pending' \subseteq Report
      /\ \A q \in Report \ {r} : q \in pending' <=> q \in pending
      /\ r \in pending' \/ r \notin Valid \/ rows[r] = 1
  BY <1>1, PendingAfterKeeps
<1>3. /\ call'[r] = NoCall
      /\ \A k \in Caller \ {r} : call'[k] = call[k]
      /\ told'[r] = IF state = "created" THEN "sent"
                    ELSE IF state \in Permanent THEN "rejected" ELSE "queued"
      /\ \A q \in Report \ {r} : told'[q] = told[q]
      /\ receipts' = IF state = "created" THEN receipts \cup {r} ELSE receipts
      /\ UNCHANGED <<rows, rest, orphans, faults>>
  BY <1>1 DEF SubmitReturns, TypeOK, Caller
<1>4. TypeOK'
  BY <1>1, <1>2, <1>3 DEF TypeOK, SubmitReturns, Caller
<1>5. AnswersTrue'
  BY <1>3 DEF AnswersTrue
<1>6. FreshIsUnknown'
  <2>1. ASSUME NEW q \in Report, Fresh(q)' PROVE q # r /\ Fresh(q)
    BY <1>3, <2>1 DEF Fresh, Caller
  <2>2. QED
    BY <1>2, <1>3, <2>1 DEF FreshIsUnknown, Caller
<1>7. ToldInStep'
  BY <1>3 DEF ToldInStep, Caller
<1>8. /\ state = "created" => rows[r] = 1
      /\ state \in Permanent => r \notin Valid
  BY <1>1 DEF AnswersTrue, Permanent
<1>9. ToldTruthfully'
  BY <1>2, <1>3, <1>8 DEF ToldTruthfully
<1>10. ReceiptsAreReal'
  <2>1. ASSUME NEW q \in receipts', q \in Report PROVE rows'[q] > 0
    BY <1>3, <1>8, <2>1 DEF ReceiptsAreReal
  <2>2. \A q \in Report : told'[q] = "sent" => q \in receipts'
    BY <1>3 DEF ReceiptsAreReal
  <2>3. QED
    BY <2>1, <2>2 DEF ReceiptsAreReal
<1>11. QED
  BY <1>4, <1>5, <1>6, <1>7, <1>9, <1>10

\* StartFlush and SendNext: what a flush sends was pending, so it is not fresh.
LEMMA StartFlushInv ==
  ASSUME IntakeInv, NEW f \in Flush, StartFlush(f)
  PROVE  IntakeInv'
<1> USE IntakeAssumption DEF IntakeInv, StartFlush
<1>1. TypeOK'
  BY DEF TypeOK
<1>2. rest'[f] = pending /\ \A g \in Flush \ {f} : rest'[g] = rest[g]
  BY DEF TypeOK
<1>3. FreshIsUnknown'
  BY <1>2 DEF FreshIsUnknown, Fresh
<1>4. AnswersTrue' /\ ToldInStep' /\ ToldTruthfully' /\ ReceiptsAreReal'
  BY DEF AnswersTrue, ToldInStep, ToldTruthfully, ReceiptsAreReal
<1>5. QED
  BY <1>1, <1>3, <1>4

LEMMA SendNextInv ==
  ASSUME IntakeInv, NEW f \in Flush, NEW r \in Report, SendNext(f, r)
  PROVE  IntakeInv'
<1> USE IntakeAssumption DEF IntakeInv, SendNext
<1>1. TypeOK'
  BY DEF TypeOK, Call, Caller
<1>2. /\ f \in Caller /\ f \notin Report
      /\ call'[f] = [report |-> r, state |-> "sent"]
      /\ \A k \in Caller \ {f} : call'[k] = call[k]
      /\ \A g \in Flush : rest'[g] \subseteq rest[g]
  BY DEF TypeOK, Caller
<1>3. ~Fresh(r)
  BY DEF FreshIsUnknown
<1>4. FreshIsUnknown'
  BY <1>2, <1>3 DEF FreshIsUnknown, Fresh, Caller
<1>5. AnswersTrue' /\ ToldInStep' /\ ToldTruthfully' /\ ReceiptsAreReal'
  BY <1>2 DEF AnswersTrue, ToldInStep, ToldTruthfully, ReceiptsAreReal, Caller
<1>6. QED
  BY <1>1, <1>4, <1>5

\* FlushReturns: a valid report leaves the queue only when it is stored.
LEMMA FlushReturnsInv ==
  ASSUME IntakeInv, NEW f \in Flush, FlushReturns(f)
  PROVE  IntakeInv'
<1> USE IntakeAssumption DEF IntakeInv
<1> DEFINE r == call[f].report
<1>1. /\ Answered(f) /\ f \in Caller /\ f \notin Report
      /\ call[f] # NoCall
      /\ pending' = PendingAfter(f)
  BY DEF FlushReturns, Answered, Caller
<1>2. /\ r \in Report /\ ~Fresh(r) /\ pending' \subseteq Report
      /\ \A q \in Report \ {r} : q \in pending' <=> q \in pending
      /\ r \in pending' \/ r \notin Valid \/ rows[r] = 1
  BY <1>1, PendingAfterKeeps
<1>3. /\ call'[f] = NoCall
      /\ \A k \in Caller \ {f} : call'[k] = call[k]
      /\ receipts' = IF call[f].state = "created" THEN receipts \cup {r} ELSE receipts
      /\ UNCHANGED <<rows, told, rest, orphans, faults>>
  BY <1>1 DEF FlushReturns, TypeOK
<1>4. TypeOK'
  BY <1>2, <1>3 DEF TypeOK, FlushReturns
<1>5. AnswersTrue'
  BY <1>3 DEF AnswersTrue
<1>6. FreshIsUnknown'
  BY <1>1, <1>2, <1>3 DEF FreshIsUnknown, Fresh, Caller
<1>7. ToldInStep'
  BY <1>1, <1>3 DEF ToldInStep, Caller
<1>8. ToldTruthfully'
  BY <1>2, <1>3 DEF ToldTruthfully
<1>9. ReceiptsAreReal'
  <2>1. call[f].state = "created" => rows[r] = 1
    BY <1>1 DEF AnswersTrue
  <2>2. QED
    BY <1>3, <2>1 DEF ReceiptsAreReal
<1>10. QED
  BY <1>4, <1>5, <1>6, <1>7, <1>8, <1>9

\* CloseTab: IndexedDB is as it was, or as the answer made it.
LEMMA CloseTabInv ==
  ASSUME IntakeInv, NEW k \in Caller, CloseTab(k)
  PROVE  IntakeInv'
<1> USE IntakeAssumption DEF IntakeInv
<1>1. /\ call'[k] = NoCall
      /\ \A j \in Caller \ {k} : call'[j] = call[j]
      /\ \A f \in Flush : rest'[f] \subseteq rest[f]
      /\ k \in Report => told'[k] = "gone"
      /\ \A q \in Report \ {k} : told'[q] = told[q]
      /\ UNCHANGED <<rows, receipts>>
  BY DEF CloseTab, TypeOK
<1>2. /\ orphans' \subseteq Report
      /\ \A q \in Report \ {k} : Fresh(q) => q \notin orphans'
  BY GivenUpIsNotFresh DEF CloseTab
<1>3. /\ pending' \subseteq Report
      /\ \A q \in Report : Fresh(q) => q \notin pending'
      /\ \A q \in Valid : q \in pending => q \in pending' \/ rows[q] = 1
  <2>1. CASE pending' = pending
    BY <2>1 DEF TypeOK, FreshIsUnknown
  <2>2. CASE Answered(k) /\ pending' = PendingAfter(k)
    BY <2>2, PendingAfterKeeps DEF FreshIsUnknown
  <2>3. QED
    BY <2>1, <2>2 DEF CloseTab
<1>4. TypeOK'
  <2>1. faults' \in 0..MaxFaults
    BY DEF CloseTab, TypeOK
  <2>2. told' \in [Report -> {"new", "sending", "sent", "queued", "rejected", "gone"}]
    BY DEF CloseTab, TypeOK
  <2>3. rest' \in [Flush -> SUBSET Report] /\ call' \in [Caller -> Call \cup {NoCall}]
    BY DEF CloseTab, TypeOK
  <2>4. QED
    BY <1>1, <1>2, <1>3, <2>1, <2>2, <2>3 DEF TypeOK
<1>5. AnswersTrue'
  BY <1>1 DEF AnswersTrue
<1>6. FreshIsUnknown'
  <2>1. ASSUME NEW q \in Report, Fresh(q)' PROVE q # k /\ Fresh(q)
    BY <1>1, <2>1 DEF Fresh, Caller
  <2>2. QED
    BY <1>1, <1>2, <1>3, <2>1 DEF FreshIsUnknown, Caller
<1>7. ToldInStep'
  BY <1>1 DEF ToldInStep, Caller
<1>8. ToldTruthfully'
  <2>1. \A q \in Report : told'[q] # "gone" => told'[q] = told[q]
    BY <1>1
  <2>2. QED
    BY <1>1, <1>3, <2>1 DEF ToldTruthfully
<1>9. ReceiptsAreReal'
  BY <1>1 DEF ReceiptsAreReal
<1>10. QED
  BY <1>4, <1>5, <1>6, <1>7, <1>8, <1>9

-----------------------------------------------------------------------------
(* The theorems. *)

\* Every step keeps the invariant.
LEMMA StepInv == IntakeInv /\ [Next]_vars => IntakeInv'
<1> SUFFICES ASSUME IntakeInv, [Next]_vars PROVE IntakeInv'
  OBVIOUS
<1>1. CASE UNCHANGED vars
  BY <1>1 DEF vars, IntakeInv, TypeOK, AnswersTrue, FreshIsUnknown, Fresh, ToldInStep,
              ToldTruthfully, ReceiptsAreReal
<1>2. CASE \E r \in Report : Submit(r) \/ SubmitReturns(r) \/ OrphanArrives(r)
  BY <1>2, SubmitInv, SubmitReturnsInv, OrphanArrivesInv
<1>3. CASE \E f \in Flush : FlushStep(f)
  BY <1>3, StartFlushInv, FlushReturnsInv, SendNextInv DEF FlushStep
<1>4. CASE \E k \in Caller : Handle(k) \/ Refuse(k) \/ BreakConnection(k) \/ CloseTab(k)
  BY <1>4, HandleInv, RefuseInv, BreakConnectionInv, CloseTabInv
<1>5. QED
  BY <1>1, <1>2, <1>3, <1>4 DEF Next

\* The invariant holds in every reachable state of the intake.
THEOREM IntakeInvariant == Spec => []IntakeInv
<1>1. QED
  BY InitInv, StepInv, PTL DEF Spec

\* Type correctness of the intake.
THEOREM IntakeTypeCorrect == Spec => []TypeOK
<1>1. IntakeInv => TypeOK
  BY DEF IntakeInv
<1>2. QED
  BY <1>1, IntakeInvariant, PTL

\* Whatever is lost, repeated or closed (submitOrQueue, flushPendingReports), a
\* report is stored once at most and its author was told the truth.
THEOREM ToldTruthfullyHolds == Spec => []ToldTruthfully
<1>1. IntakeInv => ToldTruthfully
  BY DEF IntakeInv
<1>2. QED
  BY <1>1, IntakeInvariant, PTL

\* A receipt on the device (addReceipt) is one of a stored report.
THEOREM ReceiptsAreRealHolds == Spec => []ReceiptsAreReal
<1>1. IntakeInv => ReceiptsAreReal
  BY DEF IntakeInv
<1>2. QED
  BY <1>1, IntakeInvariant, PTL
=============================================================================
