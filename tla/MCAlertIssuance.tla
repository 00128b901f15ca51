--------------------------- MODULE MCAlertIssuance ---------------------------
(***************************************************************************)
(* Instances for TLC of AlertIssuance, one case and clients by their keys, *)
(* of AlertPages, ReviewerLists and AlertMessages.  They share no state in *)
(* the models: every initial state chooses one, which then runs alone.     *)
(***************************************************************************)
EXTENDS AlertIssuance, ReviewerLists, AlertMessages, TLC

CONSTANTS k1, f1, f2

VARIABLE part

OneCase      == [f \in Form |-> k1]
KeptAndNone  == [f \in Form |-> IF f = f1 THEN "kept" ELSE "none"]
AllFresh     == [f \in Form |-> "fresh"]

Text(field) == [field |-> field, value |-> "text"]
\* Allowed, in both languages, blank in two ways, twice, and what is not allowed.
Posted ==
  {<<Text("SAFE_DESCRIPTION_EN"), Text("CASE_REFERENCE")>>,
   <<Text("SAFE_DESCRIPTION_EN"), Text("SAFE_DESCRIPTION_FR")>>,
   <<[field |-> "SAFE_DESCRIPTION_FR", value |-> "tabs"], Text("SAFE_DESCRIPTION_EN")>>,
   <<[field |-> "SAFE_DESCRIPTION_FR", value |-> "spaces"]>>,
   <<Text("SAFE_DESCRIPTION_EN"), Text("SAFE_DESCRIPTION_EN")>>,
   <<Text("OFFICIAL_CONTACT"), Text("EXACT_LOCATION")>>,
   <<Text("REPORTER_IDENTITY")>>, <<>>}
OneLanguage == {<<Text("SAFE_DESCRIPTION")>>}

alertsVars == <<part, vars, pageVars, listVars, messageVars>>

AlertsInit ==
  /\ part \in {"issued", "read", "walked", "sent"}
  /\ Init /\ PagesInit
  /\ ListsInit /\ (part # "walked" => table = "audit_events")
  /\ MessagesInit /\ (part # "sent" => alert = NoAlertYet /\ adapters = AllSandboxed)

AlertsNext ==
  \/ part = "issued" /\ Next /\ UNCHANGED <<part, pageVars, listVars, messageVars>>
  \/ part = "read" /\ PagesNext /\ UNCHANGED <<part, vars, listVars, messageVars>>
  \/ part = "walked" /\ ListsNext /\ UNCHANGED <<part, vars, pageVars, messageVars>>
  \/ part = "sent" /\ MessagesNext /\ UNCHANGED <<part, vars, pageVars, listVars>>

AlertsSpec == AlertsInit /\ [][AlertsNext]_alertsVars

\* One type invariant for all of them.
AlertsTypeOK == CaseTypeOK /\ AlertTypeOK /\ PagesTypeOK /\ ListsTypeOK /\ MessagesTypeOK

Symmetry == Permutations(Alert) \cup Permutations(Canceller)
=============================================================================
