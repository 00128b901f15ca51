----------------------------- MODULE MCServices -----------------------------
(***************************************************************************)
(* Instances for TLC of the components that share no state in the models:  *)
(* every initial state chooses one of them, which then runs alone while    *)
(* the others stay as they were in the beginning.                          *)
(***************************************************************************)
EXTENDS OrganizationTrust, ReviewerSessions, RateLimits, ReportEvidence, Subscribers,
        TLC

CONSTANTS fire, public, report, town, here

VARIABLE part

NothingOrAll == {{}, {fire, public}}
TwoReports   == report :> 2
TwoTicks     == report :> 2
TownHere     == town :> {here}

Geography(areas) == [rule |-> "GEOGRAPHY", areas |-> areas]
AtMost(n)        == [rule |-> "SEVERITY", operator |-> "LessThan", value |-> n]
\* Reviewers name any rules in any order; some are refused.
RuleLists ==
  {<<AtMost(2), [rule |-> "VISIBILITY", values |-> Audience]>>,
   <<Geography({town, Blank})>>}
CitizenAsks == {[incidents |-> {fire}, minimum |-> 2, areas |-> {town, Blank}],
                [incidents |-> {fire}, minimum |-> 1, areas |-> {Blank}]}
OneArea == {<<[rule |-> "GEOGRAPHY", area |-> town]>>}

serviceVars == <<part, trustVars, sessionVars, limitVars, evidenceVars,
                 subscriberVars>>

ServicesInit ==
  /\ part \in {"trust", "sessions", "limits", "photos", "desk", "subscribers"}
  /\ TrustInit /\ SessionInit /\ LimitInit /\ EvidenceInit
  /\ SubscriberInit /\ (part # "subscribers" => reviewed = {})

\* Requests that only read an organization run beside those that change it.
ReadingBesideChange ==
  LET Asks(q, ops) == requests'[q] # NoJob /\ requests'[q].ask.op \in ops IN
  \A p, q \in AccessRequest :
    p # q /\ requests'[q] # NoJob /\ Asks(p, {"view", "profile", "manage"}) =>
      Asks(q, {"activate", "deactivate", "trust"})

\* A request is about one alert: one at a time is enough.
OneAlert == Cardinality(issued') <= 1

\* Of the desk's requests only downloads have to do with photos.
OnlyDownloads == \A d \in Desk : desk'[d] # NoDeskRequest => desk'[d].op = "download"

Alone(name, theirs) == part = name /\ part' = part /\ UNCHANGED theirs

ServicesNext ==
  \/ /\ Alone("trust", <<sessionVars, limitVars, evidenceVars, subscriberVars>>)
     /\ TrustNext /\ ReadingBesideChange /\ OneAlert
  \/ /\ Alone("sessions", <<trustVars, limitVars, evidenceVars, subscriberVars>>)
     /\ SessionNext
  \/ /\ Alone("limits", <<trustVars, sessionVars, evidenceVars, subscriberVars>>)
     /\ LimitNext
  \/ /\ Alone("photos", <<trustVars, sessionVars, limitVars, subscriberVars>>)
     /\ EvidenceNext /\ OnlyDownloads
  \/ /\ Alone("desk", <<trustVars, sessionVars, limitVars, subscriberVars>>)
     /\ EvidenceNext /\ UNCHANGED uploads
  \/ /\ Alone("subscribers", <<trustVars, sessionVars, limitVars, evidenceVars>>)
     /\ SubscriberNext

ServicesSpec == ServicesInit /\ [][ServicesNext]_serviceVars

\* One type invariant for all of them.
ServicesTypeOK ==
  TrustTypeOK /\ SessionTypeOK /\ LimitTypeOK /\ EvidenceTypeOK
  /\ SubscriberTypeOK

\* Requests have the same names in every component.
Symmetry ==
  Permutations(Reviewer) \cup Permutations(AccessRequest) \cup Permutations(Endpoint)
=============================================================================
