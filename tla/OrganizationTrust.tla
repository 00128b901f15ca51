------------------------- MODULE OrganizationTrust -------------------------
(* Reviewers, their memberships, the organizations they act for, and the   *)
(* decisions the API takes from them: apps/api/src/organizations.rs,       *)
(* auth.rs, cases.rs, alerts.rs and subscriptions.rs over                  *)
(* application/src/authorization.rs.  A request reads the membership and   *)
(* the organization in transactions of their own, and stores what it was   *)
(* allowed to do in a later one: trust may be withdrawn in between.        *)
EXTENDS FiniteSets

CONSTANTS
  Reviewer,        \* people, each with one e-mail address
  Organization,
  IncidentType,    \* what an organization may be trusted to verify
  Visibility,      \* what it may be trusted to announce
  TrustList,       \* the lists of grants that a platform admin may set
  AccessRequest,   \* API requests in progress at the same time
  Automated,       \* a request without a session
  NoOrganization, NoMembership, NoJob

ASSUME TrustAssumption ==
  /\ Automated \notin Reviewer
  /\ NoOrganization \notin Organization
  /\ NoOrganization \notin [active : BOOLEAN, trusts : SUBSET (IncidentType \cup Visibility),
                            consumer : BOOLEAN]
  /\ IncidentType \cap Visibility = {}
  /\ TrustList \subseteq SUBSET (IncidentType \cup Visibility)

VARIABLES
  reviewers,      \* table reviewers
  members,        \* table reviewer_organization_memberships
  organizations,  \* table organizations; NoOrganization: no such row
  issued,         \* active alerts: visibility and issuing organization
  requests,       \* requests in progress
  held            \* history: since it began, the request's claim has been true

trustVars ==
  <<reviewers, members, organizations, issued, requests, held>>

Role == {"PLATFORM_ADMIN", "ORG_ADMIN", "MEMBER"}
Trust == IncidentType \cup Visibility
Owner == Organization \cup {NoOrganization}
Membership == [role : Role, organization : Owner]
MemberRow == Membership \cup {NoMembership}
OrganizationRow == [active : BOOLEAN, trusts : SUBSET Trust, consumer : BOOLEAN]
AlertOf == [visibility : Visibility, organization : Owner]
PlatformAdmin == [role |-> "PLATFORM_ADMIN", organization |-> NoOrganization]

\* What a request asks for.
Operation ==
  [op : {"register"}, person : Reviewer, grant : Membership]
  \cup [op : {"create", "activate", "deactivate", "manage", "view", "profile"},
        organization : Organization]
  \cup [op : {"trust"}, organization : Organization, trusts : TrustList]
  \cup [op : {"verify"}, incident : IncidentType]
  \cup [op : {"issue"}, visibility : Visibility]
  \cup [op : {"cancel"}, alert : AlertOf]

\* A request in progress: what it asks, what it has read so far.
AccessRecord ==
  [ask : Operation, actor : Reviewer \cup {Automated}, member : MemberRow,
   stage : {"member", "allowed", "inserted"}]

TrustTypeOK ==
  /\ reviewers \in SUBSET Reviewer
  /\ members \in [Reviewer -> MemberRow]
  /\ organizations \in [Organization -> OrganizationRow \cup {NoOrganization}]
  /\ issued \in SUBSET AlertOf
  /\ requests \in [AccessRequest -> AccessRecord \cup {NoJob}]
  /\ held \in [AccessRequest -> BOOLEAN]

TrustInit ==
  /\ reviewers = {} /\ issued = {}
  /\ members = [r \in Reviewer |-> NoMembership]
  /\ organizations = [o \in Organization |-> NoOrganization]
  /\ requests = [q \in AccessRequest |-> NoJob]
  /\ held = [q \in AccessRequest |-> FALSE]

IsThere(o) == organizations[o] # NoOrganization
IsActive(o) == IsThere(o) /\ organizations[o].active
IsAdmin(m) == m # NoMembership /\ m.role = "PLATFORM_ADMIN"

-----------------------------------------------------------------------------
(* Decisions (application/src/authorization.rs). *)

\* validate_membership_shape
ValidShape(m) == (m.role = "PLATFORM_ADMIN") = (m.organization = NoOrganization)

\* Mutant: an organization admin may appoint another.
MayGrantAnyRole(m, first, g) ==
  \/ first
  \/ IsAdmin(m)
  \/ m # NoMembership /\ m.role = "ORG_ADMIN" /\ m.organization = g.organization

\* authorize_membership_grant
MayGrant(m, first, g) ==
  \/ first
  \/ IsAdmin(m)
  \/ /\ m # NoMembership /\ m.role = "ORG_ADMIN"
     /\ g.role = "MEMBER" /\ g.organization = m.organization

\* authorize_case_verification and authorize_alert_issuance over the
\* organization's may_verify and may_issue_alert
Trusted(m, t) ==
  \/ IsAdmin(m)
  \/ /\ m # NoMembership /\ m.organization # NoOrganization
     /\ IsActive(m.organization) /\ t \in organizations[m.organization].trusts

\* authorize_alert_cancellation
MayCancel(m, alert) ==
  \/ IsAdmin(m)
  \/ m # NoMembership /\ alert.organization \in {NoOrganization, m.organization}

\* find_organization_id_by_consumer_id: none until the consumer is linked.
OwnerOf(o) == IF IsThere(o) /\ organizations[o].consumer THEN o ELSE NoOrganization

\* authorize_consumer_access, which calls authorize_consumer_management
MayManage(m, o) ==
  \/ IsAdmin(m)
  \/ OwnerOf(o) = NoOrganization
  \/ IsActive(o) /\ m # NoMembership /\ m.organization = OwnerOf(o)

\* require_membership_of
MayView(m, o) == m # NoMembership /\ (IsAdmin(m) \/ m.organization = o)

\* require_platform_admin_or_org_admin_of
MayEdit(m, o) ==
  \/ IsAdmin(m)
  \/ m # NoMembership /\ m.role = "ORG_ADMIN" /\ m.organization = o

\* What a request claims at the moment it is stored; TRUE where nothing is claimed.
Claim(j) ==
  CASE j.ask.op = "verify" -> Trusted(members[j.actor], j.ask.incident)
    [] j.ask.op = "issue"  -> Trusted(members[j.actor], j.ask.visibility)
    [] j.ask.op = "cancel" -> /\ Trusted(members[j.actor], j.ask.alert.visibility)
                              /\ MayCancel(members[j.actor], j.ask.alert)
    [] OTHER -> TRUE

\* held keeps whether the claim was true at some moment since the request began.
Witness ==
  held' = [q \in AccessRequest |->
    /\ requests'[q] # NoJob
    /\ \/ requests[q] # NoJob /\ held[q]
       \/ Claim(requests[q])']

End(q) == requests' = [requests EXCEPT ![q] = NoJob]
Advance(q, stage) == requests' = [requests EXCEPT ![q].stage = stage]
-----------------------------------------------------------------------------
(* Requests. *)

\* What the membership alone decides: require_platform_admin, authorize_membership_grant.
RoleAllows(ask, m, first) ==
  CASE ask.op = "register" -> MayGrant(m, first, ask.grant)
    [] ask.op \in {"create", "activate", "deactivate", "trust"} -> IsAdmin(m)
    [] ask.op = "view" -> MayView(m, ask.organization)
    [] ask.op = "profile" -> MayEdit(m, ask.organization)
    [] OTHER -> TRUE

\* Mutant: a cancellation is decided from the membership alone.
NeedsOrganizationUnlessCancel(ask) ==
  \/ ask.op = "register" /\ ask.grant.organization # NoOrganization
  \/ ask.op \in {"verify", "issue", "manage", "view", "profile"}

\* Whether an organization is read before the request is stored.  The find_by_id of the
\* operations on organizations only looks for the row, which is never deleted.
NeedsOrganization(ask) ==
  \/ ask.op = "register" /\ ask.grant.organization # NoOrganization
  \/ ask.op \in {"verify", "issue", "cancel", "manage", "view", "profile"}

\* register counts the reviewers; the first one becomes PlatformAdmin whatever was
\* asked.  The shape of any other grant is validated at once.  A session belongs to
\* a reviewer who has a membership, or google_login would not have issued it.
\* find_membership is a transaction of its own, but a membership never changes once
\* it is there: reading it here or later is the same.
BeginRequest(q, a, ask) ==
  LET first == ask.op = "register" /\ reviewers = {}
      asked == IF first THEN [ask EXCEPT !.grant = PlatformAdmin] ELSE ask
      m     == IF a = Automated THEN NoMembership ELSE members[a]
  IN
  /\ requests[q] = NoJob
  /\ IF a = Automated THEN ask.op = "register" ELSE m # NoMembership
  /\ asked.op = "register" => ValidShape(asked.grant)
  /\ asked.op = "cancel" => asked.alert \in issued
  /\ RoleAllows(asked, m, first)
  /\ requests' = [requests EXCEPT ![q] =
       [ask |-> asked, actor |-> a, member |-> m,
        stage |-> IF NeedsOrganization(asked) THEN "member" ELSE "allowed"]]
  /\ UNCHANGED <<reviewers, members, organizations, issued>>
  /\ Witness

\* authorize_verification_by_organization
VerificationAllowed(m, incident) == Trusted(m, incident)

\* issuing_organization, which also names the issuer.
IssuanceAllowed(m, visibility) == Trusted(m, visibility)

\* AlertAccess::can_read
CanRead(m, alert, subscribed) ==
  \/ IsAdmin(m)
  \/ m.organization # NoOrganization /\ m.organization = alert.organization
  \/ subscribed

\* AlertAccess::can_cancel
CancellationAllowed(m, alert, subscribed) ==
  /\ CanRead(m, alert, subscribed)
  /\ MayCancel(m, alert)
  /\ Trusted(m, alert.visibility)

\* alert_access: an active organization's subscriptions may match the alert.
Subscribed(m) == IF m.organization # NoOrganization /\ IsActive(m.organization)
                    /\ organizations[m.organization].consumer
                   THEN BOOLEAN ELSE {FALSE}

\* What the organization read next decides.
OrganizationAllows(j, subscribed) ==
  CASE j.ask.op = "register" -> IsActive(j.ask.grant.organization)
    [] j.ask.op \in {"view", "profile"} -> IsThere(j.ask.organization)
    [] j.ask.op = "verify" -> VerificationAllowed(j.member, j.ask.incident)
    [] j.ask.op = "issue"  -> IssuanceAllowed(j.member, j.ask.visibility)
    [] j.ask.op = "cancel" -> CancellationAllowed(j.member, j.ask.alert, subscribed)
    [] j.ask.op = "manage" -> MayManage(j.member, j.ask.organization)

\* organizations.find_by_id.  What a reading answers, and what an allowed profile, subscription
\* or preference stores, is not part of this module: they end here.
ReadOrganization(q) ==
  /\ requests[q] # NoJob /\ requests[q].stage = "member"
  /\ \E subscribed \in Subscribed(requests[q].member) :
       IF /\ OrganizationAllows(requests[q], subscribed)
          /\ requests[q].ask.op \notin {"view", "profile", "manage"}
         THEN Advance(q, "allowed") ELSE End(q)
  /\ UNCHANGED <<reviewers, members, organizations, issued>>
  /\ Witness

-----------------------------------------------------------------------------
(* What an allowed request stores. *)

Allowed(q, op) ==
  requests[q] # NoJob /\ requests[q].stage = "allowed" /\ requests[q].ask.op = op

\* create of PostgresReviewerRepository: 409 when the address is taken.
CreateReviewer(q) ==
  LET p == requests[q].ask.person IN
  /\ Allowed(q, "register")
  /\ IF p \in reviewers THEN End(q) /\ UNCHANGED reviewers
                        ELSE reviewers' = reviewers \cup {p} /\ Advance(q, "inserted")
  /\ UNCHANGED <<members, organizations, issued>>
  /\ Witness

\* add_membership, in a transaction of its own; the audit row and the invitation follow.
AddMembership(q) ==
  LET j == requests[q] IN
  /\ j # NoJob /\ j.stage = "inserted" /\ j.ask.op = "register"
  /\ members' = [members EXCEPT ![j.ask.person] = j.ask.grant]
  /\ End(q)
  /\ UNCHANGED <<reviewers, organizations, issued>>
  /\ Witness

\* create_organization: the row, with no trust and no consumer yet.
CreateOrganization(q) ==
  LET o == requests[q].ask.organization IN
  /\ Allowed(q, "create") /\ ~IsThere(o)
  /\ organizations' = [organizations EXCEPT ![o] =
       [active |-> TRUE, trusts |-> {}, consumer |-> FALSE]]
  /\ Advance(q, "inserted")
  /\ UNCHANGED <<reviewers, members, issued>>
  /\ Witness

\* consumers.create, then set_consumer_id
LinkConsumer(q) ==
  LET j == requests[q] IN
  /\ j # NoJob /\ j.stage = "inserted" /\ j.ask.op = "create"
  /\ organizations' = [organizations EXCEPT ![j.ask.organization].consumer = TRUE]
  /\ End(q)
  /\ UNCHANGED <<reviewers, members, issued>>
  /\ Witness

\* set_active
SetActive(q) ==
  /\ Allowed(q, "activate") \/ Allowed(q, "deactivate")
  /\ IsThere(requests[q].ask.organization)
  /\ organizations' = [organizations EXCEPT ![requests[q].ask.organization].active =
                          requests[q].ask.op = "activate"]
  /\ End(q)
  /\ UNCHANGED <<reviewers, members, issued>>
  /\ Witness

\* set_trust_grants replaces both lists outright.
SetTrustGrants(q) ==
  /\ Allowed(q, "trust") /\ IsThere(requests[q].ask.organization)
  /\ organizations' = [organizations EXCEPT ![requests[q].ask.organization].trusts =
                          requests[q].ask.trusts]
  /\ End(q)
  /\ UNCHANGED <<reviewers, members, issued>>
  /\ Witness

\* create_alert, under the organization of the membership that was read.
IssueAlert(q) ==
  LET j == requests[q] IN
  /\ Allowed(q, "issue")
  /\ issued' = issued \cup
       {[visibility |-> j.ask.visibility, organization |-> j.member.organization]}
  /\ End(q)
  /\ UNCHANGED <<reviewers, members, organizations>>
  /\ Witness

\* cancel_alert: nothing happens when another request was first (Conflict).
CancelAlert(q) ==
  /\ Allowed(q, "cancel")
  /\ issued' = issued \ {requests[q].ask.alert}
  /\ End(q)
  /\ UNCHANGED <<reviewers, members, organizations>>
  /\ Witness

\* A verification of verify_case, stored by CaseWorkflow (create_case_event, which reads
\* no organization, is an action of that module); 404 where an organization is not there.
Proceed(q) ==
  /\ \/ Allowed(q, "verify")
     \/ \E op \in {"activate", "deactivate", "trust"} :
          Allowed(q, op) /\ ~IsThere(requests[q].ask.organization)
  /\ End(q)
  /\ UNCHANGED <<reviewers, members, organizations, issued>>
  /\ Witness

\* persistence_failed, or a crash: what was committed stays.
CutOff(q) ==
  /\ requests[q] # NoJob
  /\ End(q)
  /\ UNCHANGED <<reviewers, members, organizations, issued>>
  /\ Witness

TrustNext ==
  \E q \in AccessRequest :
    \/ \E a \in Reviewer \cup {Automated}, ask \in Operation : BeginRequest(q, a, ask)
    \/ ReadOrganization(q)
    \/ CreateReviewer(q) \/ AddMembership(q)
    \/ CreateOrganization(q) \/ LinkConsumer(q)
    \/ SetActive(q) \/ SetTrustGrants(q)
    \/ IssueAlert(q) \/ CancelAlert(q) \/ Proceed(q)
    \/ CutOff(q)

TrustSpec == TrustInit /\ [][TrustNext]_trustVars

-----------------------------------------------------------------------------
(* Properties. *)

\* However registrations overlap and fail, and whatever happens to organizations meanwhile: a
\* membership is given once, to a reviewer who exists, in the shape its role requires, for
\* an organization that exists (the handlers expect it), and by someone who may still grant
\* it when it is stored.  Only those who began before the first reviewer was there get by
\* without: each of them becomes a PlatformAdmin.
MembershipsRooted ==
  [][\A r \in Reviewer : members'[r] # members[r] =>
       /\ members[r] = NoMembership /\ r \in reviewers
       /\ ValidShape(members'[r])
       /\ members'[r].organization # NoOrganization => IsThere(members'[r].organization)
       /\ \E q \in AccessRequest :
            /\ requests[q] # NoJob
            /\ LET g == members[requests[q].actor] IN
               IF requests[q].actor = Automated THEN members'[r] = PlatformAdmin
               ELSE \/ g = PlatformAdmin
                    \/ /\ g.role = "ORG_ADMIN"
                       /\ members'[r] = [g EXCEPT !.role = "MEMBER"]]_trustVars

\* Whoever is about to verify, issue or cancel had the right to do so at some
\* moment since the request began, although it may be gone when it is stored.
ActsOnRightsHeld ==
  \A q \in AccessRequest :
    requests[q] # NoJob /\ requests[q].stage = "allowed" => held[q]
=============================================================================
