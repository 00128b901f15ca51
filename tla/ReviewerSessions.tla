-------------------------- MODULE ReviewerSessions --------------------------
(* Registration, sign-in, sessions and their revocation: apps/api/src/     *)
(* auth.rs and reviewer.rs over postgres/reviewers.rs and                  *)
(* auth/session_token.rs.  Registration is three commits, sign-in three    *)
(* reads and writes, and a session token is checked without a table: its   *)
(* expiry against the clock in whole seconds, then the moment of the last  *)
(* logout in the finer time of the database.                               *)
EXTENDS Integers, FiniteSets

CONSTANTS
  Person,         \* e-mail addresses
  SessionCall,    \* API requests in progress at the same time
  TicksPerSecond, \* the database's clock is finer than a token's
  SessionTTL,     \* seconds
  MaxClock,       \* bound: the last tick
  MaxSessions,    \* bound: sessions ever issued
  NoCall

ASSUME SessionAssumption ==
  /\ TicksPerSecond \in Nat \ {0} /\ SessionTTL \in Nat
  /\ MaxClock \in Nat /\ MaxSessions \in Nat

VARIABLES
  clock,      \* ticks; one clock for the API and the database
  accounts,   \* tables reviewers and reviewer_organization_memberships
  revokedAt,  \* reviewers.sessions_revoked_at; Never is null
  sessions,   \* tokens handed out; the moment of issue is history
  calls,      \* requests in progress
  audit,      \* audit_events: the actions on record for each person
  cutOff      \* history: whose registration failed after its first commit

sessionVars == <<clock, accounts, revokedAt, sessions, calls, audit, cutOff>>

Never == -1
AuditAction == {"REVIEWER_REGISTERED", "REVIEWER_LOGIN_SUCCEEDED",
                "REVIEWER_LOGIN_FAILED", "REVIEWER_LOGOUT"}
Token == [person : Person, expires : 0 .. (MaxClock + SessionTTL), at : 0 .. MaxClock]
Call ==
  [op : {"register"}, person : Person, stage : {"create", "membership", "record"}]
  \cup [op : {"login"}, person : Person,
        stage : {"find", "success", "failure", "membership"}]
  \cup [op : {"logout"}, person : Person, token : Token,
        stage : {"verified", "accepted", "record"}]

ASSUME NoCallAssumption == NoCall \notin Call

SessionTypeOK ==
  /\ clock \in 0 .. MaxClock
  /\ accounts \in [Person -> {"absent", "created", "member"}]
  /\ revokedAt \in [Person -> {Never} \cup 0 .. MaxClock]
  /\ sessions \in SUBSET Token
  /\ calls \in [SessionCall -> Call \cup {NoCall}]
  /\ audit \in [Person -> SUBSET AuditAction]
  /\ cutOff \in SUBSET Person

SessionInit ==
  /\ clock = 0 /\ sessions = {} /\ cutOff = {}
  /\ accounts = [p \in Person |-> "absent"]
  /\ revokedAt = [p \in Person |-> Never]
  /\ calls = [c \in SessionCall |-> NoCall]
  /\ audit = [p \in Person |-> {}]

Seconds(t) == t \div TicksPerSecond
Ending(c) == calls' = [calls EXCEPT ![c] = NoCall]
Going(c, stage) == calls' = [calls EXCEPT ![c].stage = stage]
At(c, op, stage) ==
  calls[c] # NoCall /\ calls[c].op = op /\ calls[c].stage = stage

\* record_audit_event, a statement of its own.
RecordAuditEvent(p, action) == audit' = [audit EXCEPT ![p] = @ \cup {action}]

Tick ==
  /\ clock < MaxClock
  /\ clock' = clock + 1
  /\ UNCHANGED <<accounts, revokedAt, sessions, calls, audit, cutOff>>

-----------------------------------------------------------------------------
(* register, once the grant is authorized (module OrganizationTrust). *)

BeginRegistration(c, p) ==
  /\ calls[c] = NoCall
  /\ calls' = [calls EXCEPT ![c] = [op |-> "register", person |-> p, stage |-> "create"]]
  /\ UNCHANGED <<clock, accounts, revokedAt, sessions, audit, cutOff>>

\* create: EMAIL_ALREADY_REGISTERED when the address is taken.
InsertReviewer(c) ==
  LET p == calls[c].person IN
  /\ At(c, "register", "create")
  /\ IF accounts[p] = "absent"
       THEN accounts' = [accounts EXCEPT ![p] = "created"] /\ Going(c, "membership")
       ELSE Ending(c) /\ UNCHANGED accounts
  /\ UNCHANGED <<clock, revokedAt, sessions, audit, cutOff>>

\* add_membership
GiveMembership(c) ==
  /\ At(c, "register", "membership")
  /\ accounts' = [accounts EXCEPT ![calls[c].person] = "member"]
  /\ Going(c, "record")
  /\ UNCHANGED <<clock, revokedAt, sessions, audit, cutOff>>

\* record_registration; the invitation that follows may fail without effect.
RecordRegistration(c) ==
  /\ At(c, "register", "record")
  /\ RecordAuditEvent(calls[c].person, "REVIEWER_REGISTERED")
  /\ Ending(c)
  /\ UNCHANGED <<clock, accounts, revokedAt, sessions, cutOff>>

-----------------------------------------------------------------------------
(* google_login *)

\* What Google's tokeninfo answers about an id token: for this application, verified.
TokenInfo == [aud : BOOLEAN, email_verified : BOOLEAN, email : Person \cup {NoCall}]

\* validate_token_info
Identifies(info, p) == info.aud /\ info.email_verified /\ info.email = p

\* google_login, up to the identity; the rate limit is module RateLimits.  Where Google
\* does not answer, or does not vouch for the token, the request ends before it begins.
BeginLogin(c, p) ==
  /\ calls[c] = NoCall
  /\ \E info \in TokenInfo : Identifies(info, p)
  /\ calls' = [calls EXCEPT ![c] = [op |-> "login", person |-> p, stage |-> "find"]]
  /\ UNCHANGED <<clock, accounts, revokedAt, sessions, audit, cutOff>>

FindByEmail(c) ==
  /\ At(c, "login", "find")
  /\ Going(c, IF accounts[calls[c].person] = "absent" THEN "failure" ELSE "success")
  /\ UNCHANGED <<clock, accounts, revokedAt, sessions, audit, cutOff>>

RecordLoginFailure(c) ==
  /\ At(c, "login", "failure")
  /\ RecordAuditEvent(calls[c].person, "REVIEWER_LOGIN_FAILED")
  /\ Ending(c)
  /\ UNCHANGED <<clock, accounts, revokedAt, sessions, cutOff>>

RecordLoginSuccess(c) ==
  /\ At(c, "login", "success")
  /\ RecordAuditEvent(calls[c].person, "REVIEWER_LOGIN_SUCCEEDED")
  /\ Going(c, "membership")
  /\ UNCHANGED <<clock, accounts, revokedAt, sessions, cutOff>>

\* issue: the expiry is in whole seconds.
Issue(p) ==
  [person |-> p, expires |-> Seconds(clock) + SessionTTL, at |-> clock]

\* Mutant: the token is issued without REVIEWER_LOGIN_SUCCEEDED on record.
FindMembershipAnyway(c) ==
  LET p == calls[c].person IN
  /\ At(c, "login", "success")
  /\ Cardinality(sessions) < MaxSessions
  /\ sessions' = IF accounts[p] = "member" THEN sessions \cup {Issue(p)} ELSE sessions
  /\ Ending(c)
  /\ UNCHANGED <<clock, accounts, revokedAt, audit, cutOff>>

\* find_membership and the token; without a membership the request panics.
FindMembership(c) ==
  LET p == calls[c].person IN
  /\ At(c, "login", "membership")
  /\ Cardinality(sessions) < MaxSessions
  /\ sessions' = IF accounts[p] = "member" THEN sessions \cup {Issue(p)} ELSE sessions
  /\ Ending(c)
  /\ UNCHANGED <<clock, accounts, revokedAt, audit, cutOff>>

-----------------------------------------------------------------------------
(* actor_from_headers, and logout for what a request does with its session. *)

\* verify: refused when expired.
Verify(c, token) ==
  /\ calls[c] = NoCall
  /\ token.expires >= Seconds(clock)
  /\ calls' = [calls EXCEPT ![c] =
       [op |-> "logout", person |-> token.person, token |-> token, stage |-> "verified"]]
  /\ UNCHANGED <<clock, accounts, revokedAt, sessions, audit, cutOff>>

IssuedAt(token) == token.expires - SessionTTL

\* Mutant: seconds are rounded up.
IsSessionRevokedLate(p, issued) ==
  /\ revokedAt[p] # Never
  /\ revokedAt[p] > (issued + 1) * TicksPerSecond

\* is_session_revoked compares the logout with the second in which the token was issued.
IsSessionRevoked(p, issued) ==
  /\ revokedAt[p] # Never
  /\ revokedAt[p] > issued * TicksPerSecond

CheckRevocation(c) ==
  LET p == calls[c].person IN
  /\ At(c, "logout", "verified")
  /\ IF accounts[p] = "absent" \/ IsSessionRevoked(p, IssuedAt(calls[c].token))
       THEN Ending(c) ELSE Going(c, "accepted")
  /\ UNCHANGED <<clock, accounts, revokedAt, sessions, audit, cutOff>>

\* revoke_all_sessions: now() of the database.
RevokeAllSessions(c) ==
  /\ At(c, "logout", "accepted")
  /\ revokedAt' = [revokedAt EXCEPT ![calls[c].person] = clock]
  /\ Going(c, "record")
  /\ UNCHANGED <<clock, accounts, sessions, audit, cutOff>>

RecordLogout(c) ==
  /\ At(c, "logout", "record")
  /\ RecordAuditEvent(calls[c].person, "REVIEWER_LOGOUT")
  /\ Ending(c)
  /\ UNCHANGED <<clock, accounts, revokedAt, sessions, cutOff>>

\* A failed statement answers 500, a crash nothing; what was committed stays.
CallFails(c) ==
  /\ calls[c] # NoCall
  /\ cutOff' = IF At(c, "register", "membership") THEN cutOff \cup {calls[c].person}
                                                  ELSE cutOff
  /\ Ending(c)
  /\ UNCHANGED <<clock, accounts, revokedAt, sessions, audit>>

SessionNext ==
  \/ Tick
  \/ \E c \in SessionCall :
       \/ \E p \in Person : BeginRegistration(c, p) \/ BeginLogin(c, p)
       \/ \E token \in sessions : Verify(c, token)
       \/ InsertReviewer(c) \/ GiveMembership(c) \/ RecordRegistration(c)
       \/ FindByEmail(c) \/ RecordLoginFailure(c) \/ RecordLoginSuccess(c)
       \/ FindMembership(c)
       \/ CheckRevocation(c) \/ RevokeAllSessions(c) \/ RecordLogout(c)
       \/ CallFails(c)

SessionSpec == SessionInit /\ [][SessionNext]_sessionVars

-----------------------------------------------------------------------------
(* Properties. *)

\* A token handed out before a logout is refused by every request that asks the database
\* after it, although a token only knows the second it was issued in and may have
\* been read from the header before the logout.
LogoutEndsSessions ==
  [][\A c \in SessionCall :
       At(c, "logout", "verified") /\ At(c, "logout", "accepted")' =>
         revokedAt[calls[c].person] <= calls[c].token.at]_sessionVars

\* google_login expects a membership of every registered reviewer.  It is missing
\* only while a registration is between its commits or after one was
\* cut off there; whoever was given a session has it, and the sign-in is on record.
LockoutExplained ==
  \A p \in Person :
    /\ accounts[p] = "created" =>
         p \in cutOff \/ \E c \in SessionCall :
                              At(c, "register", "membership") /\ calls[c].person = p
    /\ \A s \in sessions : s.person = p =>
         accounts[p] = "member" /\ "REVIEWER_LOGIN_SUCCEEDED" \in audit[p]
    /\ revokedAt[p] # Never => "REVIEWER_LOGIN_SUCCEEDED" \in audit[p]
=============================================================================
