----------------------------- MODULE RateLimits -----------------------------
(* Fixed-window rate limits per source: application/src/rate_limit.rs,     *)
(* postgres/rate_limits.rs, the endpoints that enforce them and the        *)
(* worker's cleanup.  A request computes its window from its own clock and *)
(* counts itself in one statement later; any number of API processes share *)
(* the counters, and a worker deletes old windows meanwhile.               *)
EXTENDS Integers

CONSTANTS
  Scope,        \* RateLimitScope
  Source,       \* the last hop of X-Forwarded-For, or "unknown"
  LimitedCall,  \* requests being checked at the same time
  Limit,        \* limit() of each scope
  Window,       \* window() of each scope, in ticks
  Retention,    \* RETENTION, in ticks
  MaxDelay,     \* bound: from reading the clock to the statement
  MaxNow,       \* bound: the last tick
  MaxAsked,     \* bound: requests of one source in one window
  NoCheck

\* A day is longer than the longest window and any delay of a statement.
ASSUME LimitAssumption ==
  /\ Limit \in [Scope -> Nat \ {0}] /\ Window \in [Scope -> Nat \ {0}]
  /\ Retention \in Nat /\ MaxDelay \in Nat /\ MaxNow \in Nat /\ MaxAsked \in Nat
  /\ \A s \in Scope : Window[s] + MaxDelay <= Retention
  /\ NoCheck \notin [scope : Scope, source : Source, start : Nat, at : Nat]

VARIABLES
  now,       \* seconds since the epoch, as ticks
  windows,   \* table rate_limit_windows: request_count, 0 where there is no row
  checks,    \* requests between their clock and their statement
  asked,     \* history: requests counted in each window
  admitted,  \* history: those that were let through
  refused    \* history: those that were answered 429

limitVars == <<now, windows, checks, asked, admitted, refused>>

Bucket == Scope \X Source \X (0 .. MaxNow)
Check == [scope : Scope, source : Source, start : 0 .. MaxNow, at : 0 .. MaxNow]

LimitTypeOK ==
  /\ now \in 0 .. MaxNow
  /\ windows \in [Bucket -> Nat]
  /\ checks \in [LimitedCall -> Check \cup {NoCheck}]
  /\ asked \in [Bucket -> Nat] /\ admitted \in [Bucket -> Nat]
  /\ refused \in [Bucket -> Nat]

LimitInit ==
  /\ now = 0
  /\ windows = [b \in Bucket |-> 0] /\ asked = [b \in Bucket |-> 0]
  /\ admitted = [b \in Bucket |-> 0] /\ refused = [b \in Bucket |-> 0]
  /\ checks = [c \in LimitedCall |-> NoCheck]

\* The clock of any process; a request under way is never older than MaxDelay.
ClockTicks ==
  /\ now < MaxNow
  /\ \A c \in LimitedCall : checks[c] # NoCheck => now < checks[c].at + MaxDelay
  /\ now' = now + 1
  /\ UNCHANGED <<windows, checks, asked, admitted, refused>>

\* now - (now % window_seconds)
WindowStart(s, t) == t - (t % Window[s])

\* record_and_check, up to its statement.
ReadClock(c, s, source) ==
  /\ checks[c] = NoCheck
  /\ checks' = [checks EXCEPT ![c] =
       [scope |-> s, source |-> source, start |-> WindowStart(s, now), at |-> now]]
  /\ UNCHANGED <<now, windows, asked, admitted, refused>>

BucketOf(check) == <<check.scope, check.source, check.start>>

\* Mutant: off by one at the limit.
WithinLimitOrNext(s, count) == count <= Limit[s] + 1
WithinLimit(s, count) == count <= Limit[s]

\* INSERT ... ON CONFLICT DO UPDATE ... RETURNING: row and count are one statement.
Counted(c) ==
  LET b == BucketOf(checks[c]) IN
  /\ checks[c] # NoCheck
  /\ asked[b] < MaxAsked
  /\ windows' = [windows EXCEPT ![b] = @ + 1]
  /\ asked' = [asked EXCEPT ![b] = @ + 1]
  /\ checks' = [checks EXCEPT ![c] = NoCheck]
  /\ now' = now

\* enforce_rate_limit: the request goes on.
Admit(c) ==
  LET b == BucketOf(checks[c]) IN
  /\ Counted(c)
  /\ WithinLimit(b[1], windows[b] + 1)
  /\ admitted' = [admitted EXCEPT ![b] = @ + 1]
  /\ refused' = refused

\* 429 RATE_LIMIT_EXCEEDED
RefuseLimited(c) ==
  LET b == BucketOf(checks[c]) IN
  /\ Counted(c)
  /\ ~WithinLimit(b[1], windows[b] + 1)
  /\ refused' = [refused EXCEPT ![b] = @ + 1]
  /\ admitted' = admitted

\* RATE_LIMIT_CHECK_FAILED: the statement failed, or its answer was lost after it counted.
CheckFails(c) ==
  /\ checks[c] # NoCheck
  /\ \/ Counted(c)
     \/ /\ checks' = [checks EXCEPT ![c] = NoCheck]
        /\ UNCHANGED <<now, windows, asked>>
  /\ UNCHANGED <<admitted, refused>>

\* window_start_epoch_seconds < now - RETENTION
Expired(b) == b[3] < now - Retention

DeleteExpiredWindows ==
  /\ windows' = [b \in Bucket |-> IF Expired(b) THEN 0 ELSE windows[b]]
  /\ UNCHANGED <<now, checks, asked, admitted, refused>>

LimitNext ==
  \/ ClockTicks \/ DeleteExpiredWindows
  \/ \E c \in LimitedCall :
       \/ \E s \in Scope, source \in Source : ReadClock(c, s, source)
       \/ Admit(c) \/ RefuseLimited(c) \/ CheckFails(c)

LimitSpec == LimitInit /\ [][LimitNext]_limitVars

-----------------------------------------------------------------------------
(* Properties. *)

\* In one window no source gets more than the limit through, and nobody is refused
\* before that many were counted: not at the boundary of two windows, not when requests of
\* several processes race, and not when the cleanup runs while a late one is counted.
WindowAdmitsLimit ==
  \A b \in Bucket :
    /\ admitted[b] <= Limit[b[1]]
    /\ refused[b] > 0 => asked[b] >= Limit[b[1]] + refused[b]

\* A row is only missing once no request can be counted in its window any more.
CountsSurvive ==
  /\ \A b \in Bucket : windows[b] = asked[b] \/ (windows[b] = 0 /\ Expired(b))
  /\ \A b \in Bucket : admitted[b] + refused[b] <= asked[b]
  /\ \A c \in LimitedCall : checks[c] # NoCheck =>
       /\ checks[c].at <= now /\ now <= checks[c].at + MaxDelay
       /\ checks[c].start <= checks[c].at
       /\ checks[c].at < checks[c].start + Window[checks[c].scope]
=============================================================================
