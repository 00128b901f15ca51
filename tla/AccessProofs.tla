---------------------------- MODULE AccessProofs ----------------------------
(* Theorems about who gets in, and how often: that no source gets more     *)
(* than its limit through in one window (RateLimits), why a person can be  *)
(* locked out and that a logout ends the sessions issued before it         *)
(* (ReviewerSessions), and that memberships are rooted and nobody acts     *)
(* without having had the right (OrganizationTrust); for every set of      *)
(* people, sources, organizations and concurrent requests, for every       *)
(* limit, window, delay and bound, and for any length of a second.         *)
EXTENDS RateLimits, ReviewerSessions, OrganizationTrust, TLAPS

-----------------------------------------------------------------------------
(* Limits. *)

\* The inductive invariant: counts are only forgotten once nobody can add to them, so the
\* count a request is judged by is the number that were counted.
LimitInv == LimitTypeOK /\ CountsSurvive /\ WindowAdmitsLimit

\* Where a window starts: at or before the time, less than a window ago.
LEMMA StartBefore ==
  ASSUME NEW t \in Nat, NEW s \in Scope, LimitAssumption
  PROVE  /\ WindowStart(s, t) \in 0 .. t
         /\ t < WindowStart(s, t) + Window[s]
<1>1. Window[s] \in Nat /\ Window[s] > 0
  BY DEF LimitAssumption
<1> DEFINE w == Window[s]
<1>2. t % w \in 0 .. w - 1
  BY <1>1
<1>3. t % w <= t
  BY <1>1, Z3
<1>4. QED
  BY <1>1, <1>2, <1>3 DEF WindowStart

\* A request that is being checked belongs to a window whose row the cleanup cannot have
\* taken yet, so the row holds the number that were counted.
LEMMA UnderCheckNotExpired ==
  ASSUME LimitAssumption, LimitInv, NEW c \in LimitedCall, checks[c] # NoCheck
  PROVE  /\ BucketOf(checks[c]) \in Bucket
         /\ ~Expired(BucketOf(checks[c]))
         /\ windows[BucketOf(checks[c])] = asked[BucketOf(checks[c])]
<1> DEFINE k == checks[c]
           b == BucketOf(checks[c])
<1>1. k \in Check
  BY DEF LimitInv, LimitTypeOK
<1>2. b \in Bucket /\ b[1] = k.scope /\ b[3] = k.start
  BY <1>1 DEF Check, Bucket, BucketOf
<1>3. now <= k.at + MaxDelay /\ k.at < k.start + Window[k.scope]
  BY DEF LimitInv, CountsSurvive
<1>4. Window[k.scope] + MaxDelay <= Retention
  BY <1>1 DEF LimitAssumption, Check
<1>5. k.scope \in Scope /\ k.start \in Nat /\ k.at \in Nat /\ now \in Nat
  BY <1>1 DEF Check, LimitInv, LimitTypeOK, LimitAssumption
<1>6. Window[k.scope] \in Nat /\ MaxDelay \in Nat /\ Retention \in Nat
  BY <1>5 DEF LimitAssumption
<1>7. ~Expired(b)
  <2> HIDE DEF k, b
  <2>1. ~(k.start < now - Retention)
    BY <1>3, <1>4, <1>5, <1>6
  <2> QED
    BY <2>1, <1>2 DEF Expired
<1>8. windows[b] = asked[b]
  BY <1>2, <1>7 DEF LimitInv, CountsSurvive
<1> QED
  BY <1>2, <1>7, <1>8

\* What is true of a window whose counts a step leaves alone, or forgets once it is over.
SettledIn(b) ==
  /\ windows[b] = asked[b] \/ (windows[b] = 0 /\ Expired(b))
  /\ admitted[b] + refused[b] <= asked[b]
  /\ admitted[b] <= Limit[b[1]]
  /\ refused[b] > 0 => asked[b] >= Limit[b[1]] + refused[b]

\* And of a request between its clock and its statement.
InTime(k) ==
  /\ k.at <= now /\ now <= k.at + MaxDelay
  /\ k.start <= k.at /\ k.at < k.start + Window[k.scope]

LEMMA InvByWindow ==
  LimitInv <=> /\ LimitTypeOK
               /\ \A b \in Bucket : SettledIn(b)
               /\ \A c \in LimitedCall : checks[c] # NoCheck => InTime(checks[c])
BY DEF LimitInv, CountsSurvive, WindowAdmitsLimit, SettledIn, InTime

\* The same of the state a step leads to.
LEMMA InvNextByWindow ==
  ASSUME LimitTypeOK', \A b \in Bucket : SettledIn(b)',
         \A c \in LimitedCall : checks'[c] # NoCheck => InTime(checks[c])'
  PROVE  LimitInv'
BY DEF LimitInv, CountsSurvive, WindowAdmitsLimit, SettledIn, InTime

\* Before any request nothing is counted.
LEMMA LimitInitInv ==
  ASSUME LimitAssumption, LimitInit
  PROVE  LimitInv
<1>1. LimitTypeOK
  BY DEF LimitInit, LimitTypeOK, LimitAssumption
<1>2. \A b \in Bucket : SettledIn(b)
  <2> TAKE b \in Bucket
  <2>1. b[1] \in Scope
    BY DEF Bucket
  <2>2. Limit[b[1]] \in Nat
    BY <2>1 DEF LimitAssumption
  <2>3. windows[b] = 0 /\ asked[b] = 0 /\ admitted[b] = 0 /\ refused[b] = 0
    BY DEF LimitInit
  <2> QED
    BY <2>2, <2>3 DEF SettledIn
<1>3. \A c \in LimitedCall : checks[c] = NoCheck
  BY DEF LimitInit
<1> QED
  BY <1>1, <1>2, <1>3, InvByWindow

\* Requests that stay, or leave, or take the time they are counted at.
LEMMA TickInv ==
  ASSUME LimitAssumption, LimitInv, ClockTicks
  PROVE  LimitInv'
<1>1. now \in Nat /\ MaxNow \in Nat /\ MaxDelay \in Nat /\ Retention \in Nat
  BY DEF LimitInv, LimitTypeOK, LimitAssumption
<1>2. LimitTypeOK'
  BY <1>1 DEF ClockTicks, LimitInv, LimitTypeOK
<1>3. \A b \in Bucket : SettledIn(b)'
  <2> TAKE b \in Bucket
  <2>1. b[3] \in Nat /\ SettledIn(b)
    BY <1>1, InvByWindow DEF Bucket
  <2>2. Expired(b) => Expired(b)'
    BY <1>1, <2>1 DEF Expired, ClockTicks
  <2> QED
    BY <2>1, <2>2 DEF SettledIn, ClockTicks
<1>4. ASSUME NEW c \in LimitedCall, checks'[c] # NoCheck
      PROVE  InTime(checks[c])'
  <2>1. checks' = checks /\ InTime(checks[c]) /\ checks[c] \in Check
    BY <1>4, InvByWindow DEF ClockTicks, LimitInv, LimitTypeOK
  <2>2. now < checks[c].at + MaxDelay
    BY <1>4, <2>1 DEF ClockTicks
  <2>3. checks[c].at \in Nat
    BY <2>1, <1>1 DEF Check
  <2> QED
    BY <1>1, <2>1, <2>2, <2>3 DEF InTime, ClockTicks
<1> QED
  BY <1>2, <1>3, <1>4, InvNextByWindow

LEMMA ReadClockInv ==
  ASSUME LimitAssumption, LimitInv, NEW c \in LimitedCall, NEW s \in Scope,
         NEW source \in Source, ReadClock(c, s, source)
  PROVE  LimitInv'
<1>1. now \in 0 .. MaxNow /\ MaxNow \in Nat /\ MaxDelay \in Nat /\ Window[s] \in Nat
  BY DEF LimitInv, LimitTypeOK, LimitAssumption
<1>2. WindowStart(s, now) \in 0 .. now /\ now < WindowStart(s, now) + Window[s]
  BY <1>1, StartBefore
<1>3. PICK k \in Check :
        k = [scope |-> s, source |-> source, start |-> WindowStart(s, now), at |-> now]
  <2>1. WindowStart(s, now) \in 0 .. MaxNow
    BY <1>1, <1>2
  <2>2. [scope |-> s, source |-> source, start |-> WindowStart(s, now), at |-> now] \in Check
    BY <1>1, <2>1 DEF Check
  <2> QED
    BY <2>2
<1>4. checks' = [checks EXCEPT ![c] = k]
  BY <1>3 DEF ReadClock
<1>5. LimitTypeOK'
  BY <1>3, <1>4 DEF ReadClock, LimitInv, LimitTypeOK
<1>6. \A b \in Bucket : SettledIn(b)'
  BY InvByWindow DEF SettledIn, Expired, ReadClock
<1>7. InTime(k)'
  BY <1>1, <1>2, <1>3 DEF InTime, ReadClock
<1>8. ASSUME NEW d \in LimitedCall, checks'[d] # NoCheck
      PROVE  InTime(checks[d])'
  <2>1. checks'[d] = IF d = c THEN k ELSE checks[d]
    BY <1>4 DEF LimitInv, LimitTypeOK
  <2>2. CASE d = c
    BY <2>1, <2>2, <1>7 DEF InTime
  <2>3. CASE d # c
    BY <2>1, <2>3, <1>8, InvByWindow DEF InTime, ReadClock
  <2> QED
    BY <2>2, <2>3
<1> QED
  BY <1>5, <1>6, <1>8, InvNextByWindow

\* What a statement that counts does, whatever is answered.
LEMMA CountedStep ==
  ASSUME LimitAssumption, LimitInv, NEW c \in LimitedCall, Counted(c)
  PROVE  LET b == BucketOf(checks[c]) IN
         /\ b \in Bucket /\ now' = now
         /\ windows[b] = asked[b]
         /\ windows' = [windows EXCEPT ![b] = asked[b] + 1]
         /\ asked' = [asked EXCEPT ![b] = asked[b] + 1]
         /\ now' \in 0 .. MaxNow /\ windows' \in [Bucket -> Nat] /\ asked' \in [Bucket -> Nat]
         /\ checks' \in [LimitedCall -> Check \cup {NoCheck}]
         /\ \A d \in LimitedCall : checks'[d] # NoCheck => InTime(checks[d])'
<1> DEFINE b == BucketOf(checks[c])
<1>1. checks[c] # NoCheck
  BY DEF Counted
<1>2. b \in Bucket /\ windows[b] = asked[b]
  BY <1>1, UnderCheckNotExpired
<1>3. /\ now' = now
      /\ windows' = [windows EXCEPT ![b] = windows[b] + 1]
      /\ asked' = [asked EXCEPT ![b] = asked[b] + 1]
      /\ checks' = [checks EXCEPT ![c] = NoCheck]
  BY DEF Counted
<1>4. windows \in [Bucket -> Nat] /\ asked \in [Bucket -> Nat] /\ now \in 0 .. MaxNow
      /\ checks \in [LimitedCall -> Check \cup {NoCheck}]
  BY DEF LimitInv, LimitTypeOK
<1>5. ASSUME NEW d \in LimitedCall, checks'[d] # NoCheck
      PROVE  InTime(checks[d])'
  <2>1. checks'[d] = checks[d]
    BY <1>3, <1>4, <1>5
  <2> QED
    BY <2>1, <1>3, <1>5, InvByWindow DEF InTime
<1> QED
  BY <1>2, <1>3, <1>4, <1>5

\* A step that counts changes its own window only, so only that one has to be looked at.
LEMMA CountedInv ==
  ASSUME LimitAssumption, LimitInv, NEW c \in LimitedCall, Counted(c),
         NEW b \in Bucket, b = BucketOf(checks[c]),
         admitted' \in [Bucket -> Nat], refused' \in [Bucket -> Nat],
         SettledIn(b)',
         \A d \in Bucket : d # b => admitted'[d] = admitted[d] /\ refused'[d] = refused[d]
  PROVE  LimitInv'
<1>1. LimitTypeOK'
  BY CountedStep DEF LimitTypeOK
<1>2. /\ windows' = [windows EXCEPT ![b] = asked[b] + 1]
      /\ asked' = [asked EXCEPT ![b] = asked[b] + 1] /\ now' = now
  BY CountedStep
<1>3. windows \in [Bucket -> Nat] /\ asked \in [Bucket -> Nat]
  BY DEF LimitInv, LimitTypeOK
<1>4. ASSUME NEW d \in Bucket, d # b
      PROVE  SettledIn(d)'
  <2>1. /\ windows'[d] = windows[d] /\ asked'[d] = asked[d]
        /\ admitted'[d] = admitted[d] /\ refused'[d] = refused[d]
    BY <1>2, <1>3, <1>4
  <2>2. SettledIn(d)
    BY InvByWindow
  <2> QED
    BY <1>2, <2>1, <2>2 DEF SettledIn, Expired
<1> QED
  BY <1>1, <1>4, CountedStep, InvNextByWindow

\* What a counted request finds in its own window, and the numbers involved.
LEMMA OwnWindow ==
  ASSUME LimitAssumption, LimitInv, NEW c \in LimitedCall, Counted(c),
         NEW b \in Bucket, b = BucketOf(checks[c])
  PROVE  /\ SettledIn(b) /\ windows[b] = asked[b]
         /\ Limit[b[1]] \in Nat /\ asked[b] \in Nat
         /\ admitted[b] \in Nat /\ refused[b] \in Nat
         /\ windows'[b] = asked[b] + 1 /\ asked'[b] = asked[b] + 1
<1>1. b \in Bucket /\ windows[b] = asked[b]
      /\ windows' = [windows EXCEPT ![b] = asked[b] + 1]
      /\ asked' = [asked EXCEPT ![b] = asked[b] + 1]
  BY CountedStep
<1>2. b[1] \in Scope
  BY <1>1 DEF Bucket
<1>3. Limit[b[1]] \in Nat
  BY <1>2 DEF LimitAssumption
<1>4. windows \in [Bucket -> Nat] /\ asked \in [Bucket -> Nat]
      /\ admitted \in [Bucket -> Nat] /\ refused \in [Bucket -> Nat]
  BY DEF LimitInv, LimitTypeOK
<1> QED
  BY <1>1, <1>3, <1>4, InvByWindow

\* The request within the limit: its window held fewer than the limit before it.
LEMMA AdmitInv ==
  ASSUME LimitAssumption, LimitInv, NEW c \in LimitedCall, Admit(c)
  PROVE  LimitInv'
<1>1. Counted(c)
  BY DEF Admit
<1>2. PICK b \in Bucket : b = BucketOf(checks[c])
  BY <1>1, CountedStep
<1>3. /\ admitted' = [admitted EXCEPT ![b] = @ + 1] /\ refused' = refused
      /\ windows[b] + 1 <= Limit[b[1]]
  BY <1>2 DEF Admit, WithinLimit
<1>4. admitted \in [Bucket -> Nat] /\ refused \in [Bucket -> Nat]
  BY DEF LimitInv, LimitTypeOK
<1>5. /\ SettledIn(b) /\ windows[b] = asked[b]
      /\ Limit[b[1]] \in Nat /\ asked[b] \in Nat /\ admitted[b] \in Nat /\ refused[b] \in Nat
      /\ windows'[b] = asked[b] + 1 /\ asked'[b] = asked[b] + 1
  BY <1>1, <1>2, OwnWindow
<1>6. admitted'[b] = admitted[b] + 1 /\ refused'[b] = refused[b]
  BY <1>3, <1>4
<1>7. SettledIn(b)'
  BY <1>3, <1>5, <1>6 DEF SettledIn
<1>8. admitted' \in [Bucket -> Nat] /\ refused' \in [Bucket -> Nat]
  BY <1>3, <1>4
<1>9. \A d \in Bucket : d # b => admitted'[d] = admitted[d] /\ refused'[d] = refused[d]
  BY <1>3, <1>4
<1> QED
  BY <1>1, <1>2, <1>7, <1>8, <1>9, CountedInv

\* The request over the limit: as many as the limit were counted before it.
LEMMA RefuseInv ==
  ASSUME LimitAssumption, LimitInv, NEW c \in LimitedCall, RefuseLimited(c)
  PROVE  LimitInv'
<1>1. Counted(c)
  BY DEF RefuseLimited
<1>2. PICK b \in Bucket : b = BucketOf(checks[c])
  BY <1>1, CountedStep
<1>3. /\ refused' = [refused EXCEPT ![b] = @ + 1] /\ admitted' = admitted
      /\ ~(windows[b] + 1 <= Limit[b[1]])
  BY <1>2 DEF RefuseLimited, WithinLimit
<1>4. admitted \in [Bucket -> Nat] /\ refused \in [Bucket -> Nat]
  BY DEF LimitInv, LimitTypeOK
<1>5. /\ SettledIn(b) /\ windows[b] = asked[b]
      /\ Limit[b[1]] \in Nat /\ asked[b] \in Nat /\ admitted[b] \in Nat /\ refused[b] \in Nat
      /\ windows'[b] = asked[b] + 1 /\ asked'[b] = asked[b] + 1
  BY <1>1, <1>2, OwnWindow
<1>6. refused'[b] = refused[b] + 1 /\ admitted'[b] = admitted[b]
  BY <1>3, <1>4
<1>7. SettledIn(b)'
  BY <1>3, <1>5, <1>6 DEF SettledIn
<1>8. admitted' \in [Bucket -> Nat] /\ refused' \in [Bucket -> Nat]
  BY <1>3, <1>4
<1>9. \A d \in Bucket : d # b => admitted'[d] = admitted[d] /\ refused'[d] = refused[d]
  BY <1>3, <1>4
<1> QED
  BY <1>1, <1>2, <1>7, <1>8, <1>9, CountedInv

\* The request whose statement failed, or whose answer was lost.
LEMMA CheckFailsInv ==
  ASSUME LimitAssumption, LimitInv, NEW c \in LimitedCall, CheckFails(c)
  PROVE  LimitInv'
<1>1. admitted' = admitted /\ refused' = refused
  BY DEF CheckFails
<1>2. admitted \in [Bucket -> Nat] /\ refused \in [Bucket -> Nat]
  BY DEF LimitInv, LimitTypeOK
<1>3. CASE Counted(c)
  <2>1. PICK b \in Bucket : b = BucketOf(checks[c])
    BY <1>3, CountedStep
  <2>2. /\ SettledIn(b) /\ windows[b] = asked[b]
        /\ Limit[b[1]] \in Nat /\ asked[b] \in Nat /\ admitted[b] \in Nat /\ refused[b] \in Nat
        /\ windows'[b] = asked[b] + 1 /\ asked'[b] = asked[b] + 1
    BY <1>3, <2>1, OwnWindow
  <2>3. SettledIn(b)'
    BY <1>1, <2>2 DEF SettledIn
  <2> QED
    BY <1>1, <1>2, <1>3, <2>1, <2>3, CountedInv
<1>4. CASE checks' = [checks EXCEPT ![c] = NoCheck] /\ UNCHANGED <<now, windows, asked>>
  <2>1. LimitTypeOK'
    BY <1>1, <1>4 DEF LimitInv, LimitTypeOK
  <2>2. \A b \in Bucket : SettledIn(b)'
    BY <1>1, <1>4, InvByWindow DEF SettledIn, Expired
  <2>3. \A d \in LimitedCall : checks'[d] # NoCheck => checks'[d] = checks[d]
    BY <1>4 DEF LimitInv, LimitTypeOK
  <2>4. \A d \in LimitedCall : checks'[d] # NoCheck => InTime(checks[d])'
    BY <1>4, <2>3, InvByWindow DEF InTime
  <2> QED
    BY <2>1, <2>2, <2>4, InvNextByWindow
<1> QED
  BY <1>3, <1>4 DEF CheckFails

\* The cleanup takes rows of windows that are over, and no row a request can still count in.
LEMMA DeleteInv ==
  ASSUME LimitAssumption, LimitInv, DeleteExpiredWindows
  PROVE  LimitInv'
<1>1. windows' = [b \in Bucket |-> IF Expired(b) THEN 0 ELSE windows[b]]
      /\ UNCHANGED <<now, checks, asked, admitted, refused>>
  BY DEF DeleteExpiredWindows
<1>2. LimitTypeOK'
  BY <1>1 DEF LimitInv, LimitTypeOK
<1>3. \A b \in Bucket : SettledIn(b)'
  BY <1>1, InvByWindow DEF SettledIn, Expired
<1>4. \A d \in LimitedCall : checks'[d] # NoCheck => InTime(checks[d])'
  BY <1>1, InvByWindow DEF InTime
<1> QED
  BY <1>2, <1>3, <1>4, InvNextByWindow

\* Every step of the limiter, and a stutter, keeps the invariant.
LEMMA LimitStepInv ==
  ASSUME LimitAssumption, LimitInv, [LimitNext]_limitVars
  PROVE  LimitInv'
<1>1. CASE ClockTicks
  BY <1>1, TickInv
<1>2. CASE DeleteExpiredWindows
  BY <1>2, DeleteInv
<1>3. ASSUME NEW c \in LimitedCall, NEW s \in Scope, NEW source \in Source,
             ReadClock(c, s, source)
      PROVE  LimitInv'
  BY <1>3, ReadClockInv
<1>4. ASSUME NEW c \in LimitedCall, Admit(c) \/ RefuseLimited(c) \/ CheckFails(c)
      PROVE  LimitInv'
  BY <1>4, AdmitInv, RefuseInv, CheckFailsInv
<1>5. CASE UNCHANGED limitVars
  BY <1>5 DEF limitVars, LimitInv, LimitTypeOK, CountsSurvive, WindowAdmitsLimit, Expired
<1> QED
  BY <1>1, <1>2, <1>3, <1>4, <1>5 DEF LimitNext

\* The counts of every window agree with what was counted, however requests of several
\* processes race with each other and with the worker's cleanup.
THEOREM LimitInvariant == LimitSpec => []LimitInv
<1>1. LimitAssumption
  BY LimitAssumption
<1>2. LimitInit => LimitInv
  BY <1>1, LimitInitInv
<1>3. LimitInv /\ [LimitNext]_limitVars => LimitInv'
  BY <1>1, LimitStepInv
<1> QED
  BY <1>2, <1>3, PTL DEF LimitSpec

\* enforce_rate_limit lets no more than the limit of a source through in one window, and
\* refuses nobody early, for every limit, window and number of concurrent requests.
THEOREM WindowAdmitsLimitHolds == LimitSpec => []WindowAdmitsLimit
<1>1. LimitInv => WindowAdmitsLimit
  BY DEF LimitInv
<1> QED
  BY <1>1, LimitInvariant, PTL

\* A window's row is missing only once no request can be counted in it any more.
THEOREM CountsSurviveHolds == LimitSpec => []CountsSurvive
<1>1. LimitInv => CountsSurvive
  BY DEF LimitInv
<1> QED
  BY <1>1, LimitInvariant, PTL

-----------------------------------------------------------------------------
(* Sessions. *)

\* A token carries the second of its issue, and was issued in the past.
TokensHonest ==
  \A s \in sessions : s.expires = Seconds(s.at) + SessionTTL /\ s.at <= clock

\* What a request may rely on since its earlier steps.
CallBacked(call) ==
  /\ call.op = "login" /\ call.stage = "membership" =>
       "REVIEWER_LOGIN_SUCCEEDED" \in audit[call.person]
  /\ call.op = "logout" => call.token \in sessions /\ call.person = call.token.person

CallsBacked == \A c \in SessionCall : calls[c] # NoCall => CallBacked(calls[c])

\* The three conjuncts of LockoutExplained.
HalfRegistered(p) ==
  accounts[p] = "created" =>
    p \in cutOff \/ \E c \in SessionCall :
                         At(c, "register", "membership") /\ calls[c].person = p
SessionsEarned(p) ==
  \A s \in sessions : s.person = p =>
    accounts[p] = "member" /\ "REVIEWER_LOGIN_SUCCEEDED" \in audit[p]
RevocationEarned(p) == revokedAt[p] # Never => "REVIEWER_LOGIN_SUCCEEDED" \in audit[p]

SessionInv == SessionTypeOK /\ TokensHonest /\ CallsBacked /\ LockoutExplained

-----------------------------------------------------------------------------
(* Requests and seconds. *)

\* A second begins no later than any of its ticks, and seconds are no more than ticks.
LEMMA SecondBegins ==
  ASSUME NEW t \in Nat
  PROVE  /\ Seconds(t) \in Nat /\ Seconds(t) <= t
         /\ Seconds(t) * TicksPerSecond <= t
<1> DEFINE T == TicksPerSecond
<1>1. T \in Nat \ {0}  BY SessionAssumption
<1> HIDE DEF T
<1>2. t \div T \in Nat /\ t = T * (t \div T) + (t % T) /\ t % T \in Nat
  BY <1>1, Z3
<1>3. (t \div T) * T <= t  BY <1>1, <1>2, Z3
<1>4. t \div T <= (t \div T) * T  BY <1>1, <1>2, Z3
<1>5. t \div T <= t  BY <1>1, <1>2, <1>3, <1>4, Z3
<1> QED  BY <1>2, <1>3, <1>5 DEF Seconds, T

\* A request that has begun is a record of one of the three kinds.
LEMMA AtCall ==
  ASSUME SessionTypeOK, NEW c \in SessionCall, NEW op, NEW stage, At(c, op, stage)
  PROVE  /\ calls[c] \in Call /\ calls[c].person \in Person
         /\ calls[c].op = op /\ calls[c].stage = stage
BY DEF SessionTypeOK, At, Call

\* The next stage is one of the same kind.
LEMMA GoingTyped ==
  ASSUME SessionTypeOK, NEW c \in SessionCall, calls[c] # NoCall, NEW stage, Going(c, stage),
         \/ calls[c].op = "register" /\ stage \in {"membership", "record"}
         \/ calls[c].op = "login" /\ stage \in {"success", "failure", "membership"}
         \/ calls[c].op = "logout" /\ stage \in {"accepted", "record"}
  PROVE  calls' \in [SessionCall -> Call \cup {NoCall}]
<1>1. calls[c] \in Call  BY DEF SessionTypeOK
<1>2. [calls[c] EXCEPT !.stage = stage] \in Call
  BY <1>1 DEF Call
<1> QED  BY <1>2 DEF SessionTypeOK, Going

\* Ending a request keeps the table of requests well typed.
LEMMA EndingTyped ==
  ASSUME SessionTypeOK, NEW c \in SessionCall, Ending(c)
  PROVE  calls' \in [SessionCall -> Call \cup {NoCall}]
BY DEF SessionTypeOK, Ending

-----------------------------------------------------------------------------
(* Types. *)

\* Recording an audit event keeps the trail well typed and what was in it.
LEMMA RecordedTyped ==
  ASSUME SessionTypeOK, NEW p \in Person, NEW action \in AuditAction,
         RecordAuditEvent(p, action)
  PROVE  /\ audit' \in [Person -> SUBSET AuditAction]
         /\ \A q \in Person : audit[q] \subseteq audit'[q]
         /\ action \in audit'[p]
BY DEF SessionTypeOK, RecordAuditEvent

\* A sign-in and a registration begin with a request of their kind.
LEMMA BeginTyped ==
  ASSUME SessionTypeOK, NEW c \in SessionCall, NEW p \in Person,
         BeginRegistration(c, p) \/ BeginLogin(c, p)
  PROVE  SessionTypeOK'
<1>1. CASE BeginRegistration(c, p)
  <2>1. [op |-> "register", person |-> p, stage |-> "create"] \in Call  BY DEF Call
  <2> QED  BY <1>1, <2>1 DEF BeginRegistration, SessionTypeOK
<1>2. CASE BeginLogin(c, p)
  <2>1. [op |-> "login", person |-> p, stage |-> "find"] \in Call  BY DEF Call
  <2> QED  BY <1>2, <2>1 DEF BeginLogin, SessionTypeOK
<1> QED  BY <1>1, <1>2

\* The steps of a registration.
LEMMA RegistrationTyped ==
  ASSUME SessionTypeOK, NEW c \in SessionCall,
         InsertReviewer(c) \/ GiveMembership(c) \/ RecordRegistration(c)
  PROVE  SessionTypeOK'
<1>1. CASE InsertReviewer(c)
  <2>1. calls' \in [SessionCall -> Call \cup {NoCall}]
    BY <1>1, GoingTyped, EndingTyped DEF InsertReviewer, At
  <2>2. accounts' \in [Person -> {"absent", "created", "member"}]
    BY <1>1, AtCall DEF InsertReviewer, SessionTypeOK
  <2> QED  BY <1>1, <2>1, <2>2 DEF InsertReviewer, SessionTypeOK
<1>2. CASE GiveMembership(c)
  <2>1. calls' \in [SessionCall -> Call \cup {NoCall}]
    BY <1>2, GoingTyped DEF GiveMembership, At
  <2> QED  BY <1>2, <2>1, AtCall DEF GiveMembership, SessionTypeOK
<1>3. CASE RecordRegistration(c)
  <2>1. audit' \in [Person -> SUBSET AuditAction]
    BY <1>3, AtCall, RecordedTyped DEF RecordRegistration, AuditAction
  <2> QED  BY <1>3, <2>1, EndingTyped DEF RecordRegistration, SessionTypeOK
<1> QED  BY <1>1, <1>2, <1>3

\* A token issued now is a token.
LEMMA IssueTyped ==
  ASSUME SessionTypeOK, NEW p \in Person
  PROVE  Issue(p) \in Token /\ Issue(p).person = p /\ Issue(p).at = clock
         /\ Issue(p).expires = Seconds(clock) + SessionTTL
<1>1. clock \in Nat /\ clock <= MaxClock /\ MaxClock \in Nat /\ SessionTTL \in Nat
  BY SessionAssumption DEF SessionTypeOK
<1>2. Seconds(clock) \in Nat /\ Seconds(clock) <= clock  BY <1>1, SecondBegins
<1>3. Seconds(clock) + SessionTTL \in 0 .. (MaxClock + SessionTTL)  BY <1>1, <1>2
<1> QED  BY <1>1, <1>3 DEF Issue, Token

\* The steps of a sign-in.
LEMMA LoginTyped ==
  ASSUME SessionTypeOK, NEW c \in SessionCall,
         FindByEmail(c) \/ RecordLoginFailure(c) \/ RecordLoginSuccess(c) \/ FindMembership(c)
  PROVE  SessionTypeOK'
<1>1. CASE FindByEmail(c)
  <2>1. calls' \in [SessionCall -> Call \cup {NoCall}]
    BY <1>1, GoingTyped DEF FindByEmail, At
  <2> QED  BY <1>1, <2>1 DEF FindByEmail, SessionTypeOK
<1>2. CASE RecordLoginFailure(c)
  <2>1. audit' \in [Person -> SUBSET AuditAction]
    BY <1>2, AtCall, RecordedTyped DEF RecordLoginFailure, AuditAction
  <2> QED  BY <1>2, <2>1, EndingTyped DEF RecordLoginFailure, SessionTypeOK
<1>3. CASE RecordLoginSuccess(c)
  <2>1. audit' \in [Person -> SUBSET AuditAction]
    BY <1>3, AtCall, RecordedTyped DEF RecordLoginSuccess, AuditAction
  <2>2. calls' \in [SessionCall -> Call \cup {NoCall}]
    BY <1>3, GoingTyped DEF RecordLoginSuccess, At
  <2> QED  BY <1>3, <2>1, <2>2 DEF RecordLoginSuccess, SessionTypeOK
<1>4. CASE FindMembership(c)
  <2>1. sessions' \in SUBSET Token
    BY <1>4, AtCall, IssueTyped DEF FindMembership, SessionTypeOK
  <2> QED  BY <1>4, <2>1, EndingTyped DEF FindMembership, SessionTypeOK
<1> QED  BY <1>1, <1>2, <1>3, <1>4

\* The steps of a request with a session, and a request that breaks off.
LEMMA LogoutTyped ==
  ASSUME SessionTypeOK, NEW c \in SessionCall,
         \/ \E token \in sessions : Verify(c, token)
         \/ CheckRevocation(c) \/ RevokeAllSessions(c) \/ RecordLogout(c) \/ CallFails(c)
  PROVE  SessionTypeOK'
<1>1. ASSUME NEW token \in sessions, Verify(c, token)
      PROVE  SessionTypeOK'
  <2>1. token \in Token /\ token.person \in Person  BY DEF SessionTypeOK, Token
  <2>2. [op |-> "logout", person |-> token.person, token |-> token, stage |-> "verified"]
          \in Call
    BY <2>1 DEF Call
  <2> QED  BY <1>1, <2>2 DEF Verify, SessionTypeOK
<1>2. CASE CheckRevocation(c)
  <2>1. calls' \in [SessionCall -> Call \cup {NoCall}]
    BY <1>2, GoingTyped, EndingTyped DEF CheckRevocation, At
  <2> QED  BY <1>2, <2>1 DEF CheckRevocation, SessionTypeOK
<1>3. CASE RevokeAllSessions(c)
  <2>1. calls' \in [SessionCall -> Call \cup {NoCall}]
    BY <1>3, GoingTyped DEF RevokeAllSessions, At
  <2> QED  BY <1>3, <2>1, AtCall DEF RevokeAllSessions, SessionTypeOK
<1>4. CASE RecordLogout(c)
  <2>1. audit' \in [Person -> SUBSET AuditAction]
    BY <1>4, AtCall, RecordedTyped DEF RecordLogout, AuditAction
  <2> QED  BY <1>4, <2>1, EndingTyped DEF RecordLogout, SessionTypeOK
<1>5. CASE CallFails(c)
  <2>1. cutOff' \in SUBSET Person
    BY <1>5, AtCall DEF CallFails, SessionTypeOK
  <2> QED  BY <1>5, <2>1, EndingTyped DEF CallFails, SessionTypeOK
<1> QED  BY <1>1, <1>2, <1>3, <1>4, <1>5

\* Every step keeps the types.
LEMMA TypesKept ==
  ASSUME SessionTypeOK, [SessionNext]_sessionVars
  PROVE  SessionTypeOK'
<1>1. CASE Tick
  BY <1>1, SessionAssumption DEF Tick, SessionTypeOK
<1>2. CASE UNCHANGED sessionVars
  BY <1>2 DEF sessionVars, SessionTypeOK
<1>3. ASSUME NEW c \in SessionCall,
             \/ \E p \in Person : BeginRegistration(c, p) \/ BeginLogin(c, p)
             \/ \E token \in sessions : Verify(c, token)
             \/ InsertReviewer(c) \/ GiveMembership(c) \/ RecordRegistration(c)
             \/ FindByEmail(c) \/ RecordLoginFailure(c) \/ RecordLoginSuccess(c)
             \/ FindMembership(c)
             \/ CheckRevocation(c) \/ RevokeAllSessions(c) \/ RecordLogout(c)
             \/ CallFails(c)
      PROVE  SessionTypeOK'
  BY <1>3, BeginTyped, RegistrationTyped, LoginTyped, LogoutTyped
<1> QED  BY <1>1, <1>2, <1>3 DEF SessionNext

-----------------------------------------------------------------------------
(* Tokens. *)

\* Sessions only grow, by tokens issued now, and time does not run backwards.
LEMMA SessionsGrow ==
  ASSUME SessionTypeOK, [SessionNext]_sessionVars
  PROVE  /\ sessions \subseteq sessions' /\ clock <= clock'
         /\ \A s \in sessions' : s \in sessions \/
              \E c \in SessionCall :
                /\ FindMembership(c) /\ s = Issue(calls[c].person)
                /\ accounts[calls[c].person] = "member"
<1>0. clock \in Int  BY DEF SessionTypeOK
<1>1. CASE Tick
  BY <1>0, <1>1 DEF Tick
<1>2. CASE UNCHANGED sessionVars
  BY <1>0, <1>2 DEF sessionVars
<1>3. ASSUME NEW c \in SessionCall, FindMembership(c)
      PROVE  /\ sessions \subseteq sessions' /\ clock <= clock'
             /\ \A s \in sessions' : s \in sessions \/
                  /\ s = Issue(calls[c].person) /\ accounts[calls[c].person] = "member"
  BY <1>0, <1>3 DEF FindMembership
<1>4. ASSUME NEW c \in SessionCall,
             \/ \E p \in Person : BeginRegistration(c, p) \/ BeginLogin(c, p)
             \/ \E token \in sessions : Verify(c, token)
             \/ InsertReviewer(c) \/ GiveMembership(c) \/ RecordRegistration(c)
             \/ FindByEmail(c) \/ RecordLoginFailure(c) \/ RecordLoginSuccess(c)
             \/ CheckRevocation(c) \/ RevokeAllSessions(c) \/ RecordLogout(c)
             \/ CallFails(c)
      PROVE  UNCHANGED <<sessions, clock>>
  BY <1>4 DEF BeginRegistration, BeginLogin, Verify, InsertReviewer, GiveMembership,
    RecordRegistration, FindByEmail, RecordLoginFailure, RecordLoginSuccess,
    CheckRevocation, RevokeAllSessions, RecordLogout, CallFails
<1>5. ASSUME UNCHANGED <<sessions, clock>>
      PROVE  sessions \subseteq sessions' /\ clock <= clock'
             /\ \A s \in sessions' : s \in sessions
  BY <1>0, <1>5
<1> QED  BY <1>1, <1>2, <1>3, <1>4, <1>5 DEF SessionNext

\* Every step keeps the tokens honest.
LEMMA TokensStayHonest ==
  ASSUME SessionTypeOK, TokensHonest, [SessionNext]_sessionVars
  PROVE  TokensHonest'
<1> SUFFICES ASSUME NEW s \in sessions'
             PROVE  s.expires = Seconds(s.at) + SessionTTL /\ s.at <= clock'
  BY DEF TokensHonest, Seconds
<1>0. clock \in Int /\ SessionTypeOK' /\ clock' \in Int /\ clock <= clock'
  BY TypesKept, SessionsGrow DEF SessionTypeOK
<1>1. CASE s \in sessions
  <2>1. s.expires = Seconds(s.at) + SessionTTL /\ s.at <= clock
    BY <1>1 DEF TokensHonest
  <2>2. s.at \in Int  BY <1>1 DEF SessionTypeOK, Token
  <2> QED  BY <1>0, <2>1, <2>2
<1>2. ASSUME NEW c \in SessionCall, FindMembership(c), s = Issue(calls[c].person)
      PROVE  s.expires = Seconds(s.at) + SessionTTL /\ s.at <= clock'
  <2>1. calls[c].person \in Person  BY <1>2, AtCall DEF FindMembership
  <2> QED  BY <1>0, <1>2, <2>1, IssueTyped
<1> QED  BY <1>1, <1>2, SessionsGrow

-----------------------------------------------------------------------------
(* Requests, and what is on record for them. *)

\* The audit trail only grows.
LEMMA AuditGrows ==
  ASSUME SessionTypeOK, [SessionNext]_sessionVars
  PROVE  \A p \in Person : audit[p] \subseteq audit'[p]
<1>1. CASE Tick \/ UNCHANGED sessionVars
  BY <1>1 DEF Tick, sessionVars
<1>2. ASSUME NEW c \in SessionCall,
             RecordRegistration(c) \/ RecordLoginFailure(c) \/ RecordLoginSuccess(c)
               \/ RecordLogout(c)
      PROVE  \A p \in Person : audit[p] \subseteq audit'[p]
  BY <1>2, AtCall, RecordedTyped DEF RecordRegistration, RecordLoginFailure,
    RecordLoginSuccess, RecordLogout, AuditAction
<1>3. ASSUME NEW c \in SessionCall,
             \/ \E p \in Person : BeginRegistration(c, p) \/ BeginLogin(c, p)
             \/ \E token \in sessions : Verify(c, token)
             \/ InsertReviewer(c) \/ GiveMembership(c)
             \/ FindByEmail(c) \/ FindMembership(c)
             \/ CheckRevocation(c) \/ RevokeAllSessions(c) \/ CallFails(c)
      PROVE  audit' = audit
  BY <1>3 DEF BeginRegistration, BeginLogin, Verify, InsertReviewer, GiveMembership,
    FindByEmail, FindMembership, CheckRevocation, RevokeAllSessions, CallFails
<1> QED  BY <1>1, <1>2, <1>3 DEF SessionNext

\* What one request does in a step.
Moves(c) ==
  \/ \E p \in Person : BeginRegistration(c, p) \/ BeginLogin(c, p)
  \/ \E token \in sessions : Verify(c, token)
  \/ InsertReviewer(c) \/ GiveMembership(c) \/ RecordRegistration(c)
  \/ FindByEmail(c) \/ RecordLoginFailure(c) \/ RecordLoginSuccess(c)
  \/ FindMembership(c)
  \/ CheckRevocation(c) \/ RevokeAllSessions(c) \/ RecordLogout(c)
  \/ CallFails(c)

\* A request is changed by its own steps only.
LEMMA OthersStay ==
  ASSUME SessionTypeOK, [SessionNext]_sessionVars, NEW c \in SessionCall
  PROVE  calls'[c] = calls[c] \/ Moves(c)
<1>1. CASE Tick \/ UNCHANGED sessionVars
  BY <1>1 DEF Tick, sessionVars
<1>2. ASSUME NEW d \in SessionCall, Moves(d), d # c
      PROVE  calls'[c] = calls[c]
  BY <1>2 DEF Moves, BeginRegistration, BeginLogin, Verify, InsertReviewer, GiveMembership,
    RecordRegistration, FindByEmail, RecordLoginFailure, RecordLoginSuccess, FindMembership,
    CheckRevocation, RevokeAllSessions, RecordLogout, CallFails, Going, Ending, SessionTypeOK
<1> QED  BY <1>1, <1>2 DEF SessionNext, Moves

\* Every step leaves each request with what it may rely on.
LEMMA CallsStayBacked ==
  ASSUME SessionTypeOK, CallsBacked, [SessionNext]_sessionVars
  PROVE  CallsBacked'
<1> SUFFICES ASSUME NEW c \in SessionCall, calls'[c] # NoCall
             PROVE  CallBacked(calls[c])'
  BY DEF CallsBacked
<1>1. ASSUME calls[c] # NoCall, calls'[c].op = calls[c].op,
             calls'[c].person = calls[c].person,
             calls[c].op = "logout" => calls'[c].token = calls[c].token,
             \/ calls[c].stage = "membership" \/ calls'[c].stage # "membership"
             \/ calls[c].op # "login"
      PROVE  CallBacked(calls[c])'
  <2>1. calls[c] \in Call /\ calls[c].person \in Person
    BY <1>1 DEF SessionTypeOK, Call
  <2>2. CallBacked(calls[c])  BY <1>1 DEF CallsBacked
  <2>3. sessions \subseteq sessions' /\ audit[calls[c].person] \subseteq audit'[calls[c].person]
    BY <2>1, SessionsGrow, AuditGrows
  <2> QED  BY <1>1, <2>2, <2>3 DEF CallBacked
<1>2. CASE calls'[c] = calls[c]
  BY <1>1, <1>2
<1>3. ASSUME NEW stage, Going(c, stage), calls[c] # NoCall,
             stage # "membership" \/ calls[c].op = "register"
      PROVE  CallBacked(calls[c])'
  <2>1. calls[c] \in Call  BY <1>3 DEF SessionTypeOK
  <2>2. calls'[c] = [calls[c] EXCEPT !.stage = stage]
    BY <1>3 DEF Going, SessionTypeOK
  <2>3. /\ calls'[c].op = calls[c].op /\ calls'[c].person = calls[c].person
        /\ calls'[c].stage = stage
        /\ calls[c].op = "logout" => calls'[c].token = calls[c].token
    BY <2>1, <2>2 DEF Call
  <2> QED  BY <1>1, <1>3, <2>3
<1>4. CASE Ending(c)
  BY <1>4 DEF Ending, SessionTypeOK
<1>5. ASSUME NEW p \in Person, BeginRegistration(c, p) \/ BeginLogin(c, p)
      PROVE  CallBacked(calls[c])'
  BY <1>5 DEF BeginRegistration, BeginLogin, CallBacked, SessionTypeOK
<1>6. ASSUME NEW token \in sessions, Verify(c, token)
      PROVE  CallBacked(calls[c])'
  BY <1>6 DEF Verify, CallBacked, SessionTypeOK
<1>7. CASE RecordLoginSuccess(c)
  <2>1. calls[c] \in Call /\ calls[c].person \in Person /\ calls[c].op = "login"
    BY <1>7, AtCall DEF RecordLoginSuccess
  <2>2. "REVIEWER_LOGIN_SUCCEEDED" \in audit'[calls[c].person]
    BY <1>7, <2>1, RecordedTyped DEF RecordLoginSuccess, AuditAction
  <2>3. calls'[c].person = calls[c].person /\ calls'[c].op = "login"
    BY <1>7, <2>1 DEF RecordLoginSuccess, Going, SessionTypeOK, Call
  <2> QED  BY <2>2, <2>3 DEF CallBacked
<1>8. CASE InsertReviewer(c) \/ GiveMembership(c) \/ RecordRegistration(c)
  BY <1>8, <1>3, <1>4 DEF InsertReviewer, GiveMembership, RecordRegistration, At
<1>9. CASE FindByEmail(c) \/ RecordLoginFailure(c) \/ FindMembership(c)
  BY <1>9, <1>3, <1>4 DEF FindByEmail, RecordLoginFailure, FindMembership, At
<1>10. CASE CheckRevocation(c) \/ RevokeAllSessions(c) \/ RecordLogout(c) \/ CallFails(c)
  BY <1>10, <1>3, <1>4 DEF CheckRevocation, RevokeAllSessions, RecordLogout, CallFails, At
<1> QED  BY <1>2, <1>5, <1>6, <1>7, <1>8, <1>9, <1>10, OthersStay DEF Moves

-----------------------------------------------------------------------------
(* Who is locked out, and who is let in. *)

\* Who was cut off once stays on that list.
LEMMA CutOffGrows ==
  ASSUME [SessionNext]_sessionVars
  PROVE  cutOff \subseteq cutOff'
BY DEF SessionNext, sessionVars, Tick, BeginRegistration, BeginLogin, Verify,
  InsertReviewer, GiveMembership, RecordRegistration, FindByEmail, RecordLoginFailure,
  RecordLoginSuccess, FindMembership, CheckRevocation, RevokeAllSessions, RecordLogout,
  CallFails

\* Every step leaves a person who was only inserted with the reason for it.
LEMMA HalfRegisteredStays ==
  ASSUME SessionTypeOK, [SessionNext]_sessionVars, NEW p \in Person, HalfRegistered(p)
  PROVE  HalfRegistered(p)'
<1> SUFFICES ASSUME accounts'[p] = "created"
             PROVE  \/ p \in cutOff'
                    \/ \E c \in SessionCall :
                         At(c, "register", "membership")' /\ calls'[c].person = p
  BY DEF HalfRegistered
<1>1. CASE accounts[p] # "created"
  <2>1. PICK c \in SessionCall : InsertReviewer(c) /\ calls[c].person = p
                                   /\ Going(c, "membership")
    <3>1. ASSUME ~ \E c \in SessionCall : InsertReviewer(c) \/ GiveMembership(c)
          PROVE  accounts' = accounts
      BY <3>1 DEF SessionNext, sessionVars, Tick, BeginRegistration, BeginLogin, Verify,
        RecordRegistration, FindByEmail, RecordLoginFailure, RecordLoginSuccess,
        FindMembership, CheckRevocation, RevokeAllSessions, RecordLogout, CallFails
    <3>2. PICK c \in SessionCall : InsertReviewer(c) \/ GiveMembership(c)
      BY <1>1, <3>1
    <3>3. ~ GiveMembership(c)
      BY <1>1 DEF GiveMembership, SessionTypeOK
    <3> QED  BY <1>1, <3>2, <3>3 DEF InsertReviewer, SessionTypeOK
  <2>2. calls[c] \in Call /\ calls[c].op = "register" /\ calls[c] # NoCall
    BY <2>1, AtCall DEF InsertReviewer, At
  <2>3. calls'[c].person = p /\ calls'[c].op = "register" /\ calls'[c].stage = "membership"
    BY <2>1, <2>2 DEF Going, SessionTypeOK, Call
  <2>4. calls'[c] # NoCall
    <3>1. calls'[c] \in Call
      BY <2>1, <2>2 DEF Going, SessionTypeOK, Call
    <3> QED  BY <3>1, NoCallAssumption DEF Call, Token
  <2> QED  BY <2>3, <2>4 DEF At
<1>2. CASE p \in cutOff
  BY <1>2, CutOffGrows
<1>3. ASSUME NEW c \in SessionCall, At(c, "register", "membership"), calls[c].person = p
      PROVE  \/ p \in cutOff'
             \/ At(c, "register", "membership")' /\ calls'[c].person = p
  <2>1. calls[c] # NoCall /\ calls[c].op = "register" /\ calls[c].stage = "membership"
    BY <1>3 DEF At
  <2>2. CASE calls'[c] = calls[c]
    BY <1>3, <2>2 DEF At
  <2>3. CASE GiveMembership(c)
    BY <1>3, <2>3 DEF GiveMembership, SessionTypeOK
  <2>4. CASE CallFails(c)
    <3>1. cutOff' = cutOff \cup {calls[c].person}
      BY <1>3, <2>4 DEF CallFails
    <3> QED  BY <1>3, <3>1
  <2> QED  BY <2>1, <2>2, <2>3, <2>4, OthersStay DEF Moves, At, BeginRegistration,
    BeginLogin, Verify, InsertReviewer, RecordRegistration, FindByEmail,
    RecordLoginFailure, RecordLoginSuccess, FindMembership, CheckRevocation,
    RevokeAllSessions, RecordLogout
<1> QED  BY <1>1, <1>2, <1>3 DEF HalfRegistered

\* A member stays a member.
LEMMA MembersStay ==
  ASSUME SessionTypeOK, [SessionNext]_sessionVars, NEW p \in Person, accounts[p] = "member"
  PROVE  accounts'[p] = "member"
<1>1. ASSUME NEW c \in SessionCall, InsertReviewer(c)
      PROVE  accounts'[p] = "member"
  BY <1>1 DEF InsertReviewer, SessionTypeOK
<1>2. ASSUME NEW c \in SessionCall, GiveMembership(c)
      PROVE  accounts'[p] = "member"
  BY <1>2 DEF GiveMembership, SessionTypeOK
<1>3. ASSUME ~ \E c \in SessionCall : InsertReviewer(c) \/ GiveMembership(c)
      PROVE  accounts' = accounts
  BY <1>3 DEF SessionNext, sessionVars, Tick, BeginRegistration, BeginLogin, Verify,
    RecordRegistration, FindByEmail, RecordLoginFailure, RecordLoginSuccess,
    FindMembership, CheckRevocation, RevokeAllSessions, RecordLogout, CallFails
<1> QED  BY <1>1, <1>2, <1>3

\* Every step leaves each session with a member whose sign-in is on record.
LEMMA SessionsStayEarned ==
  ASSUME SessionTypeOK, CallsBacked, [SessionNext]_sessionVars, NEW p \in Person,
         SessionsEarned(p)
  PROVE  SessionsEarned(p)'
<1> SUFFICES ASSUME NEW s \in sessions', s.person = p
             PROVE  accounts'[p] = "member" /\ "REVIEWER_LOGIN_SUCCEEDED" \in audit'[p]
  BY DEF SessionsEarned
<1>1. SUFFICES accounts[p] = "member" /\ "REVIEWER_LOGIN_SUCCEEDED" \in audit[p]
  BY MembersStay, AuditGrows
<1>2. CASE s \in sessions
  BY <1>2 DEF SessionsEarned
<1>3. ASSUME NEW c \in SessionCall, FindMembership(c), s = Issue(calls[c].person),
             accounts[calls[c].person] = "member"
      PROVE  accounts[p] = "member" /\ "REVIEWER_LOGIN_SUCCEEDED" \in audit[p]
  <2>1. At(c, "login", "membership")  BY <1>3 DEF FindMembership
  <2>2. calls[c].person = p  BY <1>3, <2>1, AtCall, IssueTyped
  <2>3. "REVIEWER_LOGIN_SUCCEEDED" \in audit[calls[c].person]
    BY <2>1, AtCall DEF CallsBacked, CallBacked, At
  <2> QED  BY <1>3, <2>2, <2>3
<1> QED  BY <1>2, <1>3, SessionsGrow

\* Only who has signed in is signed out.
LEMMA RevocationStaysEarned ==
  ASSUME SessionTypeOK, CallsBacked, [SessionNext]_sessionVars, NEW p \in Person,
         \A q \in Person : SessionsEarned(q), RevocationEarned(p)
  PROVE  RevocationEarned(p)'
<1>1. SUFFICES ASSUME revokedAt'[p] # Never
               PROVE  "REVIEWER_LOGIN_SUCCEEDED" \in audit[p]
  BY AuditGrows DEF RevocationEarned
<1>2. CASE revokedAt'[p] = revokedAt[p]
  BY <1>1, <1>2 DEF RevocationEarned
<1>3. ASSUME NEW c \in SessionCall, RevokeAllSessions(c), calls[c].person = p
      PROVE  "REVIEWER_LOGIN_SUCCEEDED" \in audit[p]
  <2>1. calls[c].token \in sessions /\ calls[c].token.person = p
    BY <1>3, AtCall DEF RevokeAllSessions, CallsBacked, CallBacked, At
  <2> QED  BY <2>1 DEF SessionsEarned
<1>4. ASSUME NEW c \in SessionCall, RevokeAllSessions(c), calls[c].person # p
      PROVE  revokedAt'[p] = revokedAt[p]
  BY <1>4 DEF RevokeAllSessions, SessionTypeOK
<1>5. ASSUME ~ \E c \in SessionCall : RevokeAllSessions(c)
      PROVE  revokedAt' = revokedAt
  BY <1>5 DEF SessionNext, sessionVars, Tick, BeginRegistration, BeginLogin, Verify,
    InsertReviewer, GiveMembership, RecordRegistration, FindByEmail, RecordLoginFailure,
    RecordLoginSuccess, FindMembership, CheckRevocation, RecordLogout, CallFails
<1> QED  BY <1>2, <1>3, <1>4, <1>5

-----------------------------------------------------------------------------
(* The theorems. *)

\* The conjuncts are the property.
LEMMA LockoutParts ==
  LockoutExplained <=>
    \A p \in Person : HalfRegistered(p) /\ SessionsEarned(p) /\ RevocationEarned(p)
BY DEF LockoutExplained, HalfRegistered, SessionsEarned, RevocationEarned

\* The invariant holds at the start.
LEMMA SessionInitially ==
  ASSUME SessionInit
  PROVE  SessionInv
<1>1. SessionTypeOK
  BY SessionAssumption DEF SessionInit, SessionTypeOK, Never, Token
<1>2. TokensHonest /\ CallsBacked
  BY DEF SessionInit, TokensHonest, CallsBacked
<1>3. LockoutExplained
  BY DEF SessionInit, LockoutExplained
<1> QED  BY <1>1, <1>2, <1>3 DEF SessionInv

\* Every step keeps the invariant.
LEMMA SessionInductive ==
  ASSUME SessionInv, [SessionNext]_sessionVars
  PROVE  SessionInv'
<1>1. SessionTypeOK' /\ TokensHonest' /\ CallsBacked'
  BY TypesKept, TokensStayHonest, CallsStayBacked DEF SessionInv
<1>2. \A p \in Person : HalfRegistered(p) /\ SessionsEarned(p) /\ RevocationEarned(p)
  BY LockoutParts DEF SessionInv
<1>3. \A p \in Person : HalfRegistered(p)' /\ SessionsEarned(p)' /\ RevocationEarned(p)'
  BY <1>2, HalfRegisteredStays, SessionsStayEarned, RevocationStaysEarned DEF SessionInv
<1>4. LockoutExplained'
  BY <1>3 DEF LockoutExplained, HalfRegistered, SessionsEarned, RevocationEarned
<1> QED  BY <1>1, <1>4 DEF SessionInv

\* Types: accounts, tokens, revocations and the requests in progress of the API
\* (auth.rs, reviewer.rs) are always of the form the model gives them.
THEOREM SessionTypes == SessionSpec => []SessionTypeOK
<1>1. SessionInv => SessionTypeOK  BY DEF SessionInv
<1> QED  BY <1>1, SessionInitially, SessionInductive, PTL DEF SessionSpec

\* A reviewer whom google_login finds without a membership is being registered or was cut
\* off between the commits of register; whoever holds a token or was
\* logged out once is a member and signed in on the record.
THEOREM LockoutTheorem == SessionSpec => []LockoutExplained
<1>1. SessionInv => LockoutExplained  BY DEF SessionInv
<1> QED  BY <1>1, SessionInitially, SessionInductive, PTL DEF SessionSpec

\* is_session_revoked accepts only tokens that were issued no earlier than the last
\* logout of their reviewer, although it compares with the second of the issue.
THEOREM LogoutTheorem == SessionSpec => LogoutEndsSessions
<1> DEFINE Refused == \A c \in SessionCall :
       At(c, "logout", "verified") /\ At(c, "logout", "accepted")' =>
         revokedAt[calls[c].person] <= calls[c].token.at
<1>1. ASSUME SessionInv, [SessionNext]_sessionVars
      PROVE  Refused
  <2> SUFFICES ASSUME NEW c \in SessionCall,
                      At(c, "logout", "verified"), At(c, "logout", "accepted")'
               PROVE  revokedAt[calls[c].person] <= calls[c].token.at
    OBVIOUS
  <2>1. SessionTypeOK /\ TokensHonest /\ CallsBacked  BY <1>1 DEF SessionInv
  <2>2. CheckRevocation(c) /\ ~ Ending(c)
    <3>1. calls'[c] # NoCall /\ calls'[c] # calls[c] /\ calls[c] # NoCall
      BY DEF At
    <3>2. ~ Ending(c)  BY <2>1, <3>1 DEF Ending, SessionTypeOK
    <3>3. Moves(c)  BY <1>1, <2>1, <3>1, OthersStay
    <3> QED  BY <3>1, <3>2, <3>3 DEF Moves, At, BeginRegistration, BeginLogin, Verify,
      InsertReviewer, GiveMembership, RecordRegistration, FindByEmail, RecordLoginFailure,
      RecordLoginSuccess, FindMembership, RevokeAllSessions, RecordLogout, CallFails
  <2> DEFINE token == calls[c].token
             last == revokedAt[calls[c].person]
  <2>3. token \in sessions /\ calls[c].person \in Person
    BY <2>1, AtCall DEF CallsBacked, CallBacked, At
  <2>4. token.expires = Seconds(token.at) + SessionTTL /\ token.at \in Nat
    BY <2>1, <2>3 DEF TokensHonest, SessionTypeOK, Token
  <2>5. /\ Seconds(token.at) \in Nat
        /\ Seconds(token.at) * TicksPerSecond <= token.at
    BY <2>4, SecondBegins
  <2>6. SessionTTL \in Nat /\ TicksPerSecond \in Nat  BY SessionAssumption
  <2>7. IssuedAt(token) = Seconds(token.at)
    BY <2>4, <2>5, <2>6 DEF IssuedAt
  <2>8. last \in Int /\ (last = Never \/ last \in Nat)
    BY <2>1, <2>3 DEF SessionTypeOK, Never
  <2>9. last = Never \/ ~ (last > Seconds(token.at) * TicksPerSecond)
    BY <2>2, <2>7 DEF CheckRevocation, IsSessionRevoked
  <2>10. CASE last = Never
    BY <2>4, <2>10 DEF Never
  <2>11. Seconds(token.at) * TicksPerSecond \in Int
    BY <2>5, <2>6
  <2> QED
    <3> HIDE DEF token, last
    <3>1. CASE last = Never  BY <2>10, <3>1 DEF token, last
    <3>2. CASE last <= Seconds(token.at) * TicksPerSecond
      BY <2>4, <2>5, <2>8, <2>11, <3>2, SMT DEF token, last
    <3> QED  BY <2>8, <2>9, <2>11, <3>1, <3>2
<1> QED  BY <1>1, SessionInitially, SessionInductive, PTL
      DEF SessionSpec, LogoutEndsSessions

-----------------------------------------------------------------------------
(* Memberships and rights: the inductive invariant. *)

\* A registration: what may be granted was decided, and once its reviewer is inserted nobody
\* else gives that reviewer a membership.
GrantOK(j) ==
  /\ ValidShape(j.ask.grant)
  /\ j.actor # Automated => MayGrant(j.member, FALSE, j.ask.grant)
  /\ j.stage # "member" /\ j.ask.grant.organization # NoOrganization =>
       IsThere(j.ask.grant.organization)
  /\ j.stage = "inserted" =>
       j.ask.person \in reviewers /\ members[j.ask.person] = NoMembership

\* Who asks: nobody who is signed in, for the first membership of all, or a reviewer whose
\* membership is still the one that was read.
ActorOK(j) ==
  IF j.actor = Automated
    THEN j.ask.op = "register" /\ j.ask.grant = PlatformAdmin
    ELSE j.member # NoMembership /\ members[j.actor] = j.member

JobOK(q) ==
  requests[q] # NoJob =>
    /\ requests[q].stage = "allowed" => held[q]
    /\ ActorOK(requests[q])
    /\ requests[q].ask.op = "register" => GrantOK(requests[q])
    /\ requests[q].ask.op = "create" /\ requests[q].stage = "inserted" =>
         IsThere(requests[q].ask.organization)

\* A registration that has inserted its reviewer.
Inserted(q) ==
  requests[q] # NoJob /\ requests[q].ask.op = "register" /\ requests[q].stage = "inserted"

\* Two registrations never inserted the same reviewer.
SoleInsert ==
  \A p, q \in AccessRequest :
    p # q /\ Inserted(p) /\ Inserted(q) => requests[p].ask.person # requests[q].ask.person

MembersOK ==
  \A r \in Reviewer : members[r] # NoMembership => r \in reviewers /\ ValidShape(members[r])

TrustInv ==
  /\ TrustTypeOK
  /\ MembersOK
  /\ SoleInsert
  /\ \A q \in AccessRequest : JobOK(q)

-----------------------------------------------------------------------------
(* What requests are made of. *)

\* What a registration asks for: a person and a membership.
LEMMA RegisterShape ==
  ASSUME NEW ask \in Operation, ask.op = "register"
  PROVE  /\ ask \in [op : {"register"}, person : Reviewer, grant : Membership]
         /\ ask.person \in Reviewer /\ ask.grant \in Membership
         /\ ask.grant.organization \in Organization \cup {NoOrganization}
BY DEF Operation, Membership, Owner

\* The operations about an organization name one, and a change of its trust a list of grants.
LEMMA OrganizationShape ==
  ASSUME NEW ask \in Operation,
         ask.op \in {"create", "activate", "deactivate", "manage", "view", "profile", "trust"}
  PROVE  ask.organization \in Organization /\ (ask.op = "trust" => ask.trusts \in TrustList)
BY DEF Operation

\* What verifying, issuing and cancelling are about.
LEMMA ClaimShape ==
  ASSUME NEW ask \in Operation
  PROVE  /\ ask.op = "verify" => ask.incident \in IncidentType
         /\ ask.op = "issue" => ask.visibility \in Visibility
         /\ ask.op = "cancel" => ask.alert \in AlertOf
BY DEF Operation

\* A request under way is a well-formed record.
LEMMA JobShape ==
  ASSUME TrustTypeOK, NEW q \in AccessRequest, requests[q] # NoJob
  PROVE  /\ requests[q] \in AccessRecord
         /\ requests[q].ask \in Operation
         /\ requests[q].actor \in Reviewer \cup {Automated}
         /\ requests[q].member \in MemberRow
BY DEF TrustTypeOK, AccessRecord

\* A request that goes on or ends keeps the types.
LEMMA AdvanceType ==
  ASSUME TrustTypeOK, NEW q \in AccessRequest, requests[q] # NoJob,
         NEW stage \in {"member", "allowed", "inserted"}, Advance(q, stage)
  PROVE  /\ requests' \in [AccessRequest -> AccessRecord \cup {NoJob}]
         /\ requests'[q] = [requests[q] EXCEPT !.stage = stage]
         /\ \A p \in AccessRequest : p # q => requests'[p] = requests[p]
<1>1. requests[q] \in AccessRecord
  BY JobShape
<1>2. [requests[q] EXCEPT !.stage = stage] \in AccessRecord
  BY <1>1 DEF AccessRecord
<1>3. requests' = [requests EXCEPT ![q] = [requests[q] EXCEPT !.stage = stage]]
  BY DEF Advance
<1> QED
  BY <1>2, <1>3 DEF TrustTypeOK

\* A request that ends leaves its slot free and the others alone.
LEMMA EndType ==
  ASSUME TrustTypeOK, NEW q \in AccessRequest, End(q)
  PROVE  /\ requests' \in [AccessRequest -> AccessRecord \cup {NoJob}]
         /\ requests'[q] = NoJob
         /\ \A p \in AccessRequest : p # q => requests'[p] = requests[p]
BY DEF End, TrustTypeOK

\* The history of rights held stays a predicate on requests.
LEMMA WitnessType ==
  ASSUME Witness
  PROVE  held' \in [AccessRequest -> BOOLEAN]
BY DEF Witness

-----------------------------------------------------------------------------
(* A step of one request, as the others see it. *)

\* What no step does: drop an organization or a reviewer, or change a membership.
Growing ==
  /\ \A o \in Organization : IsThere(o) => IsThere(o)'
  /\ reviewers \subseteq reviewers'
  /\ \A r \in Reviewer : members[r] # NoMembership => members'[r] = members[r]

\* A request that does not move stays in order: nothing it relies on is taken back.
LEMMA OtherJob ==
  ASSUME TrustInv, NEW p \in AccessRequest, requests'[p] = requests[p], Growing, Witness,
         Inserted(p) => members'[requests[p].ask.person] = members[requests[p].ask.person]
  PROVE  JobOK(p)'
<1>1. SUFFICES ASSUME requests[p] # NoJob PROVE JobOK(p)'
  BY DEF JobOK
<1> PICK j \in AccessRecord : j = requests[p]
  BY <1>1, JobShape DEF TrustInv
<1>2. j.ask \in Operation /\ j.actor \in Reviewer \cup {Automated}
  BY DEF AccessRecord
<1>3. JobOK(p)
  BY DEF TrustInv
<1>4. j.stage = "allowed" => held'[p]
  BY <1>1, <1>3 DEF JobOK, Witness
<1>5. ActorOK(j)'
  BY <1>1, <1>2, <1>3 DEF JobOK, ActorOK, Growing
<1>6. ASSUME j.ask.op = "register" PROVE GrantOK(j)'
  <2>1. GrantOK(j)
    BY <1>1, <1>3, <1>6 DEF JobOK
  <2>2. j.ask.person \in Reviewer
        /\ j.ask.grant.organization \in Organization \cup {NoOrganization}
    BY <1>2, <1>6, RegisterShape
  <2>3. j.stage = "inserted" => members'[j.ask.person] = members[j.ask.person]
    BY <1>1, <1>6 DEF Inserted
  <2> QED
    BY <2>1, <2>2, <2>3 DEF GrantOK, Growing
<1>7. ASSUME j.ask.op = "create", j.stage = "inserted" PROVE IsThere(j.ask.organization)'
  BY <1>1, <1>2, <1>3, <1>7, OrganizationShape DEF JobOK, Growing
<1> QED
  BY <1>4, <1>5, <1>6, <1>7 DEF JobOK

\* To see that a step keeps the invariant it is enough to look at the request that took it.
LEMMA StepInv ==
  ASSUME TrustInv, NEW q \in AccessRequest, Growing, Witness,
         TrustTypeOK', MembersOK', JobOK(q)', SoleInsert',
         \A p \in AccessRequest : p # q => requests'[p] = requests[p],
         \A p \in AccessRequest : p # q /\ Inserted(p) =>
            members'[requests[p].ask.person] = members[requests[p].ask.person]
  PROVE  TrustInv'
<1>1. ASSUME NEW p \in AccessRequest, p # q PROVE JobOK(p)'
  BY <1>1, OtherJob
<1> QED
  BY <1>1 DEF TrustInv

\* The same for a step after which the request is no registration in its middle, and which
\* changes no membership.
LEMMA QuietStepInv ==
  ASSUME TrustInv, NEW q \in AccessRequest, Witness, UNCHANGED <<reviewers, members>>,
         \A o \in Organization : IsThere(o) => IsThere(o)',
         organizations' \in [Organization -> OrganizationRow \cup {NoOrganization}],
         issued' \in SUBSET AlertOf,
         requests' \in [AccessRequest -> AccessRecord \cup {NoJob}],
         \A p \in AccessRequest : p # q => requests'[p] = requests[p],
         ~Inserted(q)', JobOK(q)'
  PROVE  TrustInv'
<1>1. TrustTypeOK'
  BY WitnessType DEF TrustInv, TrustTypeOK
<1>2. MembersOK'
  BY DEF TrustInv, MembersOK, ValidShape
<1>3. SoleInsert'
  BY DEF TrustInv, SoleInsert, Inserted
<1>4. Growing
  BY DEF Growing
<1> QED
  BY <1>1, <1>2, <1>3, <1>4, StepInv

\* A request that ends leaves nothing to look at.
LEMMA EndInv ==
  ASSUME TrustInv, NEW q \in AccessRequest, Witness, End(q), UNCHANGED <<reviewers, members>>,
         \A o \in Organization : IsThere(o) => IsThere(o)',
         organizations' \in [Organization -> OrganizationRow \cup {NoOrganization}],
         issued' \in SUBSET AlertOf
  PROVE  TrustInv'
<1>1. TrustTypeOK
  BY DEF TrustInv
<1>2. requests'[q] = NoJob
  BY <1>1, EndType
<1>3. ~Inserted(q)' /\ JobOK(q)'
  BY <1>2 DEF Inserted, JobOK
<1> QED
  BY <1>1, <1>3, EndType, QuietStepInv

-----------------------------------------------------------------------------
(* One lemma per action. *)

\* The empty directory satisfies the invariant.
LEMMA TrustInitInv ==
  ASSUME TrustInit
  PROVE  TrustInv
<1>1. TrustTypeOK
  BY DEF TrustInit, TrustTypeOK, MemberRow
<1>2. MembersOK /\ SoleInsert /\ \A q \in AccessRequest : JobOK(q)
  BY DEF TrustInit, MembersOK, SoleInsert, Inserted, JobOK
<1> QED
  BY <1>1, <1>2 DEF TrustInv

\* A request that begins has read the membership its actor has, and the bootstrap request asks
\* for a platform administrator.
LEMMA BeginInv ==
  ASSUME TrustAssumption, TrustInv, NEW q \in AccessRequest,
         NEW a \in Reviewer \cup {Automated}, NEW ask \in Operation, BeginRequest(q, a, ask)
  PROVE  TrustInv'
<1> DEFINE first == ask.op = "register" /\ reviewers = {}
           request == IF first THEN [ask EXCEPT !.grant = PlatformAdmin] ELSE ask
           m     == IF a = Automated THEN NoMembership ELSE members[a]
           stage == IF NeedsOrganization(request) THEN "member" ELSE "allowed"
           j     == [ask |-> request, actor |-> a, member |-> m, stage |-> stage]
<1>1. TrustTypeOK /\ MembersOK
  BY DEF TrustInv
<1>2. request \in Operation /\ request.op = ask.op
  <2>1. CASE first
    <3>1. ask \in [op : {"register"}, person : Reviewer, grant : Membership]
      BY <2>1, RegisterShape
    <3>2. PlatformAdmin \in Membership
      BY DEF PlatformAdmin, Membership, Role, Owner
    <3>3. [ask EXCEPT !.grant = PlatformAdmin]
             \in [op : {"register"}, person : Reviewer, grant : Membership]
      BY <3>1, <3>2
    <3>4. [ask EXCEPT !.grant = PlatformAdmin] \in Operation
      BY <3>3 DEF Operation
    <3> QED
      BY <2>1, <3>1, <3>4
  <2>2. CASE ~first
    BY <2>2
  <2> QED
    BY <2>1, <2>2
<1>3. m \in MemberRow
  BY <1>1 DEF TrustTypeOK, MemberRow
<1>4. PICK k \in AccessRecord : k = j
  <2>1. stage \in {"member", "allowed", "inserted"}
    OBVIOUS
  <2>2. j \in AccessRecord
    <3> HIDE DEF stage, request, m
    <3> QED
      BY <1>2, <1>3, <2>1 DEF AccessRecord
  <2> QED
    BY <2>2
<1>k. k.ask = request /\ k.actor = a /\ k.member = m /\ k.stage = stage
  BY <1>4
<1>5. requests' = [requests EXCEPT ![q] = k]
      /\ UNCHANGED <<reviewers, members, organizations, issued>> /\ Witness
  BY <1>4 DEF BeginRequest
<1>6. /\ IF a = Automated THEN ask.op = "register" ELSE m # NoMembership
      /\ request.op = "register" => ValidShape(request.grant)
      /\ RoleAllows(request, m, first)
  BY DEF BeginRequest
<1>7. /\ requests' \in [AccessRequest -> AccessRecord \cup {NoJob}]
      /\ requests'[q] = k
      /\ \A p \in AccessRequest : p # q => requests'[p] = requests[p]
  BY <1>1, <1>4, <1>5 DEF TrustTypeOK
<1>8. stage # "inserted" /\ (stage = "allowed" => ~NeedsOrganization(request))
  OBVIOUS
<1>9. ~Inserted(q)'
  BY <1>7, <1>8, <1>k DEF Inserted
<1>10. a # Automated => ~first
  BY <1>1, <1>6 DEF MembersOK
<1>11. a = Automated => request.op = "register" /\ request.grant = PlatformAdmin
  <2>1. SUFFICES ASSUME a = Automated PROVE request.op = "register" /\ first
    <3>1. first => ask \in [op : {"register"}, person : Reviewer, grant : Membership]
      BY RegisterShape
    <3> QED
      BY <2>1, <3>1
  <2>2. request.op = "register"
    BY <1>2, <1>6, <2>1
  <2>3. MayGrant(NoMembership, first, request.grant)
    BY <1>6, <2>1, <2>2 DEF RoleAllows
  <2> QED
    BY <2>2, <2>3 DEF MayGrant, IsAdmin
<1>12. JobOK(q)'
  <2>1. ASSUME stage = "allowed", requests'[q] # NoJob PROVE held'[q]
    <3>1. request.op \notin {"verify", "issue", "cancel"}
      BY <1>8, <2>1 DEF NeedsOrganization
    <3>2. requests'[q].ask.op \notin {"verify", "issue", "cancel"}
      BY <1>7, <1>k, <3>1
    <3>3. Claim(requests[q])'
      BY <3>2 DEF Claim
    <3> QED
      BY <1>5, <2>1, <3>3 DEF Witness
  <2>2. ActorOK(k)'
    <3>1. CASE a = Automated
      BY <1>k, <1>11, <3>1 DEF ActorOK
    <3>2. CASE a # Automated
      BY <1>k, <1>5, <1>6, <3>2 DEF ActorOK
    <3> QED
      BY <3>1, <3>2
  <2>3. ASSUME request.op = "register" PROVE GrantOK(k)'
    <3>1. ValidShape(request.grant)
      BY <1>6, <2>3
    <3>2. a # Automated => MayGrant(m, FALSE, request.grant)
      BY <1>6, <1>10, <2>3 DEF RoleAllows
    <3>3. stage # "member" => request.grant.organization = NoOrganization
      BY <2>3 DEF NeedsOrganization
    <3> QED
      BY <3>1, <3>2, <3>3, <1>8, <1>k DEF GrantOK
  <2>4. stage # "inserted"
    BY <1>8
  <2> HIDE DEF j, stage, request, m
  <2> QED
    BY <2>4, <1>7, <1>k, <2>1, <2>2, <2>3 DEF JobOK
<1> QED
  BY <1>1, <1>5, <1>7, <1>9, <1>12, QuietStepInv DEF TrustTypeOK, IsThere

\* What Trusted and the others say of the membership that was read, they say of the one the
\* actor has: find_membership read it from the same row.
LEMMA ReadInv ==
  ASSUME TrustInv, NEW q \in AccessRequest, ReadOrganization(q)
  PROVE  TrustInv'
<1> PICK j \in AccessRecord : j = requests[q]
  BY JobShape DEF ReadOrganization, TrustInv
<1>1. TrustTypeOK /\ JobOK(q)
  BY DEF TrustInv
<1>2. /\ requests[q] # NoJob /\ j.stage = "member" /\ Witness
      /\ UNCHANGED <<reviewers, members, organizations, issued>>
  BY DEF ReadOrganization
<1>3. PICK subscribed : /\ subscribed \in Subscribed(j.member)
        /\ IF /\ OrganizationAllows(j, subscribed)
              /\ j.ask.op \notin {"view", "profile", "manage"}
             THEN Advance(q, "allowed") ELSE End(q)
  BY DEF ReadOrganization
<1>4. CASE End(q)
  BY <1>1, <1>2, <1>4, EndInv DEF TrustTypeOK, IsThere
<1>5. CASE OrganizationAllows(j, subscribed) /\ Advance(q, "allowed")
  <2>1. /\ requests' \in [AccessRequest -> AccessRecord \cup {NoJob}]
        /\ requests'[q] = [j EXCEPT !.stage = "allowed"]
        /\ \A p \in AccessRequest : p # q => requests'[p] = requests[p]
    BY <1>1, <1>2, <1>5, AdvanceType
  <2> PICK k \in AccessRecord : k = [j EXCEPT !.stage = "allowed"]
    BY DEF AccessRecord
  <2>2. requests'[q] = k /\ k.ask = j.ask /\ k.actor = j.actor /\ k.member = j.member
        /\ k.stage = "allowed"
    BY <2>1 DEF AccessRecord
  <2>3. ActorOK(j) /\ (j.ask.op = "register" => GrantOK(j))
    BY <1>1, <1>2 DEF JobOK
  <2>4. ASSUME requests'[q] # NoJob PROVE held'[q]
    <3>1. Claim(k)'
      <4>1. j.ask.op \in {"verify", "issue", "cancel"} => members[j.actor] = j.member
        BY <2>3 DEF ActorOK
      <4>2. CASE j.ask.op = "verify"
        BY <1>2, <1>5, <2>2, <4>1, <4>2
        DEF Claim, OrganizationAllows, VerificationAllowed, Trusted, IsActive, IsThere
      <4>3. CASE j.ask.op = "issue"
        BY <1>2, <1>5, <2>2, <4>1, <4>3
        DEF Claim, OrganizationAllows, IssuanceAllowed, Trusted, IsActive, IsThere
      <4>4. CASE j.ask.op = "cancel"
        BY <1>2, <1>5, <2>2, <4>1, <4>4
        DEF Claim, OrganizationAllows, CancellationAllowed, Trusted, IsActive, IsThere
      <4>5. CASE j.ask.op \notin {"verify", "issue", "cancel"}
        BY <2>2, <4>5 DEF Claim
      <4> QED
        BY <4>2, <4>3, <4>4, <4>5
    <3>2. Claim(requests[q])'
      BY <2>2, <3>1 DEF Claim
    <3> QED
      BY <1>2, <2>4, <3>2 DEF Witness
  <2>5. ActorOK(k)'
    BY <1>2, <2>2, <2>3 DEF ActorOK
  <2>6. ASSUME k.ask.op = "register" PROVE GrantOK(k)'
    <3>1. IsThere(j.ask.grant.organization)
      BY <1>5, <2>2, <2>6 DEF OrganizationAllows, IsActive
    <3> QED
      BY <1>2, <2>2, <2>3, <2>6, <3>1 DEF GrantOK, IsThere, ValidShape, MayGrant
  <2>7. JobOK(q)' /\ ~Inserted(q)'
    BY <2>2, <2>4, <2>5, <2>6 DEF JobOK, Inserted
  <2> QED
    BY <1>1, <1>2, <2>1, <2>7, QuietStepInv DEF TrustTypeOK, IsThere
<1> QED
  BY <1>3, <1>4, <1>5

\* The reviewer who is inserted was not there, so nobody else has inserted that reviewer
\* and no membership has been given.
LEMMA CreateReviewerInv ==
  ASSUME TrustInv, NEW q \in AccessRequest, CreateReviewer(q)
  PROVE  TrustInv'
<1> PICK j \in AccessRecord : j = requests[q]
  BY JobShape DEF CreateReviewer, Allowed, TrustInv
<1>1. TrustTypeOK /\ MembersOK /\ SoleInsert /\ JobOK(q)
  BY DEF TrustInv
<1>2. /\ requests[q] # NoJob /\ j.stage = "allowed" /\ j.ask.op = "register" /\ Witness
      /\ UNCHANGED <<members, organizations, issued>>
  BY DEF CreateReviewer, Allowed
<1>3. j.ask \in Operation /\ j.ask.person \in Reviewer
  BY <1>2, RegisterShape DEF AccessRecord
<1>4. CASE j.ask.person \in reviewers
  BY <1>1, <1>4, EndInv DEF CreateReviewer, TrustTypeOK, IsThere
<1>5. CASE j.ask.person \notin reviewers
  <2>1. reviewers' = reviewers \cup {j.ask.person} /\ Advance(q, "inserted")
    BY <1>5 DEF CreateReviewer
  <2>2. /\ requests' \in [AccessRequest -> AccessRecord \cup {NoJob}]
        /\ requests'[q] = [j EXCEPT !.stage = "inserted"]
        /\ \A p \in AccessRequest : p # q => requests'[p] = requests[p]
    BY <1>1, <1>2, <2>1, AdvanceType
  <2>3. requests'[q].ask = j.ask /\ requests'[q].actor = j.actor
        /\ requests'[q].member = j.member /\ requests'[q].stage = "inserted"
    BY <2>2 DEF AccessRecord
  <2>4. members[j.ask.person] = NoMembership
    BY <1>1, <1>3, <1>5 DEF MembersOK
  <2>5. ActorOK(j) /\ GrantOK(j)
    BY <1>1, <1>2 DEF JobOK
  <2>6. ActorOK(requests[q])'
    BY <1>2, <2>3, <2>5 DEF ActorOK
  <2>7. GrantOK(requests[q])'
    BY <1>2, <2>1, <2>3, <2>4, <2>5 DEF GrantOK, IsThere
  <2>8. JobOK(q)'
    BY <1>2, <2>3, <2>6, <2>7 DEF JobOK
  <2>9. ASSUME NEW p \in AccessRequest, p # q, Inserted(p)
        PROVE  requests[p].ask.person \in reviewers
    <3>1. JobOK(p)
      BY DEF TrustInv
    <3> QED
      BY <2>9, <3>1 DEF Inserted, JobOK, GrantOK
  <2>10. SoleInsert'
    <3>1. ASSUME NEW p \in AccessRequest, p # q, Inserted(p)'
          PROVE  requests'[p].ask.person # requests'[q].ask.person
      <4>1. Inserted(p) /\ requests'[p] = requests[p]
        BY <2>2, <3>1 DEF Inserted
      <4> QED
        BY <1>5, <2>3, <2>9, <3>1, <4>1
    <3>2. ASSUME NEW p \in AccessRequest, NEW r \in AccessRequest, p # q, r # q, p # r,
                 Inserted(p)', Inserted(r)'
          PROVE  requests'[p].ask.person # requests'[r].ask.person
      <4>1. Inserted(p) /\ requests'[p] = requests[p] /\ Inserted(r) /\ requests'[r] = requests[r]
        BY <2>2, <3>2 DEF Inserted
      <4> QED
        BY <1>1, <3>2, <4>1 DEF SoleInsert
    <3> QED
      BY <3>1, <3>2 DEF SoleInsert
  <2>11. TrustTypeOK' /\ MembersOK' /\ Growing
    BY <1>1, <1>2, <1>3, <2>1, <2>2, WitnessType
    DEF TrustTypeOK, MembersOK, Growing, IsThere, ValidShape
  <2> QED
    BY <1>2, <2>2, <2>8, <2>10, <2>11, StepInv
<1> QED
  BY <1>4, <1>5

\* The membership that is given is the first of its reviewer, and no other request is about to
\* give that reviewer one.
LEMMA AddMembershipInv ==
  ASSUME TrustInv, NEW q \in AccessRequest, AddMembership(q)
  PROVE  TrustInv'
<1> PICK j \in AccessRecord : j = requests[q]
  BY JobShape DEF AddMembership, TrustInv
<1>1. TrustTypeOK /\ MembersOK /\ SoleInsert /\ JobOK(q)
  BY DEF TrustInv
<1>2. /\ requests[q] # NoJob /\ j.stage = "inserted" /\ j.ask.op = "register" /\ Witness
      /\ End(q) /\ UNCHANGED <<reviewers, organizations, issued>>
      /\ members' = [members EXCEPT ![j.ask.person] = j.ask.grant]
  BY DEF AddMembership
<1>3. j.ask \in Operation /\ j.ask.person \in Reviewer /\ j.ask.grant \in Membership
  BY <1>2, RegisterShape DEF AccessRecord
<1>4. ValidShape(j.ask.grant) /\ j.ask.person \in reviewers
      /\ members[j.ask.person] = NoMembership
  BY <1>1, <1>2 DEF JobOK, GrantOK
<1>5. /\ requests' \in [AccessRequest -> AccessRecord \cup {NoJob}]
      /\ requests'[q] = NoJob
      /\ \A p \in AccessRequest : p # q => requests'[p] = requests[p]
  BY <1>1, <1>2, EndType
<1>6. members' \in [Reviewer -> MemberRow]
      /\ \A r \in Reviewer : r # j.ask.person => members'[r] = members[r]
      /\ members'[j.ask.person] = j.ask.grant
  BY <1>1, <1>2, <1>3 DEF TrustTypeOK, MemberRow
<1>7. TrustTypeOK'
  BY <1>1, <1>2, <1>5, <1>6, WitnessType DEF TrustTypeOK
<1>8. MembersOK'
  BY <1>1, <1>2, <1>4, <1>6 DEF MembersOK, ValidShape
<1>9. Growing
  BY <1>2, <1>4, <1>6 DEF Growing, IsThere
<1>10. ASSUME NEW p \in AccessRequest, p # q, Inserted(p)
       PROVE  members'[requests[p].ask.person] = members[requests[p].ask.person]
  <2>1. requests[p].ask.person # j.ask.person
    BY <1>1, <1>2, <1>10 DEF SoleInsert, Inserted
  <2>2. requests[p].ask.person \in Reviewer
    BY <1>1, <1>10, JobShape, RegisterShape DEF Inserted
  <2> QED
    BY <1>6, <2>1, <2>2
<1>11. JobOK(q)' /\ SoleInsert'
  BY <1>1, <1>5 DEF JobOK, SoleInsert, Inserted
<1> QED
  BY <1>2, <1>5, <1>7, <1>8, <1>9, <1>10, <1>11, StepInv

\* An organization that is created: it is there from now on.
LEMMA CreateOrganizationInv ==
  ASSUME TrustAssumption, TrustInv, NEW q \in AccessRequest, CreateOrganization(q)
  PROVE  TrustInv'
<1> PICK j \in AccessRecord : j = requests[q]
  BY JobShape DEF CreateOrganization, Allowed, TrustInv
<1> DEFINE row == [active |-> TRUE, trusts |-> {}, consumer |-> FALSE]
<1>1. TrustTypeOK /\ JobOK(q)
  BY DEF TrustInv
<1>2. /\ requests[q] # NoJob /\ j.stage = "allowed" /\ j.ask.op = "create" /\ Witness
      /\ organizations' = [organizations EXCEPT ![j.ask.organization] = row]
      /\ Advance(q, "inserted") /\ UNCHANGED <<reviewers, members, issued>>
  BY DEF CreateOrganization, Allowed
<1>3. row \in OrganizationRow
  BY DEF OrganizationRow
<1>4. organizations' \in [Organization -> OrganizationRow \cup {NoOrganization}]
  BY <1>1, <1>2, <1>3 DEF TrustTypeOK
<1>5. \A o \in Organization : IsThere(o) => IsThere(o)'
  BY <1>1, <1>2, <1>3, TrustAssumption DEF TrustTypeOK, IsThere, OrganizationRow, Trust
<1>6. /\ requests' \in [AccessRequest -> AccessRecord \cup {NoJob}]
      /\ requests'[q] = [j EXCEPT !.stage = "inserted"]
      /\ \A p \in AccessRequest : p # q => requests'[p] = requests[p]
  BY <1>1, <1>2, AdvanceType
<1>7. requests'[q].ask = j.ask /\ requests'[q].actor = j.actor
      /\ requests'[q].member = j.member /\ requests'[q].stage = "inserted"
  BY <1>6 DEF AccessRecord
<1>8. ActorOK(requests[q])'
  BY <1>1, <1>2, <1>7 DEF JobOK, ActorOK
<1>9. j.ask.organization \in Organization
  BY <1>2, OrganizationShape DEF AccessRecord
<1>10. IsThere(j.ask.organization)'
  BY <1>1, <1>2, <1>3, <1>9, TrustAssumption DEF IsThere, TrustTypeOK, OrganizationRow, Trust
<1>11. ~Inserted(q)' /\ JobOK(q)'
  BY <1>2, <1>7, <1>8, <1>10 DEF JobOK, Inserted
<1> QED
  BY <1>1, <1>2, <1>4, <1>5, <1>6, <1>11, QuietStepInv DEF TrustTypeOK

\* A field of an organization's row that changes: the row stays.
LEMMA RowChanges ==
  ASSUME TrustAssumption, TrustTypeOK, NEW o \in Organization, IsThere(o),
         NEW row \in OrganizationRow, organizations' = [organizations EXCEPT ![o] = row]
  PROVE  /\ organizations' \in [Organization -> OrganizationRow \cup {NoOrganization}]
         /\ \A p \in Organization : IsThere(p) => IsThere(p)'
BY TrustAssumption DEF TrustTypeOK, IsThere, OrganizationRow, Trust

\* The organization a creation is about is there: it has been inserted.
LEMMA ChangeOrganizationInv ==
  ASSUME TrustAssumption, TrustInv, NEW q \in AccessRequest,
         LinkConsumer(q) \/ SetActive(q) \/ SetTrustGrants(q)
  PROVE  TrustInv'
<1> PICK j \in AccessRecord : j = requests[q]
  BY JobShape DEF LinkConsumer, SetActive, SetTrustGrants, Allowed, TrustInv
<1>1. TrustTypeOK
  BY DEF TrustInv
<1>2. /\ j.ask.op \in {"create", "activate", "deactivate", "trust"} /\ Witness /\ End(q)
      /\ IsThere(j.ask.organization) /\ UNCHANGED <<reviewers, members, issued>>
  BY DEF LinkConsumer, SetActive, SetTrustGrants, Allowed, TrustInv, JobOK
<1>3. j.ask \in Operation
  BY DEF AccessRecord
<1>4. j.ask.organization \in Organization
      /\ (j.ask.op = "trust" => j.ask.trusts \in TrustList)
  BY <1>2, <1>3, OrganizationShape
<1> DEFINE o == j.ask.organization
           old == organizations[o]
<1>5. old \in OrganizationRow
  BY <1>1, <1>2, <1>4 DEF TrustTypeOK, IsThere
<1>6. PICK row \in OrganizationRow : organizations' = [organizations EXCEPT ![o] = row]
  <2>1. CASE LinkConsumer(q)
    <3>1. organizations' = [organizations EXCEPT ![o] = [old EXCEPT !.consumer = TRUE]]
      BY <2>1 DEF LinkConsumer
    <3>2. [old EXCEPT !.consumer = TRUE] \in OrganizationRow
      BY <1>5 DEF OrganizationRow
    <3> QED
      BY <3>1, <3>2
  <2>2. CASE SetActive(q)
    <3>1. organizations' =
             [organizations EXCEPT ![o] = [old EXCEPT !.active = j.ask.op = "activate"]]
      BY <2>2 DEF SetActive
    <3>2. [old EXCEPT !.active = j.ask.op = "activate"] \in OrganizationRow
      BY <1>5 DEF OrganizationRow
    <3> QED
      BY <3>1, <3>2
  <2>3. CASE SetTrustGrants(q)
    <3>1. organizations' = [organizations EXCEPT ![o] = [old EXCEPT !.trusts = j.ask.trusts]]
      BY <2>3 DEF SetTrustGrants
    <3>2. j.ask.trusts \in SUBSET Trust
      BY <1>4, <2>3, TrustAssumption DEF SetTrustGrants, Allowed, Trust
    <3>3. [old EXCEPT !.trusts = j.ask.trusts] \in OrganizationRow
      BY <1>5, <3>2 DEF OrganizationRow
    <3> QED
      BY <3>1, <3>3
  <2> QED
    BY <2>1, <2>2, <2>3
<1>7. /\ organizations' \in [Organization -> OrganizationRow \cup {NoOrganization}]
      /\ \A p \in Organization : IsThere(p) => IsThere(p)'
  BY <1>1, <1>2, <1>4, <1>6, RowChanges
<1> QED
  BY <1>1, <1>2, <1>7, EndInv DEF TrustTypeOK

\* Requests that end with an alert issued or cancelled, with nothing, or cut off.
LEMMA LeaveInv ==
  ASSUME TrustInv, NEW q \in AccessRequest,
         IssueAlert(q) \/ CancelAlert(q) \/ Proceed(q) \/ CutOff(q)
  PROVE  TrustInv'
<1>1. TrustTypeOK
  BY DEF TrustInv
<1>2. /\ Witness /\ End(q) /\ UNCHANGED <<reviewers, members, organizations>>
  BY DEF IssueAlert, CancelAlert, Proceed, CutOff
<1>3. issued' \in SUBSET AlertOf
  <2>1. CASE IssueAlert(q)
    <3> PICK j \in AccessRecord : j = requests[q]
      BY <2>1, <1>1, JobShape DEF IssueAlert, Allowed
    <3>1. j.ask \in Operation /\ j.ask.op = "issue" /\ j.actor # Automated
      BY <2>1 DEF IssueAlert, Allowed, AccessRecord, TrustInv, JobOK, ActorOK
    <3>2. j.member # NoMembership /\ j.member \in MemberRow
      BY <2>1, <3>1 DEF IssueAlert, Allowed, AccessRecord, TrustInv, JobOK, ActorOK
    <3>3. j.member.organization \in Owner /\ j.ask.visibility \in Visibility
      BY <3>1, <3>2, ClaimShape DEF MemberRow, Membership
    <3>4. [visibility |-> j.ask.visibility, organization |-> j.member.organization] \in AlertOf
      BY <3>3 DEF AlertOf
    <3> QED
      BY <1>1, <2>1, <3>4 DEF IssueAlert, TrustTypeOK
  <2>2. CASE CancelAlert(q)
    BY <1>1, <2>2 DEF CancelAlert, TrustTypeOK
  <2>3. CASE Proceed(q) \/ CutOff(q)
    BY <1>1, <2>3 DEF Proceed, CutOff, TrustTypeOK
  <2> QED
    BY <2>1, <2>2, <2>3
<1> QED
  BY <1>1, <1>2, <1>3, EndInv DEF TrustTypeOK, IsThere

\* Every step keeps the invariant.
LEMMA TrustStepInv ==
  ASSUME TrustAssumption, TrustInv, [TrustNext]_trustVars
  PROVE  TrustInv'
<1>1. CASE UNCHANGED trustVars
  BY <1>1
  DEF trustVars, TrustInv, TrustTypeOK, MembersOK, SoleInsert, Inserted, JobOK, ActorOK,
      GrantOK, ValidShape, IsThere, MayGrant
<1>2. ASSUME NEW q \in AccessRequest, NEW a \in Reviewer \cup {Automated},
             NEW ask \in Operation, BeginRequest(q, a, ask)
      PROVE  TrustInv'
  BY <1>2, BeginInv
<1>3. ASSUME NEW q \in AccessRequest,
             \/ ReadOrganization(q) \/ CreateReviewer(q) \/ AddMembership(q)
             \/ CreateOrganization(q)
      PROVE  TrustInv'
  BY <1>3, ReadInv, CreateReviewerInv, AddMembershipInv, CreateOrganizationInv
<1>4. ASSUME NEW q \in AccessRequest, LinkConsumer(q) \/ SetActive(q) \/ SetTrustGrants(q)
      PROVE  TrustInv'
  BY <1>4, ChangeOrganizationInv
<1>5. ASSUME NEW q \in AccessRequest,
             IssueAlert(q) \/ CancelAlert(q) \/ Proceed(q) \/ CutOff(q)
      PROVE  TrustInv'
  BY <1>5, LeaveInv
<1> QED
  BY <1>1, <1>2, <1>3, <1>4, <1>5 DEF TrustNext

-----------------------------------------------------------------------------
(* Theorems. *)

\* Rights, memberships and registrations under way stay in step, however requests overlap and
\* whatever becomes of the organizations meanwhile.
THEOREM TrustInvariant == TrustSpec => []TrustInv
<1>1. TrustAssumption
  BY TrustAssumption
<1>2. TrustInit => TrustInv
  BY TrustInitInv
<1>3. TrustInv /\ [TrustNext]_trustVars => TrustInv'
  BY <1>1, TrustStepInv
<1> QED
  BY <1>2, <1>3, PTL DEF TrustSpec

\* Whoever is about to verify a case, issue an alert or cancel one had the right to at some
\* moment since the request began (organization_access.rs and the handlers that use it).
THEOREM ActsOnRightsHeldAlways == TrustSpec => []ActsOnRightsHeld
<1>1. TrustInv => ActsOnRightsHeld
  BY DEF TrustInv, JobOK, ActsOnRightsHeld
<1> QED
  BY <1>1, TrustInvariant, PTL

\* Only add_membership changes a membership, and what it gives was granted.
LEMMA GivenByRight ==
  ASSUME TrustAssumption, TrustInv, [TrustNext]_trustVars,
         NEW r \in Reviewer, members'[r] # members[r]
  PROVE  /\ members[r] = NoMembership /\ r \in reviewers
         /\ ValidShape(members'[r])
         /\ members'[r].organization # NoOrganization => IsThere(members'[r].organization)
         /\ \E q \in AccessRequest :
              /\ requests[q] # NoJob
              /\ LET g == members[requests[q].actor] IN
                 IF requests[q].actor = Automated THEN members'[r] = PlatformAdmin
                 ELSE \/ g = PlatformAdmin
                      \/ /\ g.role = "ORG_ADMIN"
                         /\ members'[r] = [g EXCEPT !.role = "MEMBER"]
<1>1. PICK q \in AccessRequest : AddMembership(q)
  BY DEF TrustNext, trustVars, BeginRequest, ReadOrganization, CreateReviewer,
         CreateOrganization, LinkConsumer, SetActive, SetTrustGrants, IssueAlert,
         CancelAlert, Proceed, CutOff
<1>2. TrustTypeOK /\ MembersOK /\ JobOK(q)
  BY DEF TrustInv
<1> PICK j \in AccessRecord : j = requests[q]
  BY <1>1, <1>2, JobShape DEF AddMembership
<1>3. /\ requests[q] # NoJob /\ j.stage = "inserted" /\ j.ask.op = "register"
      /\ members' = [members EXCEPT ![j.ask.person] = j.ask.grant]
  BY <1>1 DEF AddMembership
<1>4. ActorOK(j) /\ GrantOK(j)
  BY <1>2, <1>3 DEF JobOK
<1>5. r = j.ask.person /\ members'[r] = j.ask.grant
  BY <1>2, <1>3 DEF TrustTypeOK
<1>6. /\ members[r] = NoMembership /\ r \in reviewers /\ ValidShape(members'[r])
      /\ members'[r].organization # NoOrganization => IsThere(members'[r].organization)
  BY <1>3, <1>4, <1>5 DEF GrantOK
<1>7. CASE j.actor = Automated
  BY <1>3, <1>4, <1>5, <1>6, <1>7 DEF ActorOK
<1>8. CASE j.actor # Automated
  <2> DEFINE g == members[j.actor]
  <2>1. g = j.member /\ g # NoMembership /\ j.actor \in Reviewer
    BY <1>4, <1>8 DEF ActorOK, AccessRecord
  <2>2. g \in Membership /\ ValidShape(g)
    BY <1>2, <2>1 DEF TrustTypeOK, MemberRow, MembersOK
  <2>3. MayGrant(g, FALSE, j.ask.grant)
    BY <1>4, <1>8, <2>1 DEF GrantOK
  <2>4. j.ask.grant \in Membership
    BY <1>3, RegisterShape DEF AccessRecord
  <2>5. CASE g.role = "PLATFORM_ADMIN"
    <3>1. g = PlatformAdmin
      BY <2>2, <2>5 DEF ValidShape, Membership, PlatformAdmin
    <3> QED
      BY <1>3, <1>6, <1>8, <3>1
  <2>6. CASE g.role = "ORG_ADMIN" /\ j.ask.grant.role = "MEMBER"
             /\ j.ask.grant.organization = g.organization
    <3>1. j.ask.grant = [g EXCEPT !.role = "MEMBER"]
      BY <2>2, <2>4, <2>6 DEF Membership
    <3> QED
      BY <1>3, <1>5, <1>6, <1>8, <2>6, <3>1
  <2> QED
    BY <2>3, <2>5, <2>6 DEF MayGrant, IsAdmin
<1> QED
  BY <1>7, <1>8

\* A membership is given once, in its shape, to a reviewer who exists, for an organization that
\* exists, by someone who may still give it (authorize_membership_grant), or to the first ones.
THEOREM MembershipsRootedAlways == TrustSpec => MembershipsRooted
<1> DEFINE Given(r) ==
       /\ members[r] = NoMembership /\ r \in reviewers
       /\ ValidShape(members'[r])
       /\ members'[r].organization # NoOrganization => IsThere(members'[r].organization)
       /\ \E q \in AccessRequest :
            /\ requests[q] # NoJob
            /\ LET g == members[requests[q].actor] IN
               IF requests[q].actor = Automated THEN members'[r] = PlatformAdmin
               ELSE \/ g = PlatformAdmin
                    \/ /\ g.role = "ORG_ADMIN"
                       /\ members'[r] = [g EXCEPT !.role = "MEMBER"]
           Rooted == \A r \in Reviewer : members'[r] # members[r] => Given(r)
<1>1. TrustAssumption
  BY TrustAssumption
<1>2. TrustInv /\ [TrustNext]_trustVars => [Rooted]_trustVars
  BY <1>1, GivenByRight
<1> QED
  BY <1>2, TrustInvariant, PTL DEF TrustSpec, MembershipsRooted
=============================================================================
