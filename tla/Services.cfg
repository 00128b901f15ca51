CONSTANTS
  \* trust
  Reviewer = {a, b, c}
  Organization = {o}
  fire = fire  public = public
  IncidentType = {fire}
  Visibility = {public}
  TrustList <- NothingOrAll
  AccessRequest = {q1, q2}
  Automated = Automated
  NoOrganization = NoOrganization
  NoMembership = NoMembership
  NoJob = NoJob
  \* sessions
  Person = {p}
  SessionCall = {q1, q2}
  TicksPerSecond = 2
  SessionTTL = 1
  MaxClock = 4
  MaxSessions = 2
  NoCall = NoCall
  \* limits
  report = report
  Scope = {report}
  Source = {source}
  LimitedCall = {q1, q2}
  Limit <- TwoReports
  Window <- TwoTicks
  Retention = 3
  MaxDelay = 1
  MaxNow = 5
  MaxAsked = 3
  NoCheck = NoCheck
  \* evidence
  Photo = {photo1, photo2}
  Supported = {jpeg}
  MimeType = {jpeg, html}
  MaxSize = 1
  AudioType = {"x-wav"}
  MaxAudio = 1
  VoiceEnabled = TRUE
  Field = {place}
  Desk = {q1, q2}
  MaxSuggestions = 2
  MaxDownloads = 1
  NoRow = NoRow
  NoObject = NoObject
  NoDeskRequest = NoDeskRequest
  \* subscribers
  Consumer = {c1}
  SubscriptionId = {s1, s2}
  Endpoint = {e1, e2}
  Request = {q1, q2}
  Incident = {fire}
  Severity = {1, 2}
  Trigger = {confirmed}
  town = town  here = here
  Area = {town}
  Target = {here, elsewhere}
  Within <- TownHere
  Audience = {public, partner}
  Broad = {public}
  ReviewerRules <- RuleLists
  Asked <- CitizenAsks
  Legacy <- OneArea
  MaxVersion = 2
  NoConsumer = NoConsumer
  NoSubscription = NoSubscription
  NoEndpoint = NoEndpoint
  NoRequest = NoRequest
SPECIFICATION ServicesSpec
SYMMETRY Symmetry
INVARIANTS
  ServicesTypeOK
  ActsOnRightsHeld
  LockoutExplained
  WindowAdmitsLimit
  PhotosAccountedFor
  AnswersOnRecord
  RulesKeepMeaning
  TokenOpens
PROPERTIES
  MembershipsRooted
  LogoutEndsSessions
CHECK_DEADLOCK FALSE
