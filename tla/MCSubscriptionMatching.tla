----------------------- MODULE MCSubscriptionMatching -----------------------
(***************************************************************************)
(* Instances of SubscriptionMatching for TLC.  The initial state chooses   *)
(* which of the API's clients are there: editors of one subscription, a    *)
(* consumer with two subscriptions, or two consumers.                      *)
(***************************************************************************)
EXTENDS SubscriptionMatching, TLC

CONSTANTS c1, c2, s1, s2, s3, push, sms

VARIABLE clients

\* c1 has two subscriptions, c2 one.
Owners == [s \in Subscription |-> IF s = s3 THEN c2 ELSE c1]

Chain == [strategy |-> "PRIMARY_FALLBACK", channels |-> <<push, sms>>]
Swap  == [strategy |-> "PRIORITY_LIST", channels |-> <<sms, push>>]

OneOrAll       == {{1}, Alert}
TwoPreferences == {Chain, Swap}

MCvars == <<vars, clients>>

MCInit == Init /\ clients \in {"editors", "pair", "neighbours"}

\* What the clients leave alone.
Active ==
  CASE clients = "editors"    -> {s1}
    [] clients = "pair"       -> {s1, s2}
    [] clients = "neighbours" -> {s1, s3}

MCNext ==
  /\ Next
  /\ clients' = clients
  /\ \A s \in Subscription \ Active : subscriptions'[s] = subscriptions[s]
  /\ \A c \in Consumer \ {owner[s] : s \in Active} : preferences'[c] = preferences[c]
  /\ clients # "editors" => /\ editing' = editing
                            /\ \A e \in editions' : e.rules = Alert
  /\ clients = "neighbours" => \A c \in Consumer : preferences'[c] # Swap

MCSpec ==
  /\ MCInit /\ [][MCNext]_MCvars
  /\ \A w \in Worker : WF_MCvars(EventStep(w) /\ clients' = clients)
  /\ WF_MCvars(SomeoneClaims /\ clients' = clients)
=============================================================================
