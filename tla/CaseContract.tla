---------------------------- MODULE CaseContract ----------------------------
(***************************************************************************)
(* What the case workflow promises, without versions, reads or requests: a *)
(* case moves along the reviewed lifecycle one edge at a time, its         *)
(* evidence only grows, and a report is evidence for one case only.        *)
(***************************************************************************)
CONSTANTS Case, Report

VARIABLES
  status,     \* [Case -> CaseStatus or "ABSENT"]
  evidence    \* [Case -> SUBSET Report]

vars == <<status, evidence>>

Edges == {<<"REPORTED", "UNDER_REVIEW">>,
          <<"UNDER_REVIEW", "VERIFIED">>, <<"UNDER_REVIEW", "REJECTED">>,
          <<"VERIFIED", "ACTIVE">>, <<"VERIFIED", "CANCELLED">>,
          <<"ACTIVE", "RESOLVED">>, <<"ACTIVE", "CANCELLED">>}

Free(r) == \A c \in Case : r \notin evidence[c]

Init ==
  /\ status = [c \in Case |-> "ABSENT"]
  /\ evidence = [c \in Case |-> {}]

Open(c, r) ==
  /\ status[c] = "ABSENT" /\ Free(r)
  /\ status' = [status EXCEPT ![c] = "REPORTED"]
  /\ evidence' = [evidence EXCEPT ![c] = {r}]

Attach(c, r) ==
  /\ status[c] # "ABSENT" /\ Free(r)
  /\ evidence' = [evidence EXCEPT ![c] = evidence[c] \cup {r}]
  /\ UNCHANGED status

Move(c) ==
  /\ \E edge \in Edges :
       /\ status[c] = edge[1]
       /\ status' = [status EXCEPT ![c] = edge[2]]
  /\ UNCHANGED evidence

Next == \E c \in Case : Move(c) \/ \E r \in Report : Open(c, r) \/ Attach(c, r)

Spec == Init /\ [][Next]_vars

=============================================================================
