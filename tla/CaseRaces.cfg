\* Two requests race over two cases and two reports; every lifecycle is finite, so
\* nothing is cut off.
CONSTANTS
  Case = {k1, k2}
  Report = {r1, r2}
  Request = {q1, q2}
  NoRequest = NoRequest
  NoReport = NoReport
SPECIFICATION ViewSpec
SYMMETRY Symmetry
INVARIANTS
  HistoryIsPath
  LinksAgree
PROPERTIES
  AnsweredTruly
  ImplementsContract
CHECK_DEADLOCK FALSE
