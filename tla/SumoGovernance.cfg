\* Two programs over one queue, one run root, one batch and one result.
SPECIFICATION Spec
CONSTANTS
    c1 = c1  c2 = c2  c3 = c3  run = run  carry = carry
    q1 = q1  q2 = q2  m1 = m1  m2 = m2  r1 = r1  b1 = b1  g1 = g1  d1 = d1  d2 = d2
    p1 = p1  p2 = p2
    Cases = {c1, c2, c3}
    Keys = {c1, c2, c3}
    PredicateOf <- Predicate
    CaseRank <- MCCaseRank
    PredicateRank <- MCPredicateRank
    Quotes = {q1, q2}
    Models = {m1, m2}
    Donors <- MCDonors
    Reports <- MCReports
    Checkouts <- MCCheckouts
    Roots = {r1}
    Batches = {b1}
    Results = {g1}
    Documents = {d1, d2}
    Programs = {p1, p2}
    Offered <- MCOffered
    FirstDonor <- First
    FirstDocument = d1
    MaxEdits = 1
    NoText = NoText  NoResponse = NoResponse  NoModel = NoModel
    Absent = Absent  Empty = Empty  Partial = Partial
SYMMETRY ProgramsAlike
INVARIANTS
    TypeOK
    OneCallPerRoot
    EveryCallTraced
PROPERTIES
    LedgerKept
