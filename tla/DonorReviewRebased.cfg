\* One checkpoint, two versions of the donor mappings.
SPECIFICATION Spec
CONSTANTS
    r1 = r1  r2 = r2  r3 = r3  r4 = r4  c1 = c1  b1 = b1  b2 = b2  m1 = m1  m2 = m2
    Rows = {r1, r2, r3}
    Candidates = {r1, r2, r3}
    FrameNet = {r1, r2, r3}
    SumoCases = {c1}
    SumoState <- MCSumoState
    Bases = {b1, b2}
    RowsOf <- MCTwoBases
    Refused = Refused
    Runners = {p1}
    Names = {n1, n2, n3}
    Models = {m1, m2}
    ModelPairs <- MCTwoModels
    Rank <- MCRank
    Limit = 1
    Undescribed = {}
    Unanswerable = {}
    MaxHiccups = 0
    MaxCrashes = 0
    TornWrites = FALSE
    Absent = Absent  Partial = Partial  Garbage = Garbage  NoOutput = NoOutput
    Undecided = Undecided  Unpublished = Unpublished
INVARIANTS
    ReviewsGrounded
