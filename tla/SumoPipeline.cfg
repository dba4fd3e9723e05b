SPECIFICATION Spec
CONSTANTS
    Merge = Merge
    mid = mid
    zed = zed
    zedA = zedA
    mergeA = mergeA
    mergeB = mergeB
    mergeTorn = mergeTorn
    midA = midA
    midB = midB
    midC = midC
    Leaving = Leaving
    Translocation = Translocation
    AutonomousAgent = AutonomousAgent
    Entity = Entity
    CaseRole = CaseRole
    RelationClass = RelationClass
    Class = Class
    Motion = Motion
    Object = Object
    agent = agent
    patient = patient
    Unmapped = Unmapped
    give = give
    go = go
    Absent = Absent
    Torn = Torn
    Runs = {r1, r2}
    Modules <- MCModules
    Rank <- MCRank
    Contents <- MCContents
    Formulas <- MCFormulas
    Size <- MCSize
    Pinned <- MCPinned
    Approved = mergeA
    Granting = {mergeA, mergeB}
    Broken = {mergeTorn}
    Versions <- MCVersions
    Terms <- MCTerms
    d1 = d1
    d2 = d2
    Donors = {d1, d2}
    Database <- MCDatabase
    MaxEdits = 3
SYMMETRY RunsAlike
INVARIANTS
    TypeOK
    ContextOfApproved
    ReviewOfOneCheckout
    AuditNamesDonor
    AuditSound
CHECK_DEADLOCK FALSE
