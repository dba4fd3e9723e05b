\* Three changes of files or publications, one publisher, one inspection.
SPECIFICATION Spec
CONSTANTS
    Pred = Pred
    RoleA = RoleA
    RoleB = RoleB
    PackA = PackA
    Text1 = Text1
    Text2 = Text2
    Credit1 = Credit1
    Credit2 = Credit2
    Facts1 = Facts1
    Facts2 = Facts2
    Canon = Canon
    Notice = Notice
    Absent = Absent
    NoSumo = NoSumo
    Publishers = {p1}
    Inspections = {q1}
    Archives <- MCArchives
    Pinned <- MCPinned
    Releases <- MCReleases
    Initial <- MCInitial
    Credited = {Credit1}
    Query <- MCQuery
    MaxEvents = 3
INVARIANTS TypeOK ExactFrames OneRelease SetAtomic PriorKept
