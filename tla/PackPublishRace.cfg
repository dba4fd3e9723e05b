\* Two builders of a successor and of the view; the donor changes between reads.
SPECIFICATION Spec
CONSTANTS
    p = p  q = q  part = part  near = near  sumFn = sumFn  agent = agent  patient = patient
    T0 = T0  T1 = T1  T2 = T2  T3 = T3  m1 = m1  m2 = m2  m3 = m3
    v2 = v2  v3 = v3  v4 = v4  s1 = s1  s2 = s2  b1 = b1  b2 = b2
    Terms = {p, q, part, near, sumFn}
    Labels = {agent, patient}
    MaxArity = 3
    Types = {T0, T1, T2, T3}
    Modules = {m1, m2, m3, Unknown}
    Donors <- RaceDonors
    BaseVersions = {v4}
    HistoricVersion = v2
    Released <- FirstReleased
    CanonicalFrames = 1
    Slices <- OneSlice
    ViewVersion = view
    Unknown = Unknown  Blank = Blank  NoType = NoType  NoPack = NoPack  NoBase = NoBase
    NoMappings = NoMappings  NoDigest = NoDigest
    Builders = {b1, b2}
    FirstDonor <- First
    Unread = Unread
SYMMETRY BuildersAlike
PROPERTIES
    CatalogueKept
