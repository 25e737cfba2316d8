SPECIFICATION Spec
SYMMETRY Exchanges
CONSTANTS
    h1 = h1
    h2 = h2
    i1 = i1
    i2 = i2
    c1 = c1
    c2 = c2
    l1 = l1
    l2 = l2
    s1 = s1
    s2 = s2
    s3 = s3
    None = None
    Dead = Dead
    Hook = {h1, h2}
    Inv = {i1, i2}
    Commit = {c1, c2}
    MetadataOnly = {c2}
    Observed <- MCObserved
    Locator <- MCLocator
    Slot <- MCSlot
    Window = 0
    ReceiptWindow = 1
    MaxFault = 1
INVARIANTS TypeOK ClaimExclusive NoStandoff OneAssociation FinishedIsEmpty
PROPERTIES LiveOwnerKeepsClaim EvidenceKept NeverReopens
