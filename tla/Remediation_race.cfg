\* Two workers race, replay and die on one action, and settle what they claim; the clock may move once.
SPECIFICATION FairSpec
CONSTANTS
    Nil = Nil
    w1 = w1  w2 = w2  a1 = a1  a2 = a2  alice = alice  bob = bob  r1 = r1
    Actions = {a1}
    Subjects = {alice, bob}
    Workers = {w1, w2}
    Resources = {r1}
    Traffic = {}
    Target <- OneTarget
    Expected <- SameVersion
    EvidenceAt <- EvidenceAtZero
    InitialGrants <- TwoSubjects
    ApprovalTTL = 2
    IdentityTTL = 1
    ResourceTTL = 1
    EvidenceTTL = 1
    MaxTime = 1
    Revocable = {}
    MaxVersion = 2
INVARIANTS StoreSound SoleClaimant AtMostOneDispatch
PROPERTIES OrphanStays ImplementsLifecycle ClaimResolves
