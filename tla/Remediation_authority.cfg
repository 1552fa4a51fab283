\* Two pauses of one traffic control against one version, a moving clock and withdrawn grants.
SPECIFICATION Spec
CONSTANTS
    Nil = Nil
    w1 = w1  w2 = w2  a1 = a1  a2 = a2  alice = alice  bob = bob  r1 = r1
    Actions = {a1, a2}
    Subjects = {alice, bob}
    Workers = {w1}
    Resources = {r1}
    Traffic = {r1}
    Target <- OneTarget
    Expected <- SameVersion
    EvidenceAt <- EvidenceAtZero
    InitialGrants <- TwoSubjects
    ApprovalTTL = 2
    IdentityTTL = 1
    ResourceTTL = 1
    EvidenceTTL = 1
    MaxTime = 2
    Revocable <- ActorGrants
    MaxVersion = 2
INVARIANTS OneEffectPerVersion DefiniteOutcome
PROPERTY DispatchWithinAuthority
