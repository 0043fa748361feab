SPECIFICATION PipelineSpec
CONSTANTS
    Variants = 1
    Text = {t1, t2}
    None = None
    Torn = Torn
    Cases = 1
    Gate = FALSE
    MaxRepairs = 1
    MaxRuns = 2
    Layer = {"C", "D"}
INVARIANTS
    PipelineTypeOK
    SelectionIsVerified
    CertifiedRestsOnEvidence
CONSTRAINTS
    OneCertificate
    FewLayers
SYMMETRY Symmetry
CHECK_DEADLOCK FALSE
