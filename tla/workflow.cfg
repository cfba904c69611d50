CONSTANTS
    Words <- MCWords
    Malformed <- MCMalformed
    ClaimForms <- MCClaimForms
    Morphologies <- MCMorphologies
    Findings <- MCFindings
    MaxFindings = 2
    Decisions <- MCDecisions
    Corpora <- MCCorpora
    Cutoff = 2
    MaxVariants = 4
    MaxMatches = 2
SPECIFICATION WSpec
INVARIANTS WTypeOK CoverageIsTotal NegativeIsExhaustive PositiveIffEvidence HitsBounded RejectionIsExplained
CHECK_DEADLOCK FALSE
