CONSTANTS
    Words <- MCWords
    Malformed <- MCMalformed
    ClaimForms <- MCClaimForms
    Morphologies <- NoMorphologies
    Findings <- MCFindings
    MaxFindings = 1
    Decisions <- MCDecisions
    Corpora <- MCCorpora
    Cutoff = 2
    MaxVariants = 4
    MaxMatches = 2
SPECIFICATION WSpec
INVARIANT TruncatedIsInconclusive
CHECK_DEADLOCK FALSE
