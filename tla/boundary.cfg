CONSTANTS
    Builds = {b1, b2, b3}
    NoBuild = NoBuild
    Manifests <- MCManifests
SYMMETRY Symmetry
SPECIFICATION BSpec
INVARIANTS BTypeOK AcceptedIsComplete ImagePermitted ApprovedToolBakesApproved ProductionServesPermitted FixtureServiceShowsFixture LoneBuildIsAtomic
CHECK_DEADLOCK FALSE
