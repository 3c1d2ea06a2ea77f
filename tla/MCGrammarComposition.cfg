CONSTANTS
    Root = "base"
    Grammars <- MCGrammars
    Parent <- MCParent
    Layers <- MCLayers
    Conflicts <- MCConflicts
    Externals <- MCExternals
    Roots <- MCRoots
    PARENTS <- MCPARENTS
    Dispatch <- MCDispatch
    Stranded <- MCStranded
    Withdrawn <- MCWithdrawn
    Eclipsed <- MCEclipsed
    Relinquished <- MCRelinquished
    Unlexable <- MCUnlexable
    Harmless <- MCHarmless
    Unhashed <- MCUnhashed

SPECIFICATION Spec

\* A grammar that no dialect extends is the end of a run.
CHECK_DEADLOCK FALSE

INVARIANTS
    TypeOK
    SourcesHashed
    OwnRulesOverCopies
    OwnRulesReached
    AlternativesKept
    EclipsedRulesKept
    ConflictsInSync
    LongerWordsLexed
