\* One desk edited during the run, with every kind of file, and every small
\* score, region and viewport.
CONSTANTS
    MaxInt = 7
    Desks <- AllDesks
SPECIFICATION Spec
INVARIANTS
    ViewFits
    OverlayFramesItsStep
    ExitCodeTells
