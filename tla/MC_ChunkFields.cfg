SPECIFICATION Spec
CONSTANTS
    Formats <- MCFormats
    Masks <- MCMasks
    MaxPoints = 2
    Files <- MCFiles
    Boxes <- MCBoxes
    Windows <- MCWindows
INVARIANTS
    AnswersAreTheFile
    RefusedOnlyIfUndecoded
