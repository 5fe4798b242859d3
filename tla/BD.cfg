\* Two files, one edit between or during three runs of the build.
SPECIFICATION Spec
CONSTANTS
    f1 = f1
    f2 = f2
    Files = {f1, f2}
    Slots <- MCSlots
    Nodes <- MCNodes
    Registry <- MCRegistry
    None = None
    Base <- MCBase
    Layouts <- MCLayouts
    Tilings <- MCTilings
    Texts <- MCTexts
    Flows <- MCFlows
    MaxEdits = 1
    MaxRuns = 3
SYMMETRY Symmetry
CONSTRAINT BuildBound
INVARIANTS DrawingsNest ExercisesWork SiteIsWhole
CHECK_DEADLOCK FALSE
