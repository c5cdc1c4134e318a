CONSTANTS
    Reviews = {r1, r2, r3}
    Pods <- AllPods
SPECIFICATION InjectorSpec
INVARIANTS PatchIsWhole AskedIsGiven FlagHasCause
SYMMETRY ReviewSymmetry
CHECK_DEADLOCK FALSE
