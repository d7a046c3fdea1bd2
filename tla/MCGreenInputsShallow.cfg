SPECIFICATION Spec
CONSTANTS
    Trees <- SmallTrees
    Patterns <- ShallowPatterns
INVARIANTS
    InputSetExact
CHECK_DEADLOCK FALSE
