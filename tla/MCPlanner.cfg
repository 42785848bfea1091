SPECIFICATION PlanSpec
CONSTANT nc = 3
INVARIANT BrokenIsDropped
