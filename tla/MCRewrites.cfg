SPECIFICATION PlanSpec
CONSTANT nc = 3
INVARIANTS RewriteTypeOK MeaningKept LeversStick VerdictsCarryOver
PROPERTIES Contained Variant NoSiteLeft
