SPECIFICATION Spec
PROPERTIES
    AbandonedIsLeftAlone
CHECK_DEADLOCK FALSE
