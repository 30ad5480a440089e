CONSTANT NumFormulas = 3
SPECIFICATION Spec
INVARIANTS MapsAgree AllBlocked NoRepetition LocallyMinimal ResultSound
CHECK_DEADLOCK FALSE
