SPECIFICATION Spec
CONSTANTS
    CeremonyPlans <- MCCeremonies
    Scripts <- MCScripts
    LastStage <- MCLastStage
    MaxStageDuration = 2
    CeremonyIdWindow = 1
INVARIANTS
    CeremoniesAgree
PROPERTIES
    RequestsAreAnswered
CHECK_DEADLOCK FALSE
