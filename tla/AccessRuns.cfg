SPECIFICATION Spec
CONSTANTS
    Files = 2
    Absent = Absent
    Broken = Broken
    Texts <- MCTexts
    Configs <- MCConfigs
    Creds <- MCCreds
    Keys <- MCKeys
    Units = {"u1"}
    Images = {"i1"}
    MaxAge = 1
    MaxPolicies = 2
    MaxTime = 2
    MaxEdits = 1
INVARIANTS ActsAsPermitted ChangersSurvive
PROPERTY IdentifiedUnlessBootstrap
CHECK_DEADLOCK FALSE
