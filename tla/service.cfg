CONSTANTS
    Apps <- MCApps
    Links = {"live", "in_process"}
    XNames = {"x-tenant"}
    TooLong = {"long"}
SPECIFICATION Spec
INVARIANTS SettingsSurvive CapHolds RefusedAlike HarnessWaits
PROPERTY TestsPass
CHECK_DEADLOCK FALSE
