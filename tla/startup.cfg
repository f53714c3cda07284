\* Two processes of seven versions of a project start, stop and share a broker.
CONSTANTS
    Processes = {"command", "worker"}
    Starts <- AllStarts
    Apps = {"one", "two"}
    Names = {"live", "slow", "celery"}
    CeleryDefault = "celery"
    LongestTtl = 2
    Versions = {"base", "longer", "clashing", "default", "foreign", "polled", "late"}
    Code <- AllCode
SPECIFICATION Spec
INVARIANTS TypeOK RegisteredOnce VerifiedQueuesAgree
PROPERTIES CreatedWithItsArguments WarnedBeforeRefusal
