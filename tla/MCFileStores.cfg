\* Requests are bounded.
CHECK_DEADLOCK FALSE
SPECIFICATION Spec
CONSTANTS
    t1 = t1
    t2 = t2
    app = app
    pkg = pkg
    TsConfigJsons = {t1, t2}
    OtherConfigs = {app}
    Manifests = {pkg}
    Configurations <- MCConfigurations
    MaxVersion = 2
    MaxChanges = 2
    MaxRequests = 3
SYMMETRY Symmetry
INVARIANTS
    TsConfigsAreCurrent
    ManifestsAreCurrent
    ProgramsFollowTsConfigs
    ScannerSeesTheProject
