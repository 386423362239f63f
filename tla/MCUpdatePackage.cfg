CONSTANTS
    d1 = d1
    d2 = d2
    FirstVersions <- MCFirstVersions
    MaxInt = 2
    Components = {"updater", "greeter"}
    Greeter = {"greeter"}
    Updater = {"updater"}
    MaxBuilds = 2
    MaxPackages = 2
    Versions <- MCVersions
    PackageOptions <- MCPackageOptions
    ReleaseKey = "stable-key"
    Architecture = "linux-amd64"
    Dirs = {d1, d2}
SPECIFICATION Spec
INVARIANTS SameVerdict
PROPERTIES InstalledAsSigned WorkerOnlyUpgrades
SYMMETRY Symmetry
