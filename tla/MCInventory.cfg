CONSTANTS
    Groups = {"all", "ungrouped", "a", "b"}
    Hosts = {"h", "a"}
    MaxLines = 5
SPECIFICATION Spec
INVARIANTS SlicesAgree CycleSearchExact AllMeansAll VarsReachHosts PatternMeaning
