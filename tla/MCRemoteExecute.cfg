CONSTANTS
    Home = {h1, h2, h3}
    Become = {b1}
SPECIFICATION Spec
INVARIANTS
    NeverPartial
    PathStays
PROPERTIES
    InstalledForGood
    SomebodyServes
