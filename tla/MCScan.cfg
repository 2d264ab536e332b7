SPECIFICATION Spec
CONSTANTS
    Instances = {1, 2}
    Versions = {1, 2}
    Rows = {1, 2, 3}
    Setups <- ReadSetups
INVARIANTS SettledAlias ServedComplete ScanExact
PROPERTIES AliasKept ReadyIsAnswered
