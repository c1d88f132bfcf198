CONSTANTS
    Instances = {i1, i2}
    NoFile = NoFile
SPECIFICATION Spec
INVARIANTS AtMostOneMaster
