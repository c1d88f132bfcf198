CONSTANTS
    Instances = {i1, i2}
    NoFile = NoFile
    Calls = {c1, c2}
    Embedders = {e1}
    QueueSize = 1
SPECIFICATION HistorySpec
INVARIANTS MasterIsAlone StoreIsOwned MasterIsFound ListenSucceeds
    PoolWhole NoUseAfterClose StoreServedByOwner
PROPERTIES EveryCallServed
