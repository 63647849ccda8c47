\* The chain is longer than an inventory.
SPECIFICATION FairSpec
CONSTANTS
    a = a
    b = b
    Hash = {0, 1, 2}
    Genesis = 0
    Nil = Nil
    Node <- Both
    Miners <- OneMines
    Limit = 1
    MaxDrops = 0
ACTION_CONSTRAINT HashesInOrder
PROPERTIES CatchUp
CHECK_DEADLOCK FALSE
