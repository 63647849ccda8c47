\* Both nodes mine, on branches of their own. The connection may be lost once.
SPECIFICATION FairSpec
CONSTANTS
    a = a
    b = b
    Hash = {0, 1, 2}
    Genesis = 0
    Nil = Nil
    Node <- Both
    Miners <- Both
    Limit = 2
    MaxDrops = 1
ACTION_CONSTRAINT HashesInOrder
INVARIANTS RequestsAnswerable AnswersLeadOn
PROPERTIES Quiesces CatchUp
CHECK_DEADLOCK FALSE
