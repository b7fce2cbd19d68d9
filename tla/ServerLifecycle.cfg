SPECIFICATION FairSpec
CONSTANTS
    Client = {c1, c2}
    Request = {r1, r2}
INVARIANTS
    OneProbeChain
    MetricsCloseLast
    AnswersAgree
PROPERTIES
    StopCompletes
    ProbesGoOn
CHECK_DEADLOCK FALSE
