\* Three requests over two products and two categories, with images, without and
\* with too many, and the worker behind them, which may append an event once;
\* nothing fails: locks, waits, answers, and what the topic says meanwhile.
SPECIFICATION OrderedSpec
CONSTANTS
    r1 = r1
    r2 = r2
    r3 = r3
    Requests = {r1, r2, r3}
    Inputs <- Crossed
    MaxRoubles = 1
    MaxCopies = 1
    Faults <- NoFault
INVARIANTS
    TopicIsTrue
    AnswerMatchesTopic
PROPERTIES
    FailsOnlyAfterWait
    EveryRequestReturns
