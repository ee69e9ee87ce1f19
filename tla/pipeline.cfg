SPECIFICATION PipelineSpec
CONSTANTS
    None = None
    w1 = w1  w2 = w2
    c1 = c1  c2 = c2
    Workers = {w1, w2}
    Consumers = {c1, c2}
    Messages = {1}
    MaxAttempts = 2
    BatchSize = 1
INVARIANTS
    CompletedWasRecorded
PROPERTIES
    CompletionIsFinal
    EventuallyHandled
