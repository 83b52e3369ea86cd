\* One event, one worker, the attempts of the code.
SPECIFICATION Spec
CONSTANTS
    NULL = NULL
    NumEvents = 1
    Workers = {w1}
    MAX_OUTBOX_ATTEMPTS = 5
    BATCH_SIZE = 10
INVARIANTS
    EventRemainsAvailable
