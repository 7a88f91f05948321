CONSTANT MaxAttempts = 100
SPECIFICATION Spec
INVARIANTS TerminalWhenExhausted BackoffInRange
PROPERTIES RetriesSlowDown AcknowledgedAfterExhaustionIsFinal
