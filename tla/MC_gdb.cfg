SPECIFICATION Spec
INVARIANTS StubAndDebuggerAgree RegistersRestored
PROPERTY RequestsAnswered
CHECK_DEADLOCK FALSE
