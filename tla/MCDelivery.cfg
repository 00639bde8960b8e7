SPECIFICATION BoundedSpec
CONSTANTS
    Message = {m1, m2}
    Request = {q1, q2}
    Instance = {i1, i2}
    None = None
\* Every request may be over.
CHECK_DEADLOCK FALSE
SYMMETRY Symmetry
INVARIANTS TypeOK OnePlace NoLostWakeup
PROPERTIES KeptUntilWritten KeepsMailbox AnsweredOnce
