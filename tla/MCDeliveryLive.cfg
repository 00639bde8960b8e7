SPECIFICATION PromptSpec
CONSTANTS
    Message = {m1}
    Request = {q1, q2}
    Instance = {i1}
    None = None
\* Every request may be over.
CHECK_DEADLOCK FALSE
PROPERTIES WokenByMessages WaitEnds
