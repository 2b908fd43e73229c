SPECIFICATION PollSpec
CONSTANTS
    None = None
    Budgets <- MCBudgets
INVARIANTS LeaveInOrder NoRequestForgotten LiveSessionKept
PROPERTIES EveryResponseArrives SubmitsEnd
CHECK_DEADLOCK FALSE
