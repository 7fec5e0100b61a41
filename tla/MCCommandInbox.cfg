SPECIFICATION LiveSpec
CONSTANTS
    Command = {a, b}
    Input = {a}
    Request = {r1, r2, r3}
    SettledLimit = 1
    None = None
INVARIANT InputsRunOnce
PROPERTIES AnswersAreFinal EveryRequestAnswered
CHECK_DEADLOCK FALSE
