CONSTANTS
    MaxThought = 2
    MaxAnswer = 1
SPECIFICATION StreamSpec
CHECK_DEADLOCK FALSE
INVARIANT InlineStreamKeepsThinking
