SPECIFICATION MCSpec
CONSTANTS
 Tasks <- MCTasks
 Zipped = 3
 Items = 2
 Limit = 1
 Inputs <- MCInputs
 Cells = {"c", "d"}
 Waits = {1, 2}
 Timeouts = {0, 1, 99}
 Forever = 99
 Values = {"v", "u"}
 MaxClock = 2
 MaxNotifies = 1
 Stacks = {1, 2}
 Resources = {1, 2, 3}
 MayThrow = FALSE
 Calls <- MCCalls
 MaxExec = 2
 Captures = 12
 SetCalls <- MCSetCalls
 Elements = {1, 2, 3}
 MaxChanges = 1
 BinaryCalls <- MCBinaryCalls
 BufferSizes = {0, 2, 3, 6}
 MaxMeddles = 2
 BinaryFaults = {}
INVARIANTS IteratorsClose CallbacksKept AnswersRight BuffersSafe ViewsRight SocketsKept
PROPERTIES LibrarySettles
CHECK_DEADLOCK FALSE
