CONSTANT CmdLines <- MCCmdLines
SPECIFICATION Spec
\* main returns and the process ends.
CHECK_DEADLOCK FALSE
INVARIANT TimeoutOnlyWithoutAnswer
