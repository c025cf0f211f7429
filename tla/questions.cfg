SPECIFICATION Spec
CONSTANTS
  Vars <- MCVars
  N = 6
  Rules <- MCRules
  Asm <- MCAsm
  Syscalls <- MCSyscalls
  Span <- MCSpan
  Questions <- MCQuestions
INVARIANTS TypeOK AnswerIsTrue MatricesFreed
PROPERTY QuestionsEnd
CHECK_DEADLOCK FALSE
