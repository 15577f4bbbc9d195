\* Networks of both families in a MetaDB.
SPECIFICATION Spec
CONSTANTS
    Nil = Nil
    Bits4 = 3
    Bits6 = 7
    Mapped = 8
    Configs <- MCMetaConfigs
    Questions <- MCQuestions
INVARIANTS AnswersAsWritten
\* A configuration that is refused is the end.
CHECK_DEADLOCK FALSE
