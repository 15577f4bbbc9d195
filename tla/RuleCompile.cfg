\* Texts of two and three lines with a database of every format, wrong
\* configurations of every kind, and 28 questions.
SPECIFICATION Spec
CONSTANTS
    Nil = Nil
    Bits4 = 3
    Bits6 = 7
    Mapped = 8
    Configs <- MCConfigs
    Questions <- MCQuestions
INVARIANTS Inv AnswersAsWritten FirstErrorReported
\* A configuration that is refused is the end.
CHECK_DEADLOCK FALSE
