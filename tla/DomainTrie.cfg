\* Words of 4 bits and a sample of every other one: a trie of a few nodes has
\* several words and samples, and ends within a word and at its end.
SPECIFICATION FairSpec
CONSTANTS
    WordBits = 4
    Sampling = 2
    Inputs <- MCInputs
    Names <- MCNames
INVARIANTS Inv AnswersRight IndexExact
PROPERTY Answers
