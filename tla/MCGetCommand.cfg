\* MAX_TOKENS = 3: the first batch holds one key, later ones two, so lines
\* of two and three keys are re-tokenised.  ilist starts with one slot and
\* may double twice; one transient allocation failure.
SPECIFICATION Spec
CONSTANTS
    Lines <- MCLines
    Space <- MCSpace
    Nul <- MCNul
    GetWord <- MCGetWord
    Stored <- MCStored
    MAX_TOKENS = 3
    MAX_KEY_LEN = 2
    ISIZE = 1
    MemLimit = 4
    MaxOOM = 1
INVARIANT TypeOK
INVARIANT TokensAreWords
INVARIANT AnswersEveryKey
PROPERTY GetTerminates
