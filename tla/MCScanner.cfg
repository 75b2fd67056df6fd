SPECIFICATION Spec
CONSTANTS
    Texts <- MCTexts
    MaxInt = 2147483647
INVARIANTS TriviaFaithful LongestToken LexemesScanned ValuesFaithful
PROPERTIES ScanAdvances
