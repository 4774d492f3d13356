CONSTANTS
  ExpectedBits = 4
  Cards <- MCCards
  MaxCards = 2
  MaxFaults = 2
SPECIFICATION FairSpec
CHECK_DEADLOCK FALSE
INVARIANTS TypeOK GoodCardsAreRead
PROPERTIES OnlyShownCards EveryCardHasAnAnswer
