SPECIFICATION AlgSpec
CONSTANTS
    Codes = {"a", "b"}
    Symbols = {"u"}
    Numbers = {"v", "w", "bad"}
    Prices = {"v", "w", "bad"}
    Refused <- MCRefused
    Answers <- MCAnswers
    MaxRows = 3
    NoText = NoText
    Junk = Junk
CHECK_DEADLOCK FALSE
INVARIANTS BookFills RankingHonest PayoffExact CalendarTruthful
INVARIANTS KeptIffUnanimous EverySideAccounted ContradictionsTraceable CleanIffBlameless
