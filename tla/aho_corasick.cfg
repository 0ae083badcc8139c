\* Three insertions in any order, builds and searches in between.
SPECIFICATION Spec
CONSTANTS
    Char = {"a", "b"}
    Words <- MCWords
    Ids = {1, 2}
    MaxInserts = 3
    MaxText = 5
INVARIANTS TypeOK LongestSuffixes MatchExact FirstOffset
