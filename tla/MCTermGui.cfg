SPECIFICATION FairSpec
CONSTANTS
  Texts <- MCTexts
  Height = 3
  Deltas <- MCDeltas
  Keys <- MCKeys
  Keymaps <- MCKeymaps
  Ranked <- MCRanked
  Letters <- MCLetters
  Calls <- MCCalls
  Content <- MCContent
  MaxKeys = 4
  MaxForeign = 1
CHECK_DEADLOCK FALSE
INVARIANTS  ResultsFresh ListingComplete 
PROPERTIES MoveShowsCursor Responsive ListingShown
