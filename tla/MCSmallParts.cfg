\* Up to five rows in pages of two: three pages, the last one short, and the rows of
\* each on the move; the requests need Normalize, begin in the middle, or at the end.
\* Three goroutines execute one script, two of them on one cache, the third elsewhere.
\* A cent of ten units has a half, and values on both sides of it.
CONSTANTS
  MaxRow = 5
  PageRequest <- MCPageRequest
  DefaultSize = 2
  g1 = g1
  g2 = g2
  g3 = g3
  p1 = p1
  p2 = p2
  Goroutine <- MCGoroutine
  Process <- MCProcess
  ProcessOf <- MCProcessOf
  Script = {s1}
  MaxScriptResend = 1
  NodeList <- MCNodeList
  Share <- MCShare
  Amount <- MCAmount
  Number = {0, 1, 2}
  List <- MCList
  Word <- MCWord
  Cent = 10
  Int64 = 128
  Null = Null
  Character <- MCCharacter
SPECIFICATION SmallSpec
INVARIANTS
  InsertsHideNothing
  RemovalsRepeatNothing
  NoScriptIsJustified
  RunsOnceAsReported
  AmountsExact
  TreeIsSound
  BindingsAreStable
  FiltersAgree
