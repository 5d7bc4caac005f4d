\* Up to three documents, queries of up to three words of which two count, and
\* any scores.  The user need not type, and the program may have ended.
SPECIFICATION EngineSpec
CONSTANTS
  Word <- MCWord
  Length <- MCLength
  Files <- MCFiles
  Queries <- MCQueries
  Result <- MCResult
  MaxResults = 3
  Score <- MCScore
  K = 2
  MaxWords = 2
  Width = 32
  NodeList = 2
  ResultList = 2
  IntMax = 100
INVARIANTS
  TypeOK
  IndexIsExact
  LookupsSucceed
  ShownAreBest
  MarksUnderWords
  OverrunByOne
PROPERTIES
  SearchEnds
CHECK_DEADLOCK FALSE
