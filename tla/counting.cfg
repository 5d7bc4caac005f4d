\* Two workers.  IntMax is small, so that the number of some lines does not fit;
\* lists start with two places, so that they have to grow.  A worker without a
\* file dies of its assertion, and then the system stops.
SPECIFICATION Spec
CONSTANTS
  N = 2
  Word = {"a", "b", "c", "d", "a-c", "-d"}
  Hyphenated = {"a-c", "-d"}
  InFront <- MCFront
  NodeList = 2
  ResultList = 2
  IntMax = 7
  Corpora <- MCCorpora
  Arguments <- MCArguments
INVARIANTS
  TypeOK
  SearchFindsLines
  CountsAreRight
CHECK_DEADLOCK FALSE
