\* All command lines of up to three words of fourteen.
SPECIFICATION FairSpec
CONSTANTS
  Word <- MCWord
  MaxWords = 3
INVARIANTS
  TypeOK
  ParsesAsMeant
  ClusterIsCurrent
PROPERTIES
  ParsingEnds
CHECK_DEADLOCK FALSE
