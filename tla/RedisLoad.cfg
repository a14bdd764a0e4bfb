SPECIFICATION RedisSpec
CONSTANTS
  a = a
  b = b
  c = c
  Files <- MCFiles
  Leftovers <- MCLeftovers
  MaxCols = 2
  Empty = Empty
  Word = Word
  Names <- MCNames
INVARIANTS
  RedisTypeOK
  SumIsOfTheFile
  EveryRowIsFound
  SchemaIsOfTheFile
  
CHECK_DEADLOCK FALSE
