SPECIFICATION FairSpec
CONSTANTS
  Parts = {p1, p2, p3}
  Nothing = Nothing
  MaxWrites = 5
INVARIANTS NoTornRead AtMostOneBehind
PROPERTIES WriteEnds ImplementsRegister
