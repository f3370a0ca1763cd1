\* Two edits and four searches of an address box.
SPECIFICATION BoxSpec
CONSTANTS
  empty = empty  main = main  mainSt = mainSt  addrA = addrA  addrB = addrB
  street = street  a = a  b = b
  Texts = {empty, main, mainSt, addrA, addrB}
  Short = {empty}
  Empty = empty
  Streets = {street}
  Civics = {a, b}
  TextOf <- MCTextOf
  Lists <- MCLists
  PageEnds <- MCPageEnds
  NoStreet = NoStreet
  Nothing = Nothing
  MaxTyped = 2
  MaxSent = 4
  MaxLeft = 1
INVARIANTS
  BoxAgrees
PROPERTY
  IndicatorEnds
CHECK_DEADLOCK FALSE
