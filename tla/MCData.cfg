SPECIFICATION DataSpec
CONSTANTS
  Lists = {l1, l2}
  Items = {x1, x2, x3, x4}
  Null = null
  K1 = k1
  KeyValues = {k1, k2, k3, k4}
  Elements <- ElementValues
  KeyOf <- FirstOf
  Empty = empty
  MaxHash = 7
  MinCapacity = 2
  MaxReserve = 4
  Objects = {o1, o2}
  ObjectSizes = {1, 3}
  MaxObjects = 3
  MaxReserved = 3
  Junk = junk
  Chars = {a, b}
  Nul = nul
  MaxSize = 4
  SizeWidth = 4
  TextSizes <- TextSizeValues
  BodySizes <- BodySizeValues
  MaxFields = 2
SYMMETRY Symmetry
INVARIANTS
  Linked
  Findable
  RoomLeft
  EditsAreExact
  SavedInOrder
  MessagesAreSent
  EachIsTaken
  WrittenExactly
PROPERTIES
  ImplementsSequencing
  ImplementsDictionary
  VectorIsRow
CHECK_DEADLOCK FALSE
