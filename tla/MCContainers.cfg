\* The dictionary: three keys, two of which are enough for the binary search; room for
\* none or two entries until the array grows; a stamp that wraps after three updates.
\* Collections: an unsigned int of three bits, so that there is room for three elements.
\* Data: the same unsigned int, and pages of four bytes.  Strings of up to two
\* characters, and data of up to five bytes to compare them with; numbers of up to
\* three bits.
CONSTANTS
  o1 = o1
  o2 = o2
  o3 = o3
  Objects = {o1, o2, o3}
  Null = Null
  RankOf <- MCRank
  Width = 8
  Size = 2
  Increments = {0, 3}
  Default = 2
  Stamps = 3
  Keys = {10, 20, 30}
  Values = {v1, v2}
  ScanLimit = 1
  Increment = 2
  DictionaryStamps = 3
  PageSize = 4
  Least = 3
  Chars = {0, 1, 2}
  MaxLength = 3
  Bits = 3
SPECIFICATION MCSpec
INVARIANTS SearchesAgree RetainsAreBalanced   
PROPERTIES ImplementsStore
