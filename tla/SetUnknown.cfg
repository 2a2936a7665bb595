SPECIFICATION Spec
CONSTANTS
  a = a
  b = b
  Threads = {a, b}
  NoThread = NoThread
  NoValue = NoValue
  NULL = NULL
  Root = ""
  Names = {"s", "n", "k", "odd"}
  Pieces <- AllPieces
  Marks = {";q"}
  Slashed <- WithSlash
  Bare <- WithoutSlash
  KeyText = "k="
  NullText = "(null)"
  Odd = "odd"
  MaxWidth = 4
  SetCalls <- Settable
  GetKeys <- Read
  Files <- SomeFiles
  DICTMINSZ = 2
  MaxFailures = 0
  Debris <- Behind
SYMMETRY Symm
PROPERTY UnknownKeyRefused
