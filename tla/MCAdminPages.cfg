CONSTANTS
  Texts = {"", "a", "b"}
  Dates = {"d1", "d2"}
  Rows = {"u1", "u2"}
  Hits <- MCHits
  MaxSearches = 3
  Names = {"ann", "bob", "cid"}
  NameOf <- MCNameOf
  MaxDialogs = 4
  Inputs = {"add", "redeem"}
  TelTexts = {"", "138", "139", "1 38"}
  Tels = {"138", "139"}
  Like <- MCLike
  Stripped <- MCStripped
  MaxKeys = 4
  None = None
SPECIFICATION LiveSpec
INVARIANTS
  ArrowTellsOrder
  BarTellsPage
  EditEndsWithDialog
  AddedNameWasAsked
  KeysFollowMenu
PROPERTIES
  TableSettles
  LastTypedIsAnswered
CHECK_DEADLOCK FALSE
