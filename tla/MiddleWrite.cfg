\* The same, with writes that change the middle of a text.
CONSTANTS
  Chars = {x, y}
  NoText = NoText
  Zero = Zero
  AnyOffset = TRUE
  MaxLength = 4
  MaxPiece = 2
SPECIFICATION Spec
PROPERTY LikeARegularFile
