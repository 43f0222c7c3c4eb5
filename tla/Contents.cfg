\* Texts of up to four bytes, written and read in pieces of up to two.
CONSTANTS
  Chars = {x, y}
  NoText = NoText
  Zero = Zero
  AnyOffset = FALSE
  MaxLength = 4
  MaxPiece = 2
SPECIFICATION Spec
INVARIANT TypeOK
PROPERTY LikeARegularFile
