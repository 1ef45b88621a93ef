SPECIFICATION Spec
CONSTANTS
  UnicodeTexts <- PointTexts
  PolyTexts <- LetterTexts
  PolyOptions <- Tables
  MorseTexts <- CodeTexts
  MorseKeys <- Keys
INVARIANTS
  TypeOK
  FilesStandForText
  PolyRoundTrip
  MorseRoundTrip
