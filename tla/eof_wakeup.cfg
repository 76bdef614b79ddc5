CONSTANTS
  MaxBytes = 2
  MaxMessages = 2
  MaxQueue = 1
SPECIFICATION FairSpec
PROPERTY EofNoticed
