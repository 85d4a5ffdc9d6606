SPECIFICATION Spec
CONSTANTS
  ToLower <- MCToLower
  Messages <- MCMessages
  Objects = {"s1", "s2"}
  Texts <- MCTexts
  Cased <- MCCased
  Sep = ","
  kMaxBufferSize = 80
  Formatted <- MCFormatted
  WithTls = FALSE
  Width16 = 8
  IntMax = 15
  Port = 3
  Values <- MCValues
  Answers <- MCAnswers
  port = 18081
  Files <- MCFiles
  CommandLines <- MCCommandLines
  LongOptions <- MCLongOptions
  Directories <- MCDirectories
  ExeDir <- MCExeDir
  StartDir <- Home
  ImageNames <- MCImageNames
  InfoFiles <- MCInfoFiles
  NoncesFiles <- MCNoncesFiles
  Extra <- MCExtra
  Rank <- MCRank
CHECK_DEADLOCK FALSE
INVARIANT
  OfflineIfAsked
