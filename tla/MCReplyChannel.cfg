SPECIFICATION FairSpec
CONSTANTS
  MaxMarks = 5
INVARIANTS
  ReplyInv
  LockedMarksWhole
  CompletionAfterAcceptance
  GoodbyeIsLast
  RepliesRead
PROPERTIES
  CommandsAnswered
