\* Programs stop: at their end, or at the places that Ends names.
CHECK_DEADLOCK FALSE
SPECIFICATION Spec
CONSTANTS
  Procs = {0, 1, 2, 3, 4, 5, 6}
  Programs = {"class", "first", "sign", "sop", "pol", "tree", "throw", "list",
              "study", "report", "stones", "relay", "office"}
  ClassSize = 3
  Parts = 2
  MaxIssues = 1
  Signers = 3
  Pages = 2
  Boxes = 2
  MaxDonors = 2
  Inner = 3
  Throwers = 3
  Balls = 3
  Bins = 2
  Length = 3
  StudentNum = 2
  Rounds = 3
  Number = 2
  Enough = 3
  Workers = 2
  ChildCount = 2
  MaxCalls = 3
  Officials = 3
  MaxDocuments = 3
INVARIANTS
  OnlyMergedLost
  OneAnswerPerPart
  AllReaped
  PagesSigned
  BoxesCount
  TreeWaits
  CountsAddUp
PROPERTIES
  ProgramsEnd
