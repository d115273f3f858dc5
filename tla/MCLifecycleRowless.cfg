\* A lidar whose answer has return code 0 and no row.
CONSTANTS
  MaxStarts = 1
  Magic = 2
  Header = 2
  Clients <- StartIds
  Answers <- SomeAnswers
SPECIFICATION Spec
INVARIANTS FileStandsIn
CHECK_DEADLOCK FALSE
