\* Two calls of Start, with a lidar or a capture; the lidar may go
\* silent at any byte.
CONSTANTS
  MaxStarts = 2
  Magic = 2
  Header = 2
  Clients <- StartIds
  Answers <- SomeAnswers
SPECIFICATION FairSpec
INVARIANTS TypeOK OneOfEach QuietAfterStop ContentWhole
PROPERTIES DeviceOverFile CallsReturn CorrectionLoaded
CHECK_DEADLOCK FALSE
