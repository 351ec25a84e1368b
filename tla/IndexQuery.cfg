CONSTANTS
  Times = {100, 150, 155, 200, 210}
  Ids = {1, 2}
SPECIFICATION Spec
PROPERTY QueryRightToTheSecond
