SPECIFICATION Spec
CONSTANTS
  Words <- MCWords
  Beheaded <- MCBeheaded
  Cropped <- MCCropped
  Slots = 4
  Images <- MCImages
  Block = 9
  Args <- MCArgs
  Texts <- MCTexts
  Keys <- MCKeys
  NameSize = 2
  Back = "back"
  Code <- MCCode
  Absent = Absent
  Quiet = Quiet
  Misled = Misled
  Yes = Yes
  No = No
INVARIANTS
  NamedUnlessCut
PROPERTIES
  KeepsFiles
VIEW MCView
CHECK_DEADLOCK FALSE
