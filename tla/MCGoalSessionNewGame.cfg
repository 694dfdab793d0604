CONSTANTS
  Places = {p1, p2}
  MaxSaves = 3
SPECIFICATION Spec
PROPERTY NewGameRedone
