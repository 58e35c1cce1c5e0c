CONSTANT MaxCoros = 5
SPECIFICATION Spec
PROPERTY NoStarvation
