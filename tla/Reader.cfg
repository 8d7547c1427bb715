CONSTANT MaxItems = 3
SPECIFICATION Spec
PROPERTY ReaderEnds
CHECK_DEADLOCK FALSE
