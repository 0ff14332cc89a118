SPECIFICATION AllOperations
CONSTANT MaxNodes = 3
PROPERTY AppendsAtEnd
CHECK_DEADLOCK FALSE
