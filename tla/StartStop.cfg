CONSTANT MaxSent = 1
SPECIFICATION FairSpec
CONSTRAINT Started
 
PROPERTIES Stops
CHECK_DEADLOCK FALSE
