\* Ticks of 10 ms and the code's own constants; lines at any distance.
SPECIFICATION FairSpec
CONSTANTS
  Window = 10
  Cap = 10
PROPERTIES
  BurstsAreSent
