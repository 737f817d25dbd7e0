CONSTANTS
  Messages <- MCMessages
  MaxIn = 2
SPECIFICATION Spec
PROPERTIES
  TerminatorEndsText
