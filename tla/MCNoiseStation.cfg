CONSTANTS
  BufSize = 9
  Ramp = 3
  Units <- ThreeSpeeds
  Bursts <- OneOrTwo
  Patience <- OneToThree
  Pauses <- ZeroOrTwo
  FirstMsgs <- FewSigns
  LongCq <- MCLongCq
SPECIFICATION FairSpec
INVARIANTS
  TypeOK
  KeyingFits
  MessageIsPlayedOut
PROPERTIES
  NoiseLeaves
