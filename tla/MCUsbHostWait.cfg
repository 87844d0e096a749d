SPECIFICATION FairSpec
CONSTANT Keys <- MCKeys
PROPERTY WaitEnds
