SPECIFICATION FairSpec
CONSTANT MaxSpins = 3
PROPERTIES FwLockSucceedsAlone
