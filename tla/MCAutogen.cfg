SPECIFICATION FairSpec
CONSTANTS
  DeviceLists <- MCNetworks
  Policies = {"error", "skip", "replace"}
  Buf = 8
  NoInfo = noinfo
INVARIANTS
  
  NeverTwice
  DescriptorClosed

  
  
CHECK_DEADLOCK FALSE
