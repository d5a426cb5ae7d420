CONSTANTS
  NoReg = NoReg
  NoCpuReg = NoCpuReg
  Spill = Spill
  CpuRegs <- MCCpuRegs
  CalleeSave <- MCCalleeSave
  Pinned <- MCPinned
  PinnedTo <- MCPinnedTo
  Bodies <- MCBodies
  LiveOut <- MCLiveOut
  FunOut <- MCFunOut
  RangeReg <- MCRangeReg
  RangeBodies <- MCRangeBodies
  RangeLiveOuts <- MCRangeLiveOuts
SPECIFICATION AllocSpec
INVARIANTS
  NoUnitHeldTwice
  MeaningPreserved
  VirtualRangesExact
  CpuRangesCover
  LacExact
  UsesPrecedeDefs
CHECK_DEADLOCK FALSE
