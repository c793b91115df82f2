CONSTANTS
  Cells = 32
  Drivers = {"spi", "bpi"}
  WearOut = {"bpi"}
  PageSize = 2
  SubsectorSize = 4
  SectorSize = 8
  Byte = 3
  CapacityBits = 15
  Step = 8
  Segment0 = 16
  SpiCodes <- MCSpiCodes
  Asked <- MCAsked
  Reruns <- MCReruns
  Files <- MCFiles
  Slots <- MCSlots
  Runs = 2
  MayBeKilled = TRUE
SPECIFICATION FairFirmwareSpec
PROPERTIES
  EveryRunEnds
CHECK_DEADLOCK FALSE
