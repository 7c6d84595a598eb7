CONSTANTS
  None = None
  Deliveries <- MCDeliveries
  Sites <- MCSites
  Addresses = {"mail"}
  Numbers = {"cell", "office", "desk"}
  Colours = {"hex"}
  Plain <- MCPlain
  Crc <- MCCrc
  Int4Max = 9
  MaxJobs = 3
  MaxToggles = 1
  MaxFaults = 1
  MaxTries = 2
CHECK_DEADLOCK FALSE
SPECIFICATION Spec
INVARIANT KeyTellsRow
PROPERTY EditsKeepTheListing
