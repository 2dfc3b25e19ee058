SPECIFICATION FairSpec
CONSTANTS
  Sources = {"guardduty", "wazuh"}
  ExternalIds = {"id1", "id2"}
  Findings <- MCFindings
  Normalizable <- MCNormalizable
  MaxSends = 3
  MaxFaults = 1
CHECK_DEADLOCK FALSE
INVARIANTS
  IInv
  CreatedIsWhatIsStored
  OneCreationRecorded
PROPERTIES
  SentIsConfirmed
  LedgerSpec
