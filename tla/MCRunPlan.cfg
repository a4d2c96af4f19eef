SPECIFICATION Spec
CONSTANTS
  None = None
  Dashed <- MCDashed
  EqForms <- MCEqForms
  Templates <- MCTemplates
  Words <- MCWords
  Index <- MCIndex
  Backend <- MCBackend
  Edits <- MCEdits
  DeviceEdits <- MCDeviceEdits
  PortEdits <- MCPortEdits
  Sites <- MCSites
INVARIANTS PlanInv FrozenSnapshot ListensWhereMapped 
CHECK_DEADLOCK FALSE
