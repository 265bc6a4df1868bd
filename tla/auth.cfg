SPECIFICATION Spec
CONSTANTS
  Device = {1, 2}
  Call = {1, 2}
  Owner <- MCOwner
  Clocks = {"ordered", "any"}
  SignedIn <- BothSignedIn
  MaxTime = 1
  MaxRequests <- MCRequests
  MaxFaults = 1
INVARIANTS
  TypeOK
  OneSession
  AlarmHasCause
  DeviceAgrees
PROPERTY
  NoRevival
