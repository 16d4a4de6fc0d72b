CONSTANTS
  mia = mia
  finn = finn
  ada = ada
  Users <- TwoUsers
  RoleOf <- MCRoleOf
  MaxBuffered = 1
  MaxFaults = 1
  MaxLosses = 0
  MaxDescribeErrors = 0
  MaxPartialUploads = 1
SPECIFICATION Spec
INVARIANTS
  TypeOK
  NoUnreadDecision
  TrailExplainsApproval
PROPERTIES
  ApprovalNeedsConsent
  UndoneOncePerCause
CHECK_DEADLOCK FALSE
