CONSTANTS
  mia = mia
  finn = finn
  ada = ada
  Users <- AdminOnly
  RoleOf <- MCRoleOf
  MaxBuffered = 1
  MaxFaults = 0
  MaxLosses = 0
  MaxDescribeErrors = 1
  MaxPartialUploads = 1
SPECIFICATION Spec
PROPERTIES
  UndoneOncePerCause
  ImplementsPolicy
CHECK_DEADLOCK FALSE
