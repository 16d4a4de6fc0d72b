CONSTANTS
  mia = mia
  finn = finn
  ada = ada
  Users <- TwoUsers
  RoleOf <- MCRoleOf
  MaxBuffered = 1
  MaxFaults = 0
  MaxLosses = 1
  MaxDescribeErrors = 0
  MaxPartialUploads = 0
SPECIFICATION FairSpec
PROPERTIES
  StuckIsRestarted
  EveryInvoiceDecided
CHECK_DEADLOCK FALSE
