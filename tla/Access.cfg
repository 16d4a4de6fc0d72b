CONSTANTS
  admin = admin
  staff = staff
  seed = seed
  other = other
  short = short
  c1 = c1
  c2 = c2
  office = office
  User = {admin, staff}
  Admin = {admin}
  Stranger = Stranger
  Password = {seed, other, short}
  Strong = {seed, other}
  Seed = seed
  Client = {c1, c2}
  Address = {office}
  AddressOf <- MCAddressOf
  None = None
  MaxAttempts = 2
  Window = 2
  TokenTTL = 1
  MaxFaults = 1
SPECIFICATION FairSpec
INVARIANTS
  TypeOK
  FailuresBounded
PROPERTIES
  BlockLifts
  OverwritesWhatIsKnown
