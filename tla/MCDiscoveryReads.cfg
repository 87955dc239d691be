CONSTANTS
  OtherService = OtherService
  MaxReads = 2
SPECIFICATION Spec
PROPERTY ReadSecured
