SPECIFICATION FairSpec
CONSTANTS
  VMs = {v1}
  MaxEvents = 1
PROPERTY NewVMServedEventually
