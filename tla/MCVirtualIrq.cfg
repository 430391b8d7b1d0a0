\* The slave is at line 1 of the master, if a program has said so, and has two
\* devices.  Another device is at line 2, behind the slave: it may come first
\* when the slave is masked.
CONSTANTS
  Lines = {0, 1, 2}
  Cascade = 1
  MasterDevices = {2}
  SlaveDevices = {0, 1}
  Masks = {0, 2}
  MasterLinks = {0, 2}
  SlaveLinks = {0, 1}
  MaxDepth = 2
  MaxOuts = 2
SPECIFICATION Spec
INVARIANTS Prompt
PROPERTIES ImplementsPc
