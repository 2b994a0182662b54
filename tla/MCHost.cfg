SPECIFICATION Spec
CONSTANT None = None
INVARIANTS AudioInv MachineInv DesktopInv
CHECK_DEADLOCK FALSE
