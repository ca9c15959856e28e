SPECIFICATION Spec
CONSTANTS
  Names = {a, b}
  Containers = {a, b}
  Targets = {b}
  Oses = {"linux"}
  DefaultName = a
  DefaultBackend = "docker"
  None = None
  MaxShells = 2
  Faults = {"daemon", "exit", "vanish", "crash", "ssh", "detect"}
INVARIANT TypeOK
INVARIANT RegistryInv
PROPERTY DeadShellsKept
PROPERTY ImplementsDirectory
