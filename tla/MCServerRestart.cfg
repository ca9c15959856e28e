SPECIFICATION Spec
CONSTANTS
  Names = {a, b, t}
  Containers = {a, b}
  Targets = {t}
  Oses = {"linux"}
  DefaultName = t
  DefaultBackend = "ssh"
  None = None
  MaxShells = 1
  Faults = {"exit", "vanish", "crash", "ssh"}
INVARIANT ContainersKnown
