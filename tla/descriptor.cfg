CONSTANTS
  Objs = {a, b}
  Fds = {0, 1, 2, 3}
  None = None
  Broken = Broken
SPECIFICATION Spec
INVARIANTS
  TypeOK
  NoForeignClose
  NoDescriptorLeak
