CONSTANTS
  Processes = {h1, h2}
  Tries <- MCTries
  MaxPrograms = 4
  MaxNames = 3
SYMMETRY Hosts
SPECIFICATION FilesSpec
INVARIANTS BuiltFromItsSource ReturnsWhileNamesLast
