SPECIFICATION Spec
SYMMETRY Alike
CONSTANTS
  aliasA = aliasA
  fileA = fileA
  fileB = fileB
  adapter = adapter
  None = None
  Aliases = {aliasA}
  Sources = {fileA, fileB}
  Contents = {c1, c2}
  FileNames = {adapter}
  FileName <- SameName
  Workers = {w1, w2}
  Boot = boot
  Startup <- OneStartup
  MaxCrashes = 1
INVARIANT RegisteredIsStored
INVARIANT ChecksumIsOfFile
