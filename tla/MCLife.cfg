\* One execution stream, the default of examples/server.cpp, and backends that block.
CONSTANTS
  Handler = {h1, h2}
  UUID = {u1, u2}
  NilUUID = NilUUID
  NoToken = NoToken
  TornToken = TornToken
  Token = {NoToken}
  Owner = Owner
  Reader = Reader
  Unlocked = Unlocked
  Streams = 1
  Blocking = {"make", "destroy", "use"}
  Finalizing = TRUE
  MaxEntries = 3
SYMMETRY Symmetry
SPECIFICATION Spec
INVARIANTS
  TypeOK
  ScanSound
  Snapshot
  MembersExist
  Configured
  IInv
  StreamInv
