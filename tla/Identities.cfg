CONSTANTS
  Names = {alice, bob}
  Procs = {p1, p2}
  Spellings <- Typed
  Ttls = {0, 1}
  NoEntry = NoEntry
  NoRequest = NoRequest
  MaxKeys = 3
  MaxUses = 1
  MaxTime = 1
SPECIFICATION Spec
SYMMETRY Symm
INVARIANTS TypeOK IdentityKept TokensExact SealedForHolders PlainOnlyIfOpened
CHECK_DEADLOCK FALSE
