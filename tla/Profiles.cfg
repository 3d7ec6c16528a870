\* The commands about one profile, up to two at once, on one instance.
SPECIFICATION Spec
CONSTANTS
  one = one
  two = two
  Procs = {one, two}
  Apps = {1, 2}
  Worlds <- MCWorlds
  Lifetime = 3
  Buffer = 2
  Skew = 1
INVARIANTS SecretIsCurrent DeletedIsGone
PROPERTIES HandedTokenIsLive
\* Every command ends.
CHECK_DEADLOCK FALSE
