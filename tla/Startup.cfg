SPECIFICATION Spec
CONSTANTS
  Clients = {c1, c2}
  Envs <- MCEnvs
  NoEnv = NoEnv
  Default = 7
  MaxMints = 4
SYMMETRY ClientSymmetry
INVARIANTS StartupTypeOK DataReadable StartsAgain ClientsFollow ServesAsConfigured
PROPERTY KeyKept
