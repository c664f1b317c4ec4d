SPECIFICATION Spec
CONSTANTS
  None = None
  s1 = s1  s2 = s2  h2 = h2
  Types = {"proxmox", "prometheus"}
  Names = {n1}
  Addresses = {a1}
  Heads = {h1, h2}
  DefaultHead = h1
  Secrets = {s1}
  Padded = {}
  Stem <- MCPlain
  Pasted = {}
  Calls = {c1}
  MaxActs = 5
INVARIANTS TypeOK TokenFitsType
PROPERTIES UntouchedEditAuthenticates
CHECK_DEADLOCK FALSE
