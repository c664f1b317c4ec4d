SPECIFICATION Spec
CONSTANTS
  None = None
  Providers = {gemini, ollama, custom}
  Editable = {ollama, custom}
  Fixed = {gemini}
  Unlisted = {custom}
  Mixture = {gemini, ollama}
  DefaultProvider = gemini
  Keys = {k1, k2}
  Calls = {c1, c2}
  MaxEdits = 4
INVARIANTS TypeOK 
 
CHECK_DEADLOCK FALSE
