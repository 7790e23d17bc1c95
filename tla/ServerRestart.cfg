CONSTANTS
  FlagSets = {{"mqtt"}}
  Pages = {}
SPECIFICATION Spec
INVARIANTS
  DownOnlyOnRequest
