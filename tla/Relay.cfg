SPECIFICATION Spec
CONSTANTS
  None = None
  seeker = seeker
  volunteer = volunteer
  Party <- MCParty
  MaxMessages = 1
  MessageBound = 2
  KeyBound = 2
  MishapBound = 1
  Allow = {"leave", "drop", "refresh", "kill", "early_key", "early_event", "end"}
SYMMETRY MCSymmetry
INVARIANTS
  SecretsAgree
  DeliveredInOrder
  KeysReachBoth
CHECK_DEADLOCK FALSE
