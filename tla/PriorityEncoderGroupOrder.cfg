\* Group order precedence for group ids below 2^21 (spec 4.1): expected to
\* fail for groups 2048 apart, whose bits the 32-bit shift discards.
CONSTANTS
  SubPriorities = {0}
  PubPriorities = {0}
  Groups = {0, 1, 7, 2048, 2049}
  Subgroups = {0}
  GroupOrders = {"OldestFirst", "NewestFirst"}
SPECIFICATION Spec
INVARIANTS GroupOrderRespected
