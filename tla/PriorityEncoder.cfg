\* Precedence of the priority fields and of subgroups, over groups on both
\* sides of the 2^11 boundary where the 32-bit shift drops group bits.
CONSTANTS
  SubPriorities = {0, 1, 255}
  PubPriorities = {0, 128, 255}
  Groups = {0, 7, 2048}
  Subgroups = {0, 1}
  GroupOrders = {"OldestFirst", "NewestFirst"}
SPECIFICATION Spec
INVARIANTS PriorityFieldsDominate LowestSubgroupFirst
