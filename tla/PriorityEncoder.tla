-------------------------- MODULE PriorityEncoder --------------------------
(***************************************************************************)
(* The transport stream priority that MoQSession gives every data stream   *)
(* it opens (getStreamPriority and its two helpers, MoQSession.cpp 17-56). *)
(* The code comment and the spec state the precedence the encoding must   *)
(* realise, lower value first:                                             *)
(*   (1) subscriber priority, (2) publisher priority, (3) group order,     *)
(*   (4) lowest subgroup id.                                               *)
(* The integer widths of the C++ are kept: the group bits are a uint32_t   *)
(* that is shifted as a uint32_t before it is widened to 64 bits.          *)
(*                                                                         *)
(* The state is the pair of data streams the scheduler is choosing between;*)
(* every step replaces them by two other streams.                          *)
(***************************************************************************)
EXTENDS Integers, Bitwise

CONSTANTS
  SubPriorities,   \* subscriber priorities (uint8) to try
  PubPriorities,   \* publisher priorities (uint8) to try
  Groups,          \* group ids (uint64) to try
  Subgroups,       \* subgroup ids (uint64) to try
  GroupOrders      \* subset of {"OldestFirst", "NewestFirst"}

ASSUME SubPriorities \subseteq 0..255 /\ PubPriorities \subseteq 0..255
ASSUME GroupOrders \subseteq {"OldestFirst", "NewestFirst"}

VARIABLES streams  \* <<a, b>>: two open data streams with their parameters

vars == <<streams>>

(* A uint64_t is held as three digits <<hi, mid, lo>> of base 2^21: bits   *)
(* 42..63, 21..41 and 0..20 (TLC's integers are 32-bit).  The fields are  *)
(* combined with bitwise or, digit by digit, as the C++ does.              *)
Or64(x, y) == <<x[1] | y[1], x[2] | y[2], x[3] | y[3]>>
Less64(x, y) ==
  \/ x[1] < y[1]
  \/ x[1] = y[1] /\ x[2] < y[2]
  \/ x[1] = y[1] /\ x[2] = y[2] /\ x[3] < y[3]

\* constexpr uint32_t IdMask = 0x1FFFFF;
IdMask == 2^21 - 1

\* static_cast<uint32_t>(x) & IdMask keeps the low 21 bits of x.
Low21(x) == x % 2^21

\* Fault model: the NewestFirst inversion applied to subgroups as well.
subgroupPriorityBitsInverted(subgroupID) == IdMask - Low21(subgroupID)

groupPriorityBits(groupOrder, group) ==
  LET truncGroup == Low21(group)
  IN  IF groupOrder = "OldestFirst" THEN truncGroup ELSE IdMask - truncGroup

subgroupPriorityBits(subgroupID) == Low21(subgroupID)

\* uint64_t(subPri) << 50 and uint64_t(pubPri) << 42 land in the hi digit.
SubPriField(subPri) == <<subPri * 2^8, 0, 0>>
PubPriField(pubPri) == <<pubPri, 0, 0>>
\* groupBits << 21 is a uint32_t shift: bits 32 and up are discarded, so
\* only the low 11 bits of groupBits reach bits 21..31 of the result.
GroupField(groupBits) == <<0, groupBits % 2^11, 0>>
SubgroupField(subgroupBits) == <<0, 0, subgroupBits>>

\* Fault model: publisher priority shifted one bit too far (<< 43).
getStreamPriorityPubShift43(groupID, subgroupID, subPri, pubPri, pubGroupOrder) ==
  Or64(Or64(SubPriField(subPri), <<pubPri * 2, 0, 0>>),
       Or64(GroupField(groupPriorityBits(pubGroupOrder, groupID)),
            SubgroupField(subgroupPriorityBits(subgroupID))))

\* (uint64(subPri) << 50) | (uint64(pubPri) << 42) | (groupBits << 21)
\*   | subgroupBits
getStreamPriority(groupID, subgroupID, subPri, pubPri, pubGroupOrder) ==
  LET groupBits    == groupPriorityBits(pubGroupOrder, groupID)
      subgroupBits == subgroupPriorityBits(subgroupID)
  IN  Or64(Or64(Or64(SubPriField(subPri), PubPriField(pubPri)),
                GroupField(groupBits)),
           SubgroupField(subgroupBits))

Stream == [group : Groups, subgroup : Subgroups, subPri : SubPriorities,
           pubPri : PubPriorities, order : GroupOrders]

Priority(s) ==
  getStreamPriority(s.group, s.subgroup, s.subPri, s.pubPri, s.order)

Init == \E a, b \in Stream : streams = <<a, b>>

\* The session opens another stream in place of one of the two
\* (TrackPublisherImpl::beginSubgroup, FetchPublisherImpl::beginFetch).
OpenStream == \E i \in 1..2, s \in Stream : streams' = [streams EXCEPT ![i] = s]

Next == OpenStream

Spec == Init /\ [][Next]_vars

-----------------------------------------------------------------------------
\* The position of a group in the track's group order.
GroupRank(s) == IF s.order = "OldestFirst" THEN s.group ELSE -s.group

\* Reference definition of the precedence (spec section 4.1): a goes first.
SamePriorities(a, b) == a.subPri = b.subPri /\ a.pubPri = b.pubPri
PriorityFirst(a, b) ==
  \/ a.subPri < b.subPri
  \/ a.subPri = b.subPri /\ a.pubPri < b.pubPri
GroupFirst(a, b) ==
  /\ SamePriorities(a, b) /\ a.order = b.order
  /\ GroupRank(a) < GroupRank(b)
SubgroupFirst(a, b) ==
  /\ SamePriorities(a, b) /\ a.order = b.order /\ a.group = b.group
  /\ a.subgroup < b.subgroup

\* Subscriber priority, then publisher priority, decide the transport
\* order of two streams whatever their groups and subgroups are: no group
\* or subgroup bits of getStreamPriority spill into the priority fields.
PriorityFieldsDominate ==
  LET a == streams[1]  b == streams[2]
  IN  PriorityFirst(a, b) => Less64(Priority(a), Priority(b))

\* Among streams of one group with equal priorities, the lower subgroup
\* id is sent first (subgroupPriorityBits).
LowestSubgroupFirst ==
  LET a == streams[1]  b == streams[2]
  IN  SubgroupFirst(a, b) => Less64(Priority(a), Priority(b))

\* Among streams with equal priorities, groups are sent in the track's
\* group order, for every group id the 21 group bits can hold
\* (groupPriorityBits shifted into bits 21..41).
GroupOrderRespected ==
  LET a == streams[1]  b == streams[2]
  IN  (GroupFirst(a, b) /\ a.group <= IdMask /\ b.group <= IdMask) => Less64(Priority(a), Priority(b))
=============================================================================
