----------------------------- MODULE TargetPlan -----------------------------
(***************************************************************************)
(* From the targets a user enters to the assignments of the nodes          *)
(* (internal/scan): CIDR blocks and ranges are expanded up to a limit      *)
(* (domain/target_expand.go), and CreateTask and dispatch cut the list     *)
(* into one shard per online node.  Addresses have AddrBits bits.  The     *)
(* initial states are the inputs, a step is a round of one of the loops.   *)
(***************************************************************************)
EXTENDS Naturals, Sequences

CONSTANTS
  AddrBits,
  HostName,      \* targets that are no addresses
  MaxItems,      \* bound: items entered
  MaxExpansion,  \* bound: the limits tried are 1..MaxExpansion
  MaxOnline      \* bound: online nodes

ASSUME PlanAssumption ==
  /\ AddrBits \in Nat /\ MaxItems \in Nat /\ MaxExpansion \in Nat \ {0} /\ MaxOnline \in Nat
  /\ \A k \in 0..AddrBits : 2^k \in Nat \ {0}

VARIABLES
  raw,        \* the items entered
  limit,      \* maxOut
  online,     \* the number of nodes dispatch has found
  expansion,  \* expandTargets: [pc, item, walked, out, total, truncated]
  slicing     \* dispatch: [pc, next, idx, shards]
tpVars == <<raw, limit, online, expansion, slicing>>

Addr == 0..(2^AddrBits - 1)
Item ==
  [kind : {"host"}, host : HostName] \cup [kind : {"ip"}, addr : Addr]
    \cup [kind : {"cidr"}, addr : Addr, ones : 0..AddrBits]
    \cup [kind : {"range"}, addr : Addr, last : Addr]

\* What an item stands for: count targets, the first of them, the others next.
CIDRCount(item) == 2^(AddrBits - item.ones)
CIDRBase(item) == item.addr - (item.addr % CIDRCount(item))
RangeReversed(item) == item.kind = "range" /\ item.last < item.addr
ItemCount(item) ==
  CASE item.kind = "cidr" -> CIDRCount(item)
    [] item.kind = "range" -> item.last - item.addr + 1
    [] OTHER -> 1
ItemTarget(item, i) ==
  CASE item.kind = "host" -> <<"host", item.host>>
    [] item.kind = "cidr" -> <<"addr", CIDRBase(item) + i - 1>>
    [] OTHER -> <<"addr", item.addr + i - 1>>
Single(item) == item.kind \in {"host", "ip"}

NotSliced == [pc |-> "none", next |-> 1, idx |-> 0, shards |-> <<>>]
TpIdle ==
  /\ online = 0 /\ slicing = NotSliced
  /\ expansion = [pc |-> "items", item |-> 1, walked |-> 0,
                  out |-> <<>>, total |-> 0, truncated |-> FALSE]
TpInit ==
  /\ raw \in UNION {[1..n -> Item] : n \in 1..MaxItems}
  /\ limit \in 1..MaxExpansion /\ TpIdle

(* ---- expandTargets, for PreviewExpandTargets and ExpandTargets ---- *)
Current == raw[expansion.item]
Expanding == expansion.pc = "items" /\ expansion.item <= Len(raw)
Seen == {expansion.out[i] : i \in DOMAIN expansion.out}
NotFull == Len(expansion.out) < limit

\* Of a block, expandCIDR lists no more than the limit; the loop over a range
\* stops once the list is full.
Walk(item) == IF item.kind = "cidr" /\ CIDRCount(item) > limit THEN limit ELSE ItemCount(item)
MoreToWalk ==
  /\ expansion.walked < Walk(Current)
  /\ Current.kind = "range" => NotFull

\* One target more: not if it is there already, nor when the list is full.
Emit ==
  LET target == ItemTarget(Current, expansion.walked + 1)
      wanted == target \notin Seen IN
  /\ Expanding /\ ~RangeReversed(Current) /\ MoreToWalk
  /\ expansion' =
       [expansion EXCEPT
          !.walked = expansion.walked + 1,
          !.out = IF wanted /\ NotFull THEN Append(expansion.out, target) ELSE expansion.out,
          !.truncated = expansion.truncated \/ (Single(Current) /\ wanted /\ ~NotFull)]
  /\ UNCHANGED <<raw, limit, online, slicing>>

\* The total counts a target as often as it is named.
EndItem ==
  LET count == ItemCount(Current)
      total == expansion.total + count IN
  /\ Expanding /\ ~RangeReversed(Current) /\ ~MoreToWalk
  /\ expansion' =
       [expansion EXCEPT
          !.item = expansion.item + 1, !.walked = 0, !.total = total,
          !.truncated = \/ expansion.truncated
                        \/ (~Single(Current) /\ count > expansion.walked)
                        \/ (Current.kind = "range" /\ total > limit)]
  /\ UNCHANGED <<raw, limit, online, slicing>>

RefuseItem ==
  /\ Expanding /\ RangeReversed(Current)
  /\ expansion' = [expansion EXCEPT !.pc = "invalid"]
  /\ UNCHANGED <<raw, limit, online, slicing>>

EndExpansion ==
  /\ expansion.pc = "items" /\ expansion.item > Len(raw)
  /\ expansion' = [expansion EXCEPT !.pc = "done",
                                    !.truncated = expansion.truncated \/ expansion.total > limit]
  /\ UNCHANGED <<raw, limit, online, slicing>>

(* ---- CreateTask: ExpandTargets refuses what exceeds the limit ---- *)
\* dedupTargets leaves the list as it is: see Distinct in the proofs.
AcceptTargets ==
  /\ expansion.pc = "done" /\ slicing.pc = "none"
  /\ IF expansion.total > limit
     THEN slicing' = [slicing EXCEPT !.pc = "refused"] /\ UNCHANGED online
     ELSE slicing' = [slicing EXCEPT !.pc = "cut"] /\ online' \in 0..MaxOnline
  /\ UNCHANGED <<raw, limit, expansion>>

(* ---- dispatch: a shard is a window on the list, as a slice of Go is ---- *)
\* The first extra shards take one target more.
ShardSizeOff(n, m, i) == (n \div m) + (IF i <= (n % m) + 1 THEN 1 ELSE 0)
ShardSize(n, m, i) == (n \div m) + (IF i <= n % m THEN 1 ELSE 0)
\* No assignment for an empty shard.
CutShard ==
  LET n == Len(expansion.out)
      from == slicing.idx
      size == ShardSize(n, online, slicing.next)
      to == IF from + size > n THEN n ELSE from + size IN
  /\ slicing.pc = "cut" /\ slicing.next <= online
  /\ slicing' =
       [slicing EXCEPT
          !.next = slicing.next + 1, !.idx = to,
          !.shards = IF to = from THEN slicing.shards
                     ELSE Append(slicing.shards, [from |-> from, to |-> to])]
  /\ UNCHANGED <<raw, limit, online, expansion>>
\* No assignment at all without an online node.
EndDispatch ==
  /\ slicing.pc = "cut" /\ slicing.next > online
  /\ slicing' = [slicing EXCEPT !.pc = "done"]
  /\ UNCHANGED <<raw, limit, online, expansion>>

TpNext == Emit \/ EndItem \/ RefuseItem \/ EndExpansion \/ AcceptTargets \/ CutShard \/ EndDispatch
TpSpec == TpInit /\ [][TpNext]_tpVars

(* ---- properties ---- *)

TpTypeOK ==
  /\ limit \in 1..MaxExpansion /\ online \in 0..MaxOnline
  /\ expansion.pc \in {"items", "done", "invalid"} /\ expansion.item \in 1..(Len(raw) + 1)
  /\ Len(expansion.out) <= limit
  /\ slicing.pc \in {"none", "refused", "cut", "done"} /\ slicing.next \in 1..(online + 1)
  /\ slicing.idx \in 0..Len(expansion.out)

\* The targets the user named, with no order and no limit.
NamedBy(item) == {ItemTarget(item, j) : j \in 1..ItemCount(item)}
AllNamed == UNION {NamedBy(raw[i]) : i \in DOMAIN raw}

\* The positions a shard takes.
Window(shard) == (shard.from + 1)..shard.to
Size(shard) == shard.to - shard.from

\* A plan that was accepted scans every target that was named, each of them on
\* one node and once; no node has two targets more than another, and none is
\* idle while there are targets enough.
ShardsCover ==
  slicing.pc = "done" /\ online > 0 =>
    LET s == slicing.shards
        out == expansion.out IN
    /\ UNION {{out[p] : p \in Window(s[i])} : i \in DOMAIN s} = AllNamed
    /\ \A i, j \in DOMAIN s : \A p \in Window(s[i]), q \in Window(s[j]) :
         out[p] = out[q] => i = j /\ p = q
    /\ \A i, j \in DOMAIN s : Size(s[i]) > 0 /\ Size(s[i]) <= Size(s[j]) + 1
    /\ Len(s) <= online /\ (Len(out) >= online => Len(s) = online)

\* A preview says whether it was cut off, and one that was not is complete.
PreviewTruthful ==
  expansion.pc = "done" =>
    /\ Seen \subseteq AllNamed /\ Len(expansion.out) <= limit
    /\ expansion.truncated <=> (expansion.total > limit)
    /\ ~expansion.truncated => Seen = AllNamed

\* Neither expanding the input nor cutting it into shards loses or repeats a
\* target, whatever blocks and ranges overlap and whatever the limit
\* (domain/target_expand.go, service.go sliceTargets).
PlanCovers == ShardsCover /\ PreviewTruthful
=============================================================================
