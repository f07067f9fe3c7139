-------------------------- MODULE DtapQuotaShares --------------------------
(***************************************************************************)
(* How dtap_scheduler.c shares the buffers of the controller among the     *)
(* links: every link has one buffer, and the rest, the bonus pool, is      *)
(* divided in proportion to the packets that are queued for each link, the *)
(* remainder going to the links with the largest fractions.                *)
(*                                                                         *)
(* LcidQuota says what the loops of DTAP_RecalcLcidQuota compute; module   *)
(* DtapQuota takes the loops step by step and compares.  "links" is        *)
(* g_lcidBufferList and "queued" the queuedPktCnt of its nodes.            *)
(***************************************************************************)
EXTENDS Naturals, Sequences, FiniteSets, Functions

DTAP_MIN_BUFFER_NUM == 1

\* The packets queued for all links, counted as <<link, number>>.
TotalQueuedPktCnt(links, queued) ==
    Cardinality(UNION {{l} \X (1 .. queued[l]) : l \in Range(links)})

BonusPool(links, apBufferNum) ==
    IF apBufferNum > Len(links) * DTAP_MIN_BUFFER_NUM
    THEN apBufferNum - Len(links) * DTAP_MIN_BUFFER_NUM
    ELSE 0

\* The share of one link, rounded down, and what the rounding cut off (times the total).
FloorBonus(pool, n, total) == (pool * n) \div total
BonusFrac(pool, n, total) == (pool * n) % total

\* The link at place i is before the one at place j in the order of the top-up: the larger
\* fraction first, and of equal ones the first in the list.
ToppedUpBefore(links, frac, i, j) ==
    \/ frac[links[i]] > frac[links[j]]
    \/ frac[links[i]] = frac[links[j]] /\ i < j

LcidQuota(links, queued, apBufferNum) ==
    LET total == TotalQueuedPktCnt(links, queued)
        pool == BonusPool(links, apBufferNum)
        floor == [l \in Range(links) |-> FloorBonus(pool, queued[l], total)]
        frac == [l \in Range(links) |-> BonusFrac(pool, queued[l], total)]
        rem == pool - SumFunction(floor)
        toppedUp(j) == /\ frac[links[j]] > 0
                       /\ Cardinality({i \in DOMAIN links : ToppedUpBefore(links, frac, i, j)}) < rem
        extra == {links[j] : j \in {k \in DOMAIN links : toppedUp(k)}}
    IN  IF total = 0
        THEN [l \in Range(links) |-> DTAP_MIN_BUFFER_NUM]
        ELSE [l \in Range(links) |->
                DTAP_MIN_BUFFER_NUM + floor[l] + (IF l \in extra THEN 1 ELSE 0)]
=============================================================================
