----------------------------- MODULE DtapQuota -----------------------------
(***************************************************************************)
(* DTAP_RecalcLcidQuota and DTAP_AllocLcidQuota of dtap_scheduler.c, one   *)
(* turn of the top-up loop at a time, over every number of queued packets  *)
(* and every size of the controller's buffer up to the bounds.             *)
(***************************************************************************)
EXTENDS DtapQuotaShares

CONSTANTS
    Links,       \* g_lcidBufferList, in the order in which the links were connected
    MaxQueued,   \* bound: the packets queued for one link
    MaxBuffer    \* bound: g_apBufferNum (uint8_t)

ASSUME QuotaAssumption ==
    /\ Links \in Seq(Range(Links)) /\ IsInjective(Links)
    /\ MaxQueued \in Nat /\ MaxBuffer \in 0 .. 255

VARIABLES
    queued,       \* queuedPktCnt of every link
    apBufferNum,  \* g_apBufferNum
    quota,        \* quota of every link
    rem,          \* the turns of the top-up loop that are left
    pc

vars == <<queued, apBufferNum, quota, rem, pc>>

Lcid == Range(Links)
Total == TotalQueuedPktCnt(Links, queued)
Pool == BonusPool(Links, apBufferNum)
Floor(l) == FloorBonus(Pool, queued[l], Total)
Frac(l) == BonusFrac(Pool, queued[l], Total)

Init ==
    /\ queued \in [Lcid -> 0 .. MaxQueued]
    /\ apBufferNum \in 0 .. MaxBuffer
    /\ quota = [l \in Lcid |-> 0]
    /\ rem = 0
    /\ pc = "start"

\* No link has a packet: every link falls back to the minimum.
NoDemand ==
    /\ pc = "start" /\ Total = 0
    /\ quota' = [l \in Lcid |-> DTAP_MIN_BUFFER_NUM]
    /\ pc' = "done"
    /\ UNCHANGED <<queued, apBufferNum, rem>>

\* Mutant of ShareOut: the top-up loop stops one turn early.
ShareOutOneShort ==
    LET left == Pool - SumFunction([l \in Lcid |-> Floor(l)]) IN
    /\ pc = "start" /\ Total # 0
    /\ quota' = [l \in Lcid |-> DTAP_MIN_BUFFER_NUM + Floor(l)]
    /\ rem' = IF left > 0 THEN left - 1 ELSE 0
    /\ pc' = "topup"
    /\ UNCHANGED <<queued, apBufferNum>>

\* The first pass: shares in proportion, rounded down.
ShareOut ==
    /\ pc = "start" /\ Total # 0
    /\ quota' = [l \in Lcid |-> DTAP_MIN_BUFFER_NUM + Floor(l)]
    /\ rem' = Pool - SumFunction([l \in Lcid |-> Floor(l)])
    /\ pc' = "topup"
    /\ UNCHANGED <<queued, apBufferNum>>

\* Mutant of Candidates: a link may be topped up again.
CandidatesAgain == {i \in DOMAIN Links : Frac(Links[i]) > 0}

\* The links this turn may choose: not topped up before, and with a fraction above 0.
Candidates == {i \in DOMAIN Links : /\ quota[Links[i]] - DTAP_MIN_BUFFER_NUM <= Floor(Links[i])
                                    /\ Frac(Links[i]) > 0}

\* Mutant of MaxNode: of equal fractions the last one wins.
MaxNodeLast == CHOOSE i \in Candidates : \A j \in Candidates \ {i} :
    \/ Frac(Links[j]) < Frac(Links[i])
    \/ Frac(Links[j]) = Frac(Links[i]) /\ j < i

\* The scan keeps the first link whose fraction is larger than all before it.
MaxNode == CHOOSE i \in Candidates : \A j \in Candidates \ {i} :
    \/ Frac(Links[j]) < Frac(Links[i])
    \/ Frac(Links[j]) = Frac(Links[i]) /\ i < j

TopUp ==
    /\ pc = "topup" /\ rem > 0
    /\ quota' = IF Candidates = {} THEN quota
                ELSE [quota EXCEPT ![Links[MaxNode]] = @ + 1]
    /\ rem' = rem - 1
    /\ UNCHANGED <<queued, apBufferNum, pc>>

AllGiven ==
    /\ pc = "topup" /\ rem = 0
    /\ pc' = "done"
    /\ UNCHANGED <<queued, apBufferNum, quota, rem>>

Next == NoDemand \/ ShareOut \/ TopUp \/ AllGiven

Spec == Init /\ [][Next]_vars

-----------------------------------------------------------------------------
(***************************************************************************)
(* Properties.                                                             *)
(***************************************************************************)
\* While there is a packet to send and a buffer for every link, the quotas share out the
\* buffers of the controller exactly: none is left over and none is promised twice
\* (the comment above DTAP_AllocLcidQuota).
QuotaConserved ==
    pc = "done" /\ Total # 0 /\ Len(Links) <= apBufferNum => SumFunction(quota) = apBufferNum

\* A link with more packets queued never gets a smaller quota than one with fewer.
MoreQueuedNotLess ==
    pc = "done" => \A k, l \in Lcid : queued[k] < queued[l] => quota[k] <= quota[l]

\* The loops of DTAP_AllocLcidQuota compute LcidQuota, which DtapScheduler uses for them.
MatchesLcidQuota ==
    pc = "done" => quota = LcidQuota(Links, queued, apBufferNum)
=============================================================================
