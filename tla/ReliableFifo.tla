---------------------------- MODULE ReliableFifo ----------------------------
(***************************************************************************)
(* What the reliable mode promises its two clients, with no sequence       *)
(* number, window, timer or link: in each direction a first-in first-out   *)
(* queue that is never reordered, duplicated or left with a gap.           *)
(*                                                                         *)
(* A step belongs to one endpoint.  It may append to what the endpoint has *)
(* sent and to what its client has got; a handler that receives a frame    *)
(* and then sends the cached message does both.                            *)
(***************************************************************************)
EXTENDS Naturals, Sequences

CONSTANT Endpoint

VARIABLES
    sent,   \* sent[e]: what e has put into its send window, ever
    got     \* got[e]: what the client of e has been given, ever

IsExtension(t, s) == Len(s) <= Len(t) /\ SubSeq(t, 1, Len(s)) = s

Others(e) == Endpoint \ {e}

Init ==
    /\ sent = [e \in Endpoint |-> << >>]
    /\ got = [e \in Endpoint |-> << >>]

\* What the client of e gets next is what the peer sent next, and was sent before.
Step(e) ==
    /\ IsExtension(sent'[e], sent[e])
    /\ IsExtension(got'[e], got[e])
    /\ \A p \in Others(e) :
         /\ IsExtension(sent[p], got'[e])
         /\ sent'[p] = sent[p]
         /\ got'[p] = got[p]

Next == \E e \in Endpoint : Step(e)

Spec == Init /\ [][Next]_<<sent, got>>
=============================================================================
