-------------------------- MODULE MCDtapScheduler --------------------------
(***************************************************************************)
(* Instances of DtapScheduler for TLC.                                     *)
(***************************************************************************)
EXTENDS DtapScheduler

CONSTANTS l1, l2, c1, c2, c3

\* Two links; the first has an urgent and a normal channel, the second a normal one.
Links == {l1, l2}
Channels == {c1, c2, c3}
ChannelLink == [c \in Channels |-> IF c = c3 THEN l2 ELSE l1]
ChannelPriority == [c \in Channels |-> IF c = c1 THEN 1 ELSE 3]
=============================================================================
