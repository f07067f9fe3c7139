-------------------------- MODULE MCDtapReliable --------------------------
(***************************************************************************)
(* Instances of DtapReliable for TLC.                                      *)
(***************************************************************************)
EXTENDS DtapReliable

\* One sender: messages that leave room in a window of three, with enough frames to
\* wrap eight sequence numbers.
OneSenderFrames == [m \in 1 .. 5 |-> [d \in BOOLEAN |-> IF m = 1 THEN 1 ELSE 2]]
OneSenderMsgs == [e \in Endpoint |-> IF e = A THEN 5 ELSE 0]

\* Both endpoints send, so that frames acknowledge the other direction and a message
\* takes more frames once headers are duplex.
TwoSenderFrames == [m \in 1 .. 2 |-> [d \in BOOLEAN |-> IF m = 2 /\ d THEN 2 ELSE 1]]
TwoSenderMsgs == [e \in Endpoint |-> IF e = A THEN 2 ELSE 1]

\* A message that needs the whole window of two.
WholeWindowFrames == [m \in 1 .. 2 |-> [d \in BOOLEAN |-> m]]
WholeWindowMsgs == [e \in Endpoint |-> IF e = A THEN 2 ELSE 0]
=============================================================================
