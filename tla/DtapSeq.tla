------------------------------ MODULE DtapSeq ------------------------------
(***************************************************************************)
(* The sequence numbers of the enhanced DTAP frames.  A frame carries a    *)
(* 14-bit TxSeq; DTAP compares two of them by the sign bit of their        *)
(* difference, so "smaller" means "behind by at most half the number       *)
(* space".  The width is a parameter: SeqMax is DTAP_FRAME_SEQ_MAX,        *)
(* 16#3FFF in the code, and SeqMax + 1 must be even for the sign bit to    *)
(* exist.                                                                  *)
(***************************************************************************)
EXTENDS Integers

CONSTANT SeqMax

ASSUME SeqMaxAssumption == SeqMax \in Nat /\ SeqMax >= 3 /\ (SeqMax + 1) % 2 = 0

SeqMod == SeqMax + 1

\* DTAP_FRAME_SEQ_SIGN_MASK, 16#2000 in the code: the top bit of a sequence number.
SignMask == SeqMod \div 2

SeqNum == 0 .. SeqMax

\* DTAP_FRAME_SEQ_INIT: the reqSeq of a frame that carries no acknowledgement.
SEQ_INIT == SeqMax + 1

\* Bit 13 of the 16-bit difference is the top bit of the difference modulo 2^14.
IsFrameSeqSmaller(own, other) == (own - other) % SeqMod >= SignMask

\* Mutant of GetNextFrameSeq: the number after the last one does not wrap.
GetNextFrameSeqUnwrapped(seq) == seq + 1

GetNextFrameSeq(seq) == IF seq + 1 > SeqMax THEN 0 ELSE seq + 1

\* n applications of GetNextFrameSeq.
SeqAdd(seq, n) == (seq + n) % SeqMod
=============================================================================
