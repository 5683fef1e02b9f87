---------------------------- MODULE ByteChannel ----------------------------
(***************************************************************************)
(* What each direction of the serial line promises: the receiver gets the  *)
(* bytes in the order they were sent, none twice and none skipped.         *)
(* Spoiled is the set of bytes that may arrive in the place of the one     *)
(* sent.  A receiver that takes Burst bytes at once may be given stray     *)
(* bytes behind them, which nobody sent: stray is the set of the numbers   *)
(* of bytes received at which that happened.                               *)
(***************************************************************************)
EXTENDS Naturals, Sequences

CONSTANTS Byte, Spoiled, Burst

VARIABLES sent, rcvd, stray

Init == sent = <<>> /\ rcvd = <<>> /\ stray = {}

Send == /\ \E b \in Byte : sent' = Append(sent, b)
        /\ UNCHANGED <<rcvd, stray>>

\* The receiver may take several bytes at once.
Receive == /\ Len(rcvd) < Len(sent)
           /\ \E n \in Len(rcvd) + 1 .. Len(sent) :
                /\ Len(rcvd') = n
                /\ \A k \in 1 .. Len(rcvd) : rcvd'[k] = rcvd[k]
                /\ \A k \in Len(rcvd) + 1 .. n : rcvd'[k] \in {sent[k]} \cup Spoiled
                /\ \/ UNCHANGED stray
                   \/ n >= Len(rcvd) + Burst /\ stray' = stray \cup {n}
           /\ UNCHANGED sent

Next == Send \/ Receive

Spec == Init /\ [][Next]_<<sent, rcvd, stray>>
=============================================================================
