------------------------------- MODULE Console -------------------------------
(***************************************************************************)
(* The serial port and the interrupt controller between a guest and the    *)
(* terminal process of mayfly_serial.  exec_once runs one instruction, of  *)
(* which one may access a device, and then update_device calls             *)
(* serail_update before plic_update, so an interrupt raised by the first   *)
(* is seen by the second; the terminal's two threads run at any time.      *)
(***************************************************************************)
EXTENDS Serial, Plic

CONSTANTS GuestBytes,   \* what the guest prints
          TypedBytes,   \* what arrives from the keyboard
          MaxSent,      \* bound on the bytes of each direction
          ChunkMax      \* the terminal's read buffer (2000)

ASSUME ConsoleConstants ==
    /\ GuestBytes \subseteq Byte \ {NUL} /\ TypedBytes \subseteq Byte
    /\ Sources = {UartSource} /\ MaxSent \in Nat /\ ChunkMax \in Nat \ {0}

VARIABLES phase,               \* "exec", "serial", "plic"; "aborted"
          tx_sent, tx_shown,   \* history: stored by the guest, printed
          tx_stray,            \* history: what had been printed when stray bytes came
          rx_typed, rx_read    \* history: typed, read by the guest when valid

txhist == <<tx_sent, tx_shown, tx_stray>>
rxhist == <<rx_typed, rx_read>>
cvars == <<svars, pvars, phase, txhist, rxhist>>

CInit == /\ SerialInit /\ PlicInit /\ phase = "exec"
         /\ tx_sent = <<>> /\ tx_shown = <<>> /\ tx_stray = {}
         /\ rx_typed = <<>> /\ rx_read = <<>>

Guest == phase = "exec" /\ phase' = "serial"

\* A byte counts as received when the status register called it valid.
GuestReads ==
    /\ Guest /\ ReadRx
    /\ rx_read' = IF rx_valid = 1 THEN Append(rx_read, Rdata(rx_fifo)) ELSE rx_read
    /\ UNCHANGED <<pvars, txhist, rx_typed>>

GuestPrints ==
    /\ Guest /\ Len(tx_sent) < MaxSent
    /\ \E b \in GuestBytes : WriteTx(b) /\ tx_sent' = Append(tx_sent, b)
    /\ UNCHANGED <<pvars, tx_shown, tx_stray, rxhist>>

GuestControls ==
    /\ Guest
    /\ \E rst_tx, rst_rx \in BOOLEAN, en \in 0 .. 1 : WriteCtrl(rst_tx, rst_rx, en)
    /\ UNCHANGED <<pvars, txhist, rxhist>>

GuestPlic ==
    /\ Guest
    /\ PlicConfigure \/ PlicOverrun \/ WriteSeip \/ \E id \in Ids : PlicComplete(id)
    /\ UNCHANGED <<svars, txhist, rxhist>>

GuestAborts ==
    /\ phase = "exec" /\ phase' = "aborted"
    /\ PlicAborts
    /\ UNCHANGED <<svars, txhist, rxhist>>

GuestOther == Guest /\ UNCHANGED <<svars, pvars, txhist, rxhist>>

UpdateSerial == /\ phase = "serial" /\ phase' = "plic"
                /\ SerialUpdate
                /\ UNCHANGED <<pvars, txhist, rxhist>>

UpdatePlic == /\ phase = "plic" /\ phase' = "exec"
              /\ PlicUpdate(exteranl_irq)
              /\ UNCHANGED <<svars, txhist, rxhist>>

\* The terminal may still read; a write would end it (SerialLink).
Ended == phase = "aborted" /\ UNCHANGED cvars

\* get_info_from_terminal: a character of a line reaches the pipe.
Type ==
    /\ phase # "aborted"
    /\ Len(rx_typed) < MaxSent /\ Len(to_emulator) < PipeSize
    /\ \E b \in TypedBytes :
         /\ to_emulator' = Append(to_emulator, b)
         /\ rx_typed' = IF b = NUL THEN rx_typed ELSE Append(rx_typed, b)
    /\ UNCHANGED <<pvars, phase, rxreg, txreg, Intr_enable, irqs, to_terminal,
                   txhist, rx_read>>

\* get_info_from_serial: a read takes what there is, up to the buffer, and
\* printf stops at a NUL.  A read that fills the buffer leaves none behind the bytes:
\* printf goes on into what lies behind the buffer, to the first zero byte there.
Printed(chunk) ==
    LET k == SelectInSeq(chunk, LAMBDA b : b = NUL)
    IN IF k = 0 THEN chunk ELSE SubSeq(chunk, 1, k - 1)

Unterminated(chunk) == Len(chunk) = ChunkMax /\ \A k \in DOMAIN chunk : chunk[k] # NUL

\* Mutated: the terminal waits until its buffer is full.
ShowFull ==
    /\ Len(to_terminal) >= ChunkMax
    /\ tx_shown' = tx_shown \o Printed(SubSeq(to_terminal, 1, ChunkMax))
    /\ to_terminal' = SubSeq(to_terminal, ChunkMax + 1, Len(to_terminal))
    /\ tx_stray' \in {tx_stray, tx_stray \cup {Len(tx_shown')}}
    /\ UNCHANGED <<pvars, phase, rxreg, txreg, Intr_enable, irqs, to_emulator,
                   tx_sent, rxhist>>

Show ==
    /\ to_terminal # <<>>
    /\ LET n == IF Len(to_terminal) < ChunkMax THEN Len(to_terminal) ELSE ChunkMax
           message == SubSeq(to_terminal, 1, n)
       IN /\ tx_shown' = tx_shown \o Printed(message)
          /\ to_terminal' = SubSeq(to_terminal, n + 1, Len(to_terminal))
          /\ \/ UNCHANGED tx_stray
             \/ Unterminated(message) /\ tx_stray' = tx_stray \cup {Len(tx_shown')}
    /\ UNCHANGED <<pvars, phase, rxreg, txreg, Intr_enable, irqs, to_emulator,
                   tx_sent, rxhist>>

Emulator == GuestReads \/ GuestPrints \/ GuestControls \/ GuestPlic \/ GuestOther
            \/ GuestAborts \/ UpdateSerial \/ UpdatePlic

CNext == Emulator \/ Ended \/ Type \/ Show
CSpec == CInit /\ [][CNext]_cvars

-----------------------------------------------------------------------------
CTypeOK ==
    /\ SerialTypeOK /\ PlicTypeOK /\ phase \in {"exec", "serial", "plic", "aborted"}
    /\ tx_stray \subseteq 1 .. MaxSent
    /\ \A q \in {tx_sent, tx_shown, rx_typed, rx_read} :
         q \in Seq(Byte) /\ Len(q) <= MaxSent

\* Each direction is a channel: what the guest stores to the transmit register is
\* printed in order, once, with stray bytes only behind a read that filled the
\* terminal's buffer; and what is typed is read in order, once, a character that the
\* guest's own reset of the receiver overtook arriving as NUL.
Tx == INSTANCE ByteChannel WITH Spoiled <- {}, Burst <- ChunkMax,
                                sent <- tx_sent, rcvd <- tx_shown, stray <- tx_stray
Rx == INSTANCE ByteChannel WITH Spoiled <- {NUL}, Burst <- ChunkMax,
                                sent <- rx_typed, rcvd <- rx_read, stray <- {}
TxChannel == Tx!Spec
RxChannel == Rx!Spec

\* No byte disappears on the way: it is in the pipe, in the register of the port
\* or delivered.  In particular the transmit register is never overwritten.
NoByteLost ==
    /\ Len(tx_sent) = Len(tx_shown) + Len(to_terminal) + (1 - tx_empty)
    /\ Len(rx_typed) = Len(rx_read) + rx_valid
                          + Cardinality({k \in DOMAIN to_emulator : to_emulator[k] # NUL})

\* At every instruction boundary a byte that waits in the receiver with its
\* interrupt enabled is announced to the hart, even when the guest has just
\* completed an earlier interrupt, or has just enabled this one.
WaitingByteAnnounced ==
    (phase = "exec" /\ rx_valid = 1 /\ Intr_enable = 1) =>
        /\ UartSource \in source_pending
        /\ (UartSource \in target_enables /\ source_priority[UartSource] > target_threshold)
              => seip = 1 /\ target_claim = UartSource
=============================================================================
