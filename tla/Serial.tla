------------------------------- MODULE Serial -------------------------------
(***************************************************************************)
(* The serial port (device/serial.c): a one-byte receiver and transmitter  *)
(* between the guest and two named pipes.  The C union of a FIFO register  *)
(* is its value; the stat register is split into the bits the port uses.   *)
(*                                                                         *)
(* A byte is 0 .. 2*Half-1 and a C char the same bits read as a signed     *)
(* number.  A pipe is the sequence of the bytes in it.                     *)
(***************************************************************************)
EXTENDS Integers, Sequences, SequencesExt

CONSTANTS Half,         \* 128
          PipeSize      \* the capacity of a pipe

ASSUME SerialConstants == Half \in Nat \ {0} /\ PipeSize \in Nat \ {0}

Byte == 0 .. 2 * Half - 1
NUL == 0
Char(b) == IF b >= Half THEN b - 2 * Half ELSE b
\* Mutated: the register is not cut to eight bits.
RdataWide(v) == v
Rdata(v) == v % (2 * Half)

VARIABLES rx_fifo, rx_valid, tx_fifo, tx_empty, Intr_enable,
          exteranl_irq, exteranl_irq2,   \* sets of PLIC sources
          to_terminal, to_emulator       \* message_fifo, message_rfifo

rxreg == <<rx_fifo, rx_valid>>
txreg == <<tx_fifo, tx_empty>>
irqs  == <<exteranl_irq, exteranl_irq2>>
pipes == <<to_terminal, to_emulator>>
svars == <<rxreg, txreg, Intr_enable, irqs, pipes>>

\* The PLIC source of the port (bit 1 of the external word).
UartSource == 1

SerialInit ==
    /\ rx_fifo = 0 /\ rx_valid = 0 /\ tx_fifo = 0 /\ tx_empty = 1
    /\ Intr_enable = 0 /\ exteranl_irq = {} /\ exteranl_irq2 = {}
    /\ to_terminal = <<>> /\ to_emulator = <<>>

\* A load of the receive register; loads of the others have no effect.
ReadRx == rx_valid' = 0 /\ UNCHANGED <<rx_fifo, txreg, Intr_enable, irqs, pipes>>

\* A store to the transmit register.
WriteTx(b) == /\ tx_fifo' = b /\ tx_empty' = 0
              /\ UNCHANGED <<rxreg, Intr_enable, irqs, pipes>>

\* A store to the control register.  A reset clears the data, not the bits that
\* say whether there is any.
WriteCtrl(rst_tx, rst_rx, en) ==
    /\ tx_fifo' = IF rst_tx THEN 0 ELSE tx_fifo
    /\ rx_fifo' = IF rst_rx THEN 0 ELSE rx_fifo
    /\ Intr_enable' = en
    /\ UNCHANGED <<rx_valid, tx_empty, irqs, pipes>>

\* Mutated: a byte is sent without its top bit.
TransmitSevenBits ==
    IF tx_empty = 0
    THEN /\ Len(to_terminal) < PipeSize
         /\ to_terminal' = Append(to_terminal, tx_fifo % Half)
         /\ tx_empty' = 1 /\ exteranl_irq2' = {UartSource}
    ELSE exteranl_irq2' = {} /\ UNCHANGED <<to_terminal, tx_empty>>

\* Mutated: a byte is received without its top bit.
ReceiveSevenBits ==
    IF rx_valid = 0 /\ to_emulator # <<>>
    THEN /\ to_emulator' = Tail(to_emulator)
         /\ IF Head(to_emulator) # NUL
            THEN rx_fifo' = Head(to_emulator) % Half /\ rx_valid' = 1
            ELSE UNCHANGED rxreg
    ELSE UNCHANGED <<to_emulator, rxreg>>

\* Mutated: a byte is received whether or not the last one was read.
ReceiveOver ==
    IF to_emulator # <<>>
    THEN /\ to_emulator' = Tail(to_emulator)
         /\ IF Head(to_emulator) # NUL
            THEN rx_fifo' = Char(Head(to_emulator)) /\ rx_valid' = 1
            ELSE UNCHANGED rxreg
    ELSE UNCHANGED <<to_emulator, rxreg>>

\* serail_update: a full pipe blocks the whole emulator in write(); an empty one
\* lets the non-blocking read() return; a NUL is read and dropped.
Transmit ==
    IF tx_empty = 0
    THEN /\ Len(to_terminal) < PipeSize
         /\ to_terminal' = Append(to_terminal, tx_fifo)
         /\ tx_empty' = 1 /\ exteranl_irq2' = {UartSource}
    ELSE exteranl_irq2' = {} /\ UNCHANGED <<to_terminal, tx_empty>>

Receive ==
    IF rx_valid = 0 /\ to_emulator # <<>>
    THEN /\ to_emulator' = Tail(to_emulator)
         /\ IF Head(to_emulator) # NUL
            THEN rx_fifo' = Char(Head(to_emulator)) /\ rx_valid' = 1
            ELSE UNCHANGED rxreg
    ELSE UNCHANGED <<to_emulator, rxreg>>

\* Mutated: the interrupt is computed before the byte is received.
SerialUpdateEarly ==
    /\ Transmit /\ Receive
    /\ exteranl_irq' = exteranl_irq2'
          \cup (IF Intr_enable = 1 /\ rx_valid = 1 THEN {UartSource} ELSE {})
    /\ UNCHANGED <<tx_fifo, Intr_enable>>

\* Mutated: a byte raises the interrupt when it arrives, not while it waits.
SerialUpdateEdge ==
    /\ Transmit /\ Receive
    /\ exteranl_irq' = IF Intr_enable = 1 /\ rx_valid = 0 /\ rx_valid' = 1
                       THEN {UartSource} ELSE {}
    /\ UNCHANGED <<tx_fifo, Intr_enable>>

SerialUpdate ==
    /\ Transmit /\ Receive
    /\ exteranl_irq' = exteranl_irq2'
          \cup (IF Intr_enable = 1 /\ rx_valid' = 1 THEN {UartSource} ELSE {})
    /\ UNCHANGED <<tx_fifo, Intr_enable>>

SerialTypeOK ==
    /\ rx_fifo \in -Half .. 2 * Half - 1 /\ tx_fifo \in Byte
    /\ rx_valid \in 0 .. 1 /\ tx_empty \in 0 .. 1 /\ Intr_enable \in 0 .. 1
    /\ exteranl_irq \subseteq {UartSource} /\ exteranl_irq2 \subseteq {UartSource}
    /\ to_terminal \in Seq(Byte) /\ to_emulator \in Seq(Byte)
    /\ Len(to_terminal) <= PipeSize /\ Len(to_emulator) <= PipeSize
=============================================================================
