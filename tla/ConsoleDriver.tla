---------------------------- MODULE ConsoleDriver ----------------------------
(***************************************************************************)
(* Console with a guest that drives the port the way a kernel does: it     *)
(* sets the devices up, prints, and on the external interrupt claims,      *)
(* reads, and completes.  The guest is not part of this repository; its    *)
(* loads and stores are those of Console, one per instruction, with        *)
(* update_device after each.                                               *)
(***************************************************************************)
EXTENDS Console

\* The driver completes what it has claimed.
ASSUME DriverConstants == UartSource \in Ids

VARIABLE driver    \* where the guest is: set-up steps, main program, handler

dvars == <<cvars, driver>>

DInit == CInit /\ driver = "reset port"

Goto(from, to) == driver = from /\ driver' = to

\* The port is reset with its interrupt enabled, then the PLIC is set up.
SetUp ==
    /\ Guest /\ UNCHANGED <<txhist, rxhist>>
    /\ \/ /\ Goto("reset port", "set priority")
          /\ WriteCtrl(TRUE, TRUE, 1) /\ UNCHANGED pvars
       \/ /\ Goto("set priority", "enable source") /\ PlicConfigure
          /\ source_priority'[UartSource] = 1 /\ UNCHANGED svars
       \/ /\ Goto("enable source", "main") /\ PlicConfigure
          /\ target_enables' = {UartSource} /\ UNCHANGED svars

\* The main program runs only while no interrupt is pending.
Main == /\ driver = "main" /\ seip = 0 /\ UNCHANGED driver
        /\ GuestPrints \/ GuestOther

Enter == Goto("main", "claim") /\ seip = 1 /\ GuestOther

Claim == GuestOther /\ Goto("claim", IF target_claim = UartSource THEN "status" ELSE "main")

\* The handler looks at the status register and reads while there is a byte, or
\* leaves after any of them; it may print from the handler too.
Status == Goto("status", IF rx_valid = 1 THEN "read" ELSE "complete") /\ GuestOther
Read == driver = "read" /\ driver' \in {"status", "complete"} /\ GuestReads
Echo == driver = "status" /\ UNCHANGED driver /\ GuestPrints

Complete == /\ Goto("complete", "main") /\ Guest
            /\ PlicComplete(UartSource) /\ UNCHANGED <<svars, txhist, rxhist>>

Handler == Enter \/ Claim \/ Status \/ Read \/ Echo \/ Complete
Device == (UpdateSerial \/ UpdatePlic) /\ UNCHANGED driver

DEmulator == SetUp \/ Main \/ Handler \/ Device
DNext == DEmulator \/ ((Type \/ Show) /\ UNCHANGED driver)

\* execute() keeps running the guest and the terminal's reading thread keeps
\* reading; nobody has to type.
DSpec == /\ DInit /\ [][DNext]_dvars
         /\ WF_dvars(DEmulator)
         /\ WF_dvars(Show /\ UNCHANGED driver)

-----------------------------------------------------------------------------
\* Every byte that is typed is in the end read by the guest, although a byte can
\* arrive at any point of the handler of the one before, also between its last
\* look at the status register and its completion.
EveryByteRead == \A n \in 1 .. MaxSent : (Len(rx_typed) >= n) ~> (Len(rx_read) >= n)

\* Every byte the guest prints reaches the screen, although the write that sends
\* it blocks the emulator while the pipe is full.
EveryByteShown == \A n \in 1 .. MaxSent : (Len(tx_sent) >= n) ~> (Len(tx_shown) >= n)
=============================================================================
