---------------------------- MODULE ConsoleProofs ----------------------------
(***************************************************************************)
(* Proofs about Console, for pipes of any size, any bytes and priorities.  *)
(* A byte that waits with its interrupt enabled is announced: the          *)
(* invariant carries it across the two updates, what the serial port       *)
(* raises at the first being what the controller sees at the second.       *)
(* And each direction implements its channel: the invariant says where     *)
(* every byte that is not delivered yet lies.  The interrupt controller    *)
(* inside implements PlicBoard, and ConsoleDriver implements Console; its  *)
(* driver never sleeps on a byte, and what it prints comes out byte by     *)
(* byte.                                                                   *)
(***************************************************************************)
EXTENDS ConsoleDriver, BasicFacts, FiniteSetTheorems

-----------------------------------------------------------------------------
(* The bytes that wait are announced.                                      *)

Waiting == rx_valid = 1 /\ Intr_enable = 1

Announced ==
    /\ PlicTypeOK
    /\ exteranl_irq \subseteq {UartSource}
    /\ phase \in {"exec", "serial", "plic", "aborted"}
    /\ (phase = "plic" /\ Waiting) => UartSource \in exteranl_irq
    /\ WaitingByteAnnounced

LEMMA OneSource == Sources = {UartSource} /\ UartSource \in Int /\ UartSource # 0
  BY ConsoleConstants DEF UartSource

LEMMA InitAnnounces == CInit => Announced
  BY PlicConstants DEF CInit, SerialInit, PlicInit, Announced, PlicTypeOK, Waiting, WaitingByteAnnounced

\* The instructions of the guest: the controller keeps its types, and what the
\* serial port has raised stays.
LEMMA GuestKeeps ==
    ASSUME Announced,
           GuestReads \/ GuestPrints \/ GuestControls \/ GuestPlic \/ GuestOther
    PROVE  Announced'
  <1>1. phase' = "serial" /\ UNCHANGED irqs
    BY DEF GuestReads, GuestPrints, GuestControls, GuestPlic, GuestOther, Guest,
           ReadRx, WriteTx, WriteCtrl, svars, irqs
  <1>2. PlicTypeOK'
    <2>1. CASE UNCHANGED pvars
      BY <2>1 DEF Announced, PlicTypeOK, pvars
    <2>2. CASE PlicConfigure
      <3>1. /\ target_enables' \subseteq Sources /\ target_threshold' \in Priorities
            /\ source_priority' \in [Sources -> Priorities]
            /\ UNCHANGED <<source_pending, target_claim, seip>>
        BY <2>2 DEF PlicConfigure, Announced, PlicTypeOK
      <3> QED  BY <3>1 DEF Announced, PlicTypeOK
    <2>3. CASE WriteSeip
      BY <2>3 DEF WriteSeip, Announced, PlicTypeOK, pconfig
    <2>4. ASSUME NEW id \in Ids, PlicComplete(id) PROVE PlicTypeOK'
      BY <2>4 DEF PlicComplete, Announced, PlicTypeOK, pconfig
    <2>5. CASE PlicOverrun
      BY <2>5 DEF PlicOverrun, Announced, PlicTypeOK, pconfig
    <2> QED
      BY <2>1, <2>2, <2>3, <2>4, <2>5
      DEF GuestReads, GuestPrints, GuestControls, GuestPlic, GuestOther
  <1> QED  BY <1>1, <1>2 DEF Announced, WaitingByteAnnounced, irqs

\* The first update: the port raises its source while a byte waits.
LEMMA SerialKeeps == ASSUME Announced, UpdateSerial PROVE Announced'
  <1>1. phase' = "plic" /\ UNCHANGED <<pvars, Intr_enable>>  BY DEF UpdateSerial, SerialUpdate
  <1>2. exteranl_irq2' \subseteq {UartSource}
    BY DEF UpdateSerial, SerialUpdate, Transmit
  <1>3. exteranl_irq' = exteranl_irq2'
           \cup (IF Intr_enable = 1 /\ rx_valid' = 1 THEN {UartSource} ELSE {})
    BY DEF UpdateSerial, SerialUpdate
  <1>4. exteranl_irq' \subseteq {UartSource} /\ (Waiting' => UartSource \in exteranl_irq')
    BY <1>1, <1>2, <1>3 DEF Waiting
  <1> QED  BY <1>1, <1>4 DEF Announced, PlicTypeOK, pvars, WaitingByteAnnounced

\* The second update: the only source that there is wins when it is raised.
LEMMA PlicKeeps == ASSUME Announced, UpdatePlic PROVE Announced'
  <1> DEFINE live == (source_pending \cup exteranl_irq) \cap target_enables
  <1>1. /\ phase = "plic" /\ phase' = "exec" /\ UNCHANGED <<svars, pconfig>>
        /\ source_pending' = source_pending \cup exteranl_irq
        /\ \/ \E i \in live : /\ Wins(i, live) /\ target_claim' = i
                              /\ seip' = IF source_priority[i] > target_threshold THEN 1 ELSE 0
           \/ /\ \A i \in live : source_priority[i] = 0
              /\ target_claim' = 0 /\ seip' = 0
    BY DEF UpdatePlic, PlicUpdate
  <1>2. UNCHANGED <<rx_valid, Intr_enable, exteranl_irq, source_priority, target_enables,
                    target_threshold>>
    BY <1>1 DEF svars, rxreg, irqs, pconfig
  <1>3. /\ source_priority \in [Sources -> Priorities] /\ target_threshold \in Priorities
        /\ live \subseteq Sources /\ exteranl_irq \subseteq Sources
    BY OneSource DEF Announced, PlicTypeOK
  <1>4. PlicTypeOK'
    BY <1>1, <1>2, <1>3 DEF Announced, PlicTypeOK
  <1>5. ASSUME Waiting', UartSource \in target_enables,
               source_priority[UartSource] > target_threshold
        PROVE  seip' = 1 /\ target_claim' = UartSource
    <2>1. UartSource \in live  BY <1>2, <1>1, <1>5 DEF Waiting, Announced
    <2>2. source_priority[UartSource] # 0
      <3>1. source_priority[UartSource] \in Nat /\ target_threshold \in Nat
        BY <1>3, OneSource, PlicConstants
      <3> QED  BY <1>5, <3>1
    <2>3. live = {UartSource}  BY <1>3, <2>1, OneSource
    <2> HIDE DEF live
    <2> QED  BY <1>1, <1>5, <2>1, <2>2, <2>3
  <1>6. Waiting' => UartSource \in source_pending'
    BY <1>1, <1>2 DEF Waiting, Announced
  <1> QED
    BY <1>1, <1>2, <1>4, <1>5, <1>6 DEF Announced, WaitingByteAnnounced, Waiting

LEMMA StepAnnounces == ASSUME Announced, [CNext]_cvars PROVE Announced'
  <1>1. CASE UNCHANGED cvars \/ Type \/ Show
    <2>1. UNCHANGED <<pvars, phase, rxreg, Intr_enable, irqs>>
      BY <1>1 DEF cvars, svars, Type, Show
    <2> QED  BY <2>1 DEF Announced, PlicTypeOK, WaitingByteAnnounced, Waiting, pvars, rxreg, irqs
  <1>2. CASE GuestAborts
    <2>1. phase' = "aborted" /\ UNCHANGED <<pvars, exteranl_irq>>
      BY <1>2 DEF GuestAborts, PlicAborts, svars, irqs
    <2> QED  BY <2>1 DEF Announced, PlicTypeOK, WaitingByteAnnounced, pvars
  <1> QED
    BY <1>1, <1>2, GuestKeeps, SerialKeeps, PlicKeeps DEF CNext, Emulator, Ended

-----------------------------------------------------------------------------
\* At every instruction boundary a byte that waits in the receiver with its interrupt
\* enabled is pending, and reaches the hart when the controller lets it, whatever the
\* guest completed or configured just before (serial.c:100-113, plic.c:26-58).
THEOREM BytesAreAnnounced == CSpec => []WaitingByteAnnounced
  <1>1. Announced => WaitingByteAnnounced  BY DEF Announced
  <1> QED  BY <1>1, InitAnnounces, StepAnnounces, PTL DEF CSpec

-----------------------------------------------------------------------------
(* What is on its way to the terminal: the bytes stored are those shown,    *)
(* those in the pipe and the one in the register, in this order.  No byte   *)
(* is NUL, so printf cuts none off, and the register is empty at every      *)
(* instruction boundary, so neither a store nor a reset loses a byte.       *)

Printable == Byte \ {NUL}

TxInv ==
    /\ tx_sent \in Seq(Printable) /\ tx_shown \in Seq(Printable)
    /\ to_terminal \in Seq(Printable)
    /\ tx_fifo \in Byte /\ tx_empty \in 0 .. 1
    /\ phase \in {"exec", "serial", "plic", "aborted"}
    /\ phase # "serial" => tx_empty = 1
    /\ Len(tx_sent) = Len(tx_shown) + Len(to_terminal) + (1 - tx_empty)
    /\ \A i \in 1 .. Len(tx_shown) : tx_shown[i] = tx_sent[i]
    /\ \A i \in 1 .. Len(to_terminal) : to_terminal[i] = tx_sent[Len(tx_shown) + i]
    /\ tx_empty = 0 => tx_sent[Len(tx_sent)] = tx_fifo
    /\ Len(tx_sent) <= MaxSent /\ Len(to_terminal) <= PipeSize
    /\ tx_stray \subseteq 1 .. MaxSent

-----------------------------------------------------------------------------
(* What is on its way to the guest: the typed bytes that the port has not   *)
(* taken lie in the pipe in their order, with NULs between them.            *)

\* p places w bytes of typed, those after the first n, in the pipe, and nothing but
\* NULs lies beside them.
Places(p, w, pipe, typed, n) ==
    /\ p \in [1 .. w -> 1 .. Len(pipe)]
    /\ \A i, j \in 1 .. w : i < j => p[i] < p[j]
    /\ \A i \in 1 .. w : pipe[p[i]] = typed[n + i]
    /\ \A k \in 1 .. Len(pipe) : pipe[k] # NUL => \E i \in 1 .. w : p[i] = k

Taken == Len(rx_read) + rx_valid

RxInv ==
    /\ rx_typed \in Seq(Printable) /\ rx_read \in Seq(Byte)
    /\ to_emulator \in Seq(Byte)
    /\ rx_fifo \in -Half .. 2 * Half - 1 /\ rx_valid \in 0 .. 1
    /\ \A i \in 1 .. Len(rx_read) : rx_read[i] \in {rx_typed[i], NUL}
    /\ rx_valid = 1 => Rdata(rx_fifo) \in {rx_typed[Taken], NUL}
    /\ \E w \in Nat : /\ Taken + w = Len(rx_typed)
                      /\ \E p : Places(p, w, to_emulator, rx_typed, Taken)
    /\ Len(rx_typed) <= MaxSent /\ Len(to_emulator) <= PipeSize

\* Every byte the pipe holds is NUL or waits for the guest.
LEMMA PlacesCounts ==
    ASSUME NEW p, NEW pipe \in Seq(Byte), NEW typed \in Seq(Printable), NEW n \in Nat,
           NEW w \in Nat, n + w = Len(typed), Places(p, w, pipe, typed, n)
    PROVE  Cardinality({k \in DOMAIN pipe : pipe[k] # NUL}) = w
  <1> DEFINE left == 1 .. w
             full == {k \in DOMAIN pipe : pipe[k] # NUL}
  <1>1. ASSUME NEW i \in left PROVE p[i] \in full
    <2>1. p[i] \in 1 .. Len(pipe) /\ pipe[p[i]] = typed[n + i]  BY DEF Places
    <2>2. n + i \in 1 .. Len(typed)  OBVIOUS
    <2>3. typed[n + i] # NUL  BY <2>2 DEF Printable
    <2> QED  BY <2>1, <2>3
  <1>2. p \in [left -> full]  BY <1>1 DEF Places
  <1>3. ASSUME NEW i \in left, NEW j \in left, p[i] = p[j] PROVE i = j
    <2>1. p[i] \in Nat /\ p[j] \in Nat  BY DEF Places
    <2> QED  BY <1>3, <2>1 DEF Places
  <1>4. ASSUME NEW k \in full PROVE \E i \in left : p[i] = k
    <2>1. k \in 1 .. Len(pipe) /\ pipe[k] # NUL  OBVIOUS
    <2> QED  BY <2>1 DEF Places
  <1> HIDE DEF left, full
  <1>5. p \in Bijection(left, full)
    BY <1>2, <1>3, <1>4 DEF Bijection, Injection, Surjection, IsInjective
  <1>6. ExistsBijection(left, full)  BY <1>5 DEF ExistsBijection
  <1>7. IsFiniteSet(left) /\ Cardinality(left) = w
    BY FS_Interval DEF left
  <1>8. Cardinality(full) = Cardinality(left)  BY <1>6, <1>7, FS_Bijection
  <1> QED  BY <1>7, <1>8 DEF full

\* A character reaches the pipe.
LEMMA PlacesAppend ==
    ASSUME NEW p, NEW pipe \in Seq(Byte), NEW typed \in Seq(Printable), NEW n \in Nat,
           NEW b \in Byte, NEW w \in Nat, n + w = Len(typed), Places(p, w, pipe, typed, n)
    PROVE  /\ b = NUL => Places(p, w, Append(pipe, b), typed, n)
           /\ b # NUL => \E q : Places(q, w + 1, Append(pipe, b), Append(typed, b), n)
  <1>1. /\ Len(Append(pipe, b)) = Len(pipe) + 1
        /\ \A k \in 1 .. Len(pipe) : Append(pipe, b)[k] = pipe[k]
        /\ Append(pipe, b)[Len(pipe) + 1] = b
    OBVIOUS
  <1>2. CASE b = NUL
    <2>1. \A k \in 1 .. Len(pipe) : k \in 1 .. Len(pipe) + 1  OBVIOUS
    <2>2. p \in [1 .. w -> 1 .. Len(pipe) + 1]  BY <2>1 DEF Places
    <2>3. \A k \in 1 .. Len(pipe) + 1 : Append(pipe, b)[k] # NUL => k \in 1 .. Len(pipe)
      BY <1>1, <1>2
    <2>4. Places(p, w, Append(pipe, b), typed, n)
      BY <1>1, <2>2, <2>3 DEF Places
    <2> QED  BY <1>2, <2>4
  <1>3. CASE b # NUL
    <2> DEFINE q == [i \in 1 .. w + 1 |-> IF i = w + 1 THEN Len(pipe) + 1 ELSE p[i]]
    <2>1. /\ Len(Append(typed, b)) = n + (w + 1)
          /\ \A k \in 1 .. Len(typed) : Append(typed, b)[k] = typed[k]
          /\ Append(typed, b)[Len(typed) + 1] = b
      OBVIOUS
    <2>2. /\ w \in Nat /\ p \in [1 .. w -> 1 .. Len(pipe)]
          /\ \A i, j \in 1 .. w : i < j => p[i] < p[j]
          /\ \A i \in 1 .. w : pipe[p[i]] = typed[n + i]
          /\ \A k \in 1 .. Len(pipe) : pipe[k] # NUL => \E i \in 1 .. w : p[i] = k
      BY DEF Places
    <2>3. q[w + 1] = Len(pipe) + 1 /\ \A i \in 1 .. w : q[i] = p[i] /\ i \in 1 .. w + 1
      BY <2>2
    <2>4. q \in [1 .. w + 1 -> 1 .. Len(pipe) + 1]  BY <2>2
    <2> HIDE DEF q
    <2>5. ASSUME NEW i \in 1 .. w + 1, NEW j \in 1 .. w + 1, i < j PROVE q[i] < q[j]
      <3>1. i \in 1 .. w /\ p[i] \in 1 .. Len(pipe)  BY <2>2, <2>5
      <3>2. CASE j = w + 1  BY <2>3, <3>1, <3>2
      <3>3. CASE j # w + 1  BY <2>2, <2>3, <2>5, <3>1, <3>3
      <3> QED  BY <3>2, <3>3
    <2>6. ASSUME NEW i \in 1 .. w + 1 PROVE Append(pipe, b)[q[i]] = Append(typed, b)[n + i]
      <3>1. CASE i = w + 1
        <4>1. n + i = Len(typed) + 1  BY <3>1
        <4> QED  BY <1>1, <2>1, <2>3, <3>1, <4>1
      <3>2. CASE i # w + 1
        <4>1. i \in 1 .. w /\ n + i \in 1 .. Len(typed)  BY <3>2
        <4>2. q[i] = p[i] /\ p[i] \in 1 .. Len(pipe)  BY <2>2, <2>3, <4>1
        <4> QED  BY <1>1, <2>1, <2>2, <4>1, <4>2
      <3> QED  BY <3>1, <3>2
    <2>7. ASSUME NEW k \in 1 .. Len(pipe) + 1, Append(pipe, b)[k] # NUL
          PROVE  \E i \in 1 .. w + 1 : q[i] = k
      <3>1. CASE k = Len(pipe) + 1
        <4>1. w + 1 \in 1 .. w + 1  BY <2>2
        <4> QED  BY <2>3, <3>1, <4>1
      <3>2. CASE k # Len(pipe) + 1
        <4>1. k \in 1 .. Len(pipe) /\ pipe[k] # NUL  BY <1>1, <2>7, <3>2
        <4>2. PICK i \in 1 .. w : p[i] = k  BY <2>2, <4>1
        <4> QED  BY <2>3, <4>2
      <3> QED  BY <3>1, <3>2
    <2>8. Places(q, w + 1, Append(pipe, b), Append(typed, b), n)
      BY <1>1, <2>4, <2>5, <2>6, <2>7 DEF Places
    <2> QED  BY <1>3, <2>8
  <1> QED  BY <1>2, <1>3

\* The port drops the NUL at the front of the pipe.
LEMMA PlacesDrop ==
    ASSUME NEW p, NEW pipe \in Seq(Byte), NEW typed \in Seq(Printable), NEW n \in Nat,
           pipe # <<>>, Head(pipe) = NUL, NEW w \in Nat, n + w = Len(typed), Places(p, w, pipe, typed, n)
    PROVE  \E q : Places(q, w, Tail(pipe), typed, n)
  <1> DEFINE left == 1 .. w
             q == [i \in left |-> p[i] - 1]
  <1>1. /\ pipe[1] = NUL /\ Len(pipe) \in Nat \ {0} /\ Len(Tail(pipe)) = Len(pipe) - 1
        /\ \A k \in 1 .. Len(pipe) - 1 : Tail(pipe)[k] = pipe[k + 1]
    OBVIOUS
  <1>2. ASSUME NEW i \in left PROVE p[i] \in 2 .. Len(pipe)
    <2>1. p[i] \in 1 .. Len(pipe) /\ pipe[p[i]] = typed[n + i]  BY DEF Places
    <2>2. n + i \in 1 .. Len(typed)  OBVIOUS
    <2>3. typed[n + i] # NUL  BY <2>2 DEF Printable
    <2> QED  BY <1>1, <2>1, <2>3
  <1>3. q \in [left -> 1 .. Len(pipe) - 1]  BY <1>1, <1>2
  <1>4. \A i, j \in left : i < j => q[i] < q[j]  BY <1>2 DEF Places
  <1>5. ASSUME NEW i \in left PROVE Tail(pipe)[q[i]] = typed[n + i]
    <2>1. p[i] \in 2 .. Len(pipe) /\ q[i] = p[i] - 1  BY <1>2
    <2> HIDE DEF q
    <2>3. q[i] \in 1 .. Len(pipe) - 1 /\ q[i] + 1 = p[i]  BY <1>1, <2>1, SMTT(30)
    <2>2. Tail(pipe)[q[i]] = pipe[p[i]]  BY <1>1, <2>3
    <2> QED  BY <2>2 DEF Places
  <1>6. ASSUME NEW k \in 1 .. Len(pipe) - 1, Tail(pipe)[k] # NUL
        PROVE  \E i \in left : q[i] = k
    <2>1. k + 1 \in 1 .. Len(pipe) /\ pipe[k + 1] # NUL  BY <1>1, <1>6
    <2>2. PICK i \in left : p[i] = k + 1  BY <2>1 DEF Places
    <2> QED  BY <2>2
  <1> HIDE DEF q
  <1>7. Places(q, w, Tail(pipe), typed, n)  BY <1>1, <1>3, <1>4, <1>5, <1>6 DEF Places
  <1> QED  BY <1>7

\* The port takes the byte at the front of the pipe: it is the next of those typed.
LEMMA PlacesTake ==
    ASSUME NEW p, NEW pipe \in Seq(Byte), NEW typed \in Seq(Printable), NEW n \in Nat,
           pipe # <<>>, Head(pipe) # NUL, NEW w \in Nat, n + w = Len(typed), Places(p, w, pipe, typed, n)
    PROVE  /\ w > 0 /\ Head(pipe) = typed[n + 1]
           /\ \E q : Places(q, w - 1, Tail(pipe), typed, n + 1)
  <1> DEFINE q == [i \in 1 .. w - 1 |-> p[i + 1] - 1]
  <1>1. /\ pipe[1] # NUL /\ pipe[1] = Head(pipe) /\ Len(pipe) \in Nat \ {0}
        /\ Len(Tail(pipe)) = Len(pipe) - 1
        /\ \A k \in 1 .. Len(pipe) - 1 : Tail(pipe)[k] = pipe[k + 1]
    OBVIOUS
  <1>2. /\ p \in [1 .. w -> 1 .. Len(pipe)]
        /\ \A i, j \in 1 .. w : i < j => p[i] < p[j]
        /\ \A i \in 1 .. w : pipe[p[i]] = typed[n + i]
        /\ \A k \in 1 .. Len(pipe) : pipe[k] # NUL => \E i \in 1 .. w : p[i] = k
    BY DEF Places
  <1>3. PICK i \in 1 .. w : p[i] = 1
    <2>1. 1 \in 1 .. Len(pipe)  BY <1>1
    <2> QED  BY <1>1, <1>2, <2>1
  <1>4. w >= 1 /\ 1 \in 1 .. w  BY <1>2, <1>3
  <1>5. p[1] = 1
    <2>1. CASE i = 1  BY <1>3, <2>1
    <2>2. CASE i # 1
      <3>1. p[1] < p[i]  BY <1>2, <1>3, <1>4, <2>2
      <3> QED  BY <1>2, <1>3, <1>4, <3>1
    <2> QED  BY <2>1, <2>2
  <1>6. w > 0 /\ Head(pipe) = typed[n + 1]  BY <1>1, <1>2, <1>4, <1>5
  <1>7. \A j \in 1 .. w - 1 : j + 1 \in 1 .. w /\ p[j + 1] \in 2 .. Len(pipe)
    <2> TAKE j \in 1 .. w - 1
    <2>1. j + 1 \in 1 .. w /\ 1 < j + 1  BY <1>2
    <2>2. p[1] < p[j + 1]  BY <1>2, <1>4, <2>1
    <2>3. p[j + 1] \in 1 .. Len(pipe)  BY <1>2, <2>1
    <2> QED  BY <1>5, <2>1, <2>2, <2>3
  <1>9. /\ q \in [1 .. w - 1 -> 1 .. Len(pipe) - 1]
        /\ \A j \in 1 .. w - 1 : q[j] = p[j + 1] - 1
    BY <1>1, <1>7
  <1> HIDE DEF q
  <1>10. ASSUME NEW j \in 1 .. w - 1, NEW k \in 1 .. w - 1, j < k PROVE q[j] < q[k]
    <2>1. j + 1 < k + 1 /\ j + 1 \in 1 .. w /\ k + 1 \in 1 .. w  BY <1>2, <1>10
    <2>2. p[j + 1] < p[k + 1]  BY <1>2, <2>1
    <2>3. /\ q[j] = p[j + 1] - 1 /\ q[k] = p[k + 1] - 1
          /\ p[j + 1] \in Int /\ p[k + 1] \in Int
      BY <1>7, <1>9
    <2> QED  BY <2>2, <2>3
  <1>11. ASSUME NEW j \in 1 .. w - 1 PROVE Tail(pipe)[q[j]] = typed[(n + 1) + j]
    <2>1. q[j] \in 1 .. Len(pipe) - 1 /\ q[j] + 1 = p[j + 1]  BY <1>7, <1>9
    <2>2. Tail(pipe)[q[j]] = pipe[p[j + 1]]  BY <1>1, <2>1
    <2>3. pipe[p[j + 1]] = typed[n + (j + 1)]  BY <1>2, <1>7
    <2>4. n + (j + 1) = (n + 1) + j  OBVIOUS
    <2> QED  BY <2>2, <2>3, <2>4
  <1>12. ASSUME NEW k \in 1 .. Len(pipe) - 1, Tail(pipe)[k] # NUL
         PROVE  \E j \in 1 .. w - 1 : q[j] = k
    <2>1. k + 1 \in 1 .. Len(pipe) /\ pipe[k + 1] # NUL  BY <1>1, <1>12
    <2>2. PICK j \in 1 .. w : p[j] = k + 1  BY <1>2, <2>1
    <2>3. j # 1  BY <1>5, <2>2
    <2>4. j - 1 \in 1 .. w - 1 /\ (j - 1) + 1 = j  BY <1>2, <2>3
    <2>5. q[j - 1] = k  BY <1>9, <2>2, <2>4
    <2> QED  BY <2>4, <2>5
  <1>13. Places(q, w - 1, Tail(pipe), typed, n + 1)
    BY <1>1, <1>9, <1>10, <1>11, <1>12 DEF Places
  <1> QED  BY <1>6, <1>13

-----------------------------------------------------------------------------
(* The steps of the transmitting side.                                     *)

\* printf prints the whole of what holds no NUL.
LEMMA PrintedWhole == ASSUME NEW s \in Seq(Printable) PROVE Printed(s) = s
  <1> DEFINE I == {i \in 1 .. Len(s) : s[i] = NUL}
  <1>1. I = {}  BY DEF Printable
  <1>2. SelectInSeq(s, LAMBDA b : b = NUL) = 0  BY <1>1 DEF SelectInSeq
  <1> QED  BY <1>2 DEF Printed

\* The steps that leave the transmitter alone, or reset it while it is empty.
LEMMA TxIdle ==
    ASSUME TxInv, tx_fifo' \in Byte, tx_empty = 0 => tx_fifo' = tx_fifo,
           UNCHANGED <<txhist, to_terminal, tx_empty>>,
           phase' \in {"exec", "serial", "plic", "aborted"}, phase' # "serial" => tx_empty = 1
    PROVE  TxInv'
  BY DEF TxInv, txhist

LEMMA TxPrints == ASSUME TxInv, GuestPrints PROVE TxInv' /\ Tx!Next
  <1>1. PICK b \in GuestBytes : WriteTx(b) /\ tx_sent' = Append(tx_sent, b)  BY DEF GuestPrints
  <1>2. /\ phase = "exec" /\ phase' = "serial" /\ Len(tx_sent) < MaxSent
        /\ UNCHANGED <<tx_shown, tx_stray, to_terminal>> /\ tx_fifo' = b /\ tx_empty' = 0
    BY <1>1 DEF GuestPrints, Guest, WriteTx, pipes
  <1>3. b \in Printable  BY ConsoleConstants DEF Printable
  <1>4. /\ Len(tx_sent') = Len(tx_sent) + 1 /\ tx_sent'[Len(tx_sent) + 1] = b
        /\ \A k \in 1 .. Len(tx_sent) : tx_sent'[k] = tx_sent[k]
        /\ tx_sent' \in Seq(Printable)
    <2>1. tx_sent \in Seq(Printable)  BY DEF TxInv
    <2> QED  BY <1>1, <1>3, <2>1, Appended
  <1>5. Len(tx_sent) = Len(tx_shown) + Len(to_terminal)  BY <1>2 DEF TxInv
  <1>6. Len(tx_shown) \in Nat /\ Len(to_terminal) \in Nat /\ MaxSent \in Nat
    BY ConsoleConstants DEF TxInv
  <1>7. \A i \in 1 .. Len(tx_shown) : tx_shown[i] = tx_sent'[i]
    <2> TAKE i \in 1 .. Len(tx_shown)
    <2>1. i \in 1 .. Len(tx_sent)  BY <1>5, <1>6
    <2> QED  BY <1>4, <2>1 DEF TxInv
  <1>8. \A i \in 1 .. Len(to_terminal) : to_terminal[i] = tx_sent'[Len(tx_shown) + i]
    <2> TAKE i \in 1 .. Len(to_terminal)
    <2>1. Len(tx_shown) + i \in 1 .. Len(tx_sent)  BY <1>5, <1>6
    <2> QED  BY <1>4, <2>1 DEF TxInv
  <1>9. TxInv'
    BY <1>2, <1>3, <1>4, <1>5, <1>6, <1>7, <1>8 DEF TxInv, Printable
  <1>10. Tx!Send  BY <1>1, <1>2, <1>3 DEF Tx!Send, Printable
  <1> QED  BY <1>9, <1>10 DEF Tx!Next

LEMMA TxTransmits == ASSUME TxInv, UpdateSerial PROVE TxInv'
  <1>1. /\ phase' = "plic" /\ UNCHANGED <<tx_sent, tx_shown, tx_stray, tx_fifo>> /\ Transmit
    BY DEF UpdateSerial, SerialUpdate, txhist
  <1>2. CASE tx_empty = 1
    <2>1. UNCHANGED <<to_terminal, tx_empty>>  BY <1>1, <1>2 DEF Transmit
    <2> QED  BY <1>1, <1>2, <2>1, TxIdle DEF TxInv, txhist
  <1>3. CASE tx_empty = 0
    <2>1. /\ to_terminal' = Append(to_terminal, tx_fifo) /\ tx_empty' = 1
          /\ Len(to_terminal) < PipeSize
      BY <1>1, <1>3 DEF Transmit
    <2>2. /\ Len(tx_sent) = Len(tx_shown) + Len(to_terminal) + 1
          /\ tx_sent[Len(tx_sent)] = tx_fifo
      BY <1>3 DEF TxInv
    <2>3. Len(tx_shown) \in Nat /\ Len(to_terminal) \in Nat /\ PipeSize \in Nat
      BY SerialConstants DEF TxInv
    <2>4. tx_fifo \in Printable
      <3>1. Len(tx_sent) \in 1 .. Len(tx_sent)  BY <2>2, <2>3
      <3> QED  BY <2>2, <3>1 DEF TxInv
    <2>5. /\ to_terminal' \in Seq(Printable) /\ Len(to_terminal') = Len(to_terminal) + 1
          /\ to_terminal'[Len(to_terminal) + 1] = tx_fifo
          /\ \A k \in 1 .. Len(to_terminal) : to_terminal'[k] = to_terminal[k]
      BY <2>1, <2>4 DEF TxInv
    <2>6. ASSUME NEW i \in 1 .. Len(to_terminal')
          PROVE  to_terminal'[i] = tx_sent[Len(tx_shown) + i]
      <3>1. CASE i = Len(to_terminal) + 1
        <4>1. Len(tx_shown) + i = Len(tx_sent)  BY <2>2, <2>3, <3>1
        <4> QED  BY <2>2, <2>5, <3>1, <4>1
      <3>2. CASE i # Len(to_terminal) + 1
        <4>1. i \in 1 .. Len(to_terminal)  BY <2>3, <2>5, <3>2
        <4> QED  BY <2>5, <4>1 DEF TxInv
      <3> QED  BY <3>1, <3>2
    <2>7. Len(tx_sent) = Len(tx_shown) + Len(to_terminal') + (1 - 1)
          /\ Len(to_terminal') <= PipeSize
      BY <2>1, <2>2, <2>3, <2>5
    <2>8. /\ tx_sent' = tx_sent /\ tx_shown' = tx_shown /\ tx_fifo' = tx_fifo /\ tx_empty' = 1
          /\ phase' = "plic" /\ tx_stray' = tx_stray
      BY <1>1, <2>1
    <2>9. /\ tx_sent' \in Seq(Printable) /\ tx_shown' \in Seq(Printable)
          /\ tx_fifo' \in Byte /\ Len(tx_sent') <= MaxSent /\ tx_stray' \subseteq 1 .. MaxSent
      BY <2>8 DEF TxInv
    <2>10. \A i \in 1 .. Len(tx_shown') : tx_shown'[i] = tx_sent'[i]
      BY <2>8 DEF TxInv
    <2>11. \A i \in 1 .. Len(to_terminal') : to_terminal'[i] = tx_sent'[Len(tx_shown') + i]
      BY <2>6, <2>8
    <2>12. /\ to_terminal' \in Seq(Printable) /\ Len(to_terminal') <= PipeSize
           /\ Len(tx_sent') = Len(tx_shown') + Len(to_terminal') + (1 - tx_empty')
      BY <2>5, <2>7, <2>8
    <2>13. tx_empty' \in 0 .. 1 /\ phase' \in {"exec", "serial", "plic", "aborted"}
           /\ phase' # "serial"
      BY <2>8
    <2>14. tx_empty' = 1 /\ tx_empty' # 0  BY <2>8
    <2> QED  BY <2>9, <2>10, <2>11, <2>12, <2>13, <2>14, Zenon DEF TxInv
  <1>4. tx_empty = 0 \/ tx_empty = 1  BY DEF TxInv
  <1> QED  BY <1>2, <1>3, <1>4

LEMMA TxShows == ASSUME TxInv, Show PROVE TxInv' /\ Tx!Next
  <1> DEFINE n == IF Len(to_terminal) < ChunkMax THEN Len(to_terminal) ELSE ChunkMax
             chunk == SubSeq(to_terminal, 1, n)
             rest == SubSeq(to_terminal, n + 1, Len(to_terminal))
             sh == Len(tx_shown)
             L == Len(to_terminal)
  <1>1. /\ to_terminal # <<>> /\ tx_shown' = tx_shown \o Printed(chunk) /\ to_terminal' = rest
        /\ \/ UNCHANGED tx_stray
           \/ Len(chunk) = ChunkMax /\ tx_stray' = tx_stray \cup {Len(tx_shown')}
        /\ UNCHANGED <<phase, tx_fifo, tx_empty, tx_sent>>
    BY DEF Show, Unterminated, txreg
  <1>2. /\ to_terminal \in Seq(Printable) /\ tx_shown \in Seq(Printable)
        /\ L \in Nat \ {0} /\ sh \in Nat
    BY <1>1 DEF TxInv
  <1>3. n \in 1 .. L  BY <1>2, ConsoleConstants
  <1> HIDE DEF n
  <1>4. /\ chunk \in Seq(Printable) /\ Len(chunk) = n
        /\ \A k \in 1 .. n : chunk[k] = to_terminal[k]
    BY <1>2, <1>3
  <1>5. /\ rest \in Seq(Printable) /\ Len(rest) = L - n
        /\ \A k \in 1 .. L - n : rest[k] = to_terminal[n + k]
    BY <1>2, <1>3
  <1>6. tx_shown' = tx_shown \o chunk  BY <1>1, <1>4, PrintedWhole
  <1> HIDE DEF chunk, rest
  <1>7. /\ tx_shown' \in Seq(Printable) /\ Len(tx_shown') = sh + n
        /\ \A k \in 1 .. sh : tx_shown'[k] = tx_shown[k]
        /\ \A k \in sh + 1 .. sh + n : tx_shown'[k] = chunk[k - sh]
    <2>1. tx_shown \o chunk \in Seq(Printable) /\ Len(tx_shown \o chunk) = sh + n
      BY <1>2, <1>4, Joined
    <2>2. /\ \A k \in 1 .. sh : (tx_shown \o chunk)[k] = tx_shown[k]
          /\ \A k \in sh + 1 .. sh + n : (tx_shown \o chunk)[k] = chunk[k - sh]
      BY <1>2, <1>4, Joined
    <2> QED  BY <1>6, <2>1, <2>2
  <1>8. \A i \in 1 .. L : to_terminal[i] = tx_sent[sh + i]  BY DEF TxInv
  <1>9. ASSUME NEW k \in sh + 1 .. sh + n PROVE tx_shown'[k] = tx_sent[k]
    <2>1. k - sh \in 1 .. n /\ k - sh \in 1 .. L /\ sh + (k - sh) = k  BY <1>2, <1>3
    <2>2. tx_sent[k] = to_terminal[k - sh]  BY <1>8, <2>1
    <2> QED  BY <1>4, <1>7, <2>1, <2>2
  <1>10. \A k \in 1 .. sh : tx_shown'[k] = tx_sent[k]  BY <1>7 DEF TxInv
  <1>11. ASSUME NEW i \in 1 .. L - n PROVE to_terminal'[i] = tx_sent[Len(tx_shown') + i]
    <2>1. n + i \in 1 .. L /\ sh + (n + i) = (sh + n) + i  BY <1>2, <1>3
    <2>2. to_terminal[n + i] = tx_sent[(sh + n) + i]  BY <1>8, <2>1
    <2> QED  BY <1>1, <1>5, <1>7, <2>2
  <1>12. Len(tx_sent) = sh + L + (1 - tx_empty) /\ tx_empty \in 0 .. 1  BY DEF TxInv
  <1>13. /\ Len(tx_sent) = Len(tx_shown') + Len(to_terminal') + (1 - tx_empty)
         /\ Len(to_terminal') <= L
    BY <1>1, <1>2, <1>3, <1>5, <1>7, <1>12
  <1>14. \A k \in 1 .. Len(tx_shown') : tx_shown'[k] = tx_sent[k]
    <2> TAKE k \in 1 .. Len(tx_shown')
    <2>1. Len(tx_shown') = sh + n  BY <1>7
    <2>2. k \in 1 .. sh \/ k \in sh + 1 .. sh + n  BY <1>2, <1>3, <2>1
    <2> QED  BY <1>9, <1>10, <2>2
  <1>15. TxInv'
    <2>1. Len(to_terminal') <= PipeSize  BY <1>2, <1>5, <1>1, <1>13, SerialConstants DEF TxInv
    <2>2. \A i \in 1 .. Len(to_terminal') : to_terminal'[i] = tx_sent[Len(tx_shown') + i]
      BY <1>1, <1>5, <1>11
    <2>3. tx_stray' \subseteq 1 .. MaxSent
      <3>1. /\ Len(tx_sent) <= MaxSent /\ tx_stray \subseteq 1 .. MaxSent /\ MaxSent \in Nat
            /\ Len(tx_sent) = sh + L + (1 - tx_empty) /\ tx_empty \in 0 .. 1
        BY <1>12, ConsoleConstants DEF TxInv
      <3>2. sh + n \in 1 .. MaxSent  BY <1>2, <1>3, <3>1
      <3> QED  BY <1>1, <1>7, <3>1, <3>2
    <2> QED  BY <1>1, <1>5, <1>7, <1>13, <1>14, <2>1, <2>2, <2>3 DEF TxInv
  <1>16. Tx!Receive
    <2>1. sh < Len(tx_sent) /\ sh + n \in sh + 1 .. Len(tx_sent)
      BY <1>2, <1>3, <1>12
    <2>2. /\ Len(tx_shown') = sh + n /\ tx_sent' = tx_sent
          /\ \A k \in sh + 1 .. sh + n : tx_shown'[k] \in {tx_sent[k]} \cup {}
      BY <1>1, <1>7, <1>9
    <2>3. \/ UNCHANGED tx_stray
          \/ sh + n >= sh + ChunkMax /\ tx_stray' = tx_stray \cup {sh + n}
      <3>1. CASE UNCHANGED tx_stray  BY <3>1
      <3>2. CASE Len(chunk) = ChunkMax /\ tx_stray' = tx_stray \cup {Len(tx_shown')}
        <4>1. Len(tx_shown') = sh + n /\ n = ChunkMax  BY <1>4, <1>7, <3>2
        <4>2. sh + n >= sh + ChunkMax  BY <1>2, <4>1, ConsoleConstants
        <4> QED  BY <3>2, <4>1, <4>2
      <3> QED  BY <1>1, <3>1, <3>2
    <2> QED  BY <1>7, <2>1, <2>2, <2>3 DEF Tx!Receive
  <1> QED  BY <1>15, <1>16 DEF Tx!Next

LEMMA TxStep ==
    ASSUME TxInv, [CNext]_cvars
    PROVE  TxInv' /\ (Tx!Next \/ UNCHANGED txhist)
  <1>1. CASE GuestReads \/ GuestControls \/ GuestPlic \/ GuestOther
    <2>1. /\ phase = "exec" /\ phase' = "serial"
          /\ UNCHANGED <<txhist, to_terminal, tx_empty>>
          /\ tx_fifo' \in {tx_fifo, 0}
      BY <1>1 DEF GuestReads, GuestControls, GuestPlic, GuestOther, Guest, ReadRx, WriteCtrl,
                  svars, txreg, pipes, txhist
    <2>2. tx_empty = 1 /\ tx_fifo' \in Byte
      BY <2>1, SerialConstants DEF TxInv, Byte
    <2> QED  BY <2>1, <2>2, TxIdle
  <1>2. CASE UNCHANGED cvars \/ Type \/ UpdatePlic \/ GuestAborts
    <2>1. /\ UNCHANGED <<txhist, to_terminal, tx_empty, tx_fifo>>
          /\ \/ phase' = phase
             \/ phase = "plic" /\ phase' = "exec"
             \/ phase = "exec" /\ phase' = "aborted"
      BY <1>2 DEF cvars, svars, Type, UpdatePlic, GuestAborts, txreg, pipes, txhist
    <2>2. /\ tx_fifo' \in Byte /\ phase' \in {"exec", "serial", "plic", "aborted"}
          /\ phase' # "serial" => tx_empty = 1
      BY <2>1 DEF TxInv
    <2> QED  BY <2>1, <2>2, TxIdle
  <1>3. CASE GuestPrints  BY <1>3, TxPrints
  <1>4. CASE UpdateSerial
    BY <1>4, TxTransmits DEF UpdateSerial, txhist
  <1>5. CASE Show  BY <1>5, TxShows
  <1> QED  BY <1>1, <1>2, <1>3, <1>4, <1>5 DEF CNext, Emulator, Ended

-----------------------------------------------------------------------------
(* The steps of the receiving side.                                        *)

\* A byte that the register holds as a C char is read as the byte it was.
LEMMA RdataOfChar ==
    /\ Half \in Nat \ {0}
    /\ \A b \in Byte : Char(b) \in -Half .. 2 * Half - 1 /\ Rdata(Char(b)) = b
    /\ Rdata(0) = NUL /\ \A v \in -Half .. 2 * Half - 1 : Rdata(v) \in Byte
  <1>1. Half \in Nat \ {0}  BY SerialConstants
  <1> DEFINE m == 2 * Half
  <1>2. m \in Nat \ {0}  BY <1>1
  <1>3. ASSUME NEW b \in Byte PROVE Char(b) \in -Half .. 2 * Half - 1 /\ Rdata(Char(b)) = b
    <2>1. b \in 0 .. m - 1 /\ b \in Int  BY <1>1 DEF Byte
    <2>2. CASE b >= Half
      <3>1. Char(b) = b - m /\ Char(b) \in -Half .. 2 * Half - 1  BY <1>1, <2>1, <2>2 DEF Char
      <3> HIDE DEF m
      <3>2. b - m \in Int /\ b - m = m * (-1) + b  BY <1>2, <2>1
      <3>3. -1 \in Int  OBVIOUS
      <3>4. (b - m) % m = b  BY ONLY <1>2, <2>1, <3>2, <3>3, Remainder
      <3> QED  BY <3>1, <3>4 DEF Rdata, m
    <2>3. CASE ~(b >= Half)
      <3>1. Char(b) = b /\ Char(b) \in -Half .. 2 * Half - 1  BY <1>1, <2>1, <2>3 DEF Char
      <3> HIDE DEF m
      <3>2. b = m * 0 + b /\ 0 \in Int  BY <1>2, <2>1
      <3>3. b % m = b  BY ONLY <1>2, <2>1, <3>2, Remainder
      <3> QED  BY <3>1, <3>3 DEF Rdata, m
    <2> QED  BY <2>2, <2>3
  <1>4. Rdata(0) = NUL
    <2> HIDE DEF m
    <2>1. 0 = m * 0 + 0 /\ 0 \in Int /\ 0 \in 0 .. m - 1  BY <1>2
    <2>2. 0 % m = 0  BY ONLY <1>2, <2>1, Remainder
    <2> QED  BY <2>2 DEF Rdata, NUL, m
  <1>5. ASSUME NEW v \in -Half .. 2 * Half - 1 PROVE Rdata(v) \in Byte
    <2>1. v \in Int  OBVIOUS
    <2> HIDE DEF m
    <2>2. (v % m) \in 0 .. m - 1  BY ONLY <1>2, <2>1, Division
    <2> QED  BY <2>2 DEF Rdata, Byte, m
  <1> QED  BY <1>1, <1>3, <1>4, <1>5

\* The steps that leave the receiver alone, or reset its data.
LEMMA RxIdle ==
    ASSUME RxInv, rx_fifo' \in {rx_fifo, 0},
           UNCHANGED <<rx_typed, rx_read, to_emulator, rx_valid>>
    PROVE  RxInv'
  <1>1. rx_fifo' \in -Half .. 2 * Half - 1  BY RdataOfChar DEF RxInv
  <1>2. Taken' = Taken  BY DEF Taken
  <1>3. rx_valid = 1 => Rdata(rx_fifo') \in {rx_typed[Taken], NUL}
    BY RdataOfChar DEF RxInv
  <1> QED  BY <1>1, <1>2, <1>3 DEF RxInv

\* The guest reads: a valid byte is delivered, and the register is free.
LEMMA RxReads == ASSUME RxInv, GuestReads PROVE RxInv' /\ (Rx!Next \/ UNCHANGED <<rx_typed, rx_read>>)
  <1>1. /\ rx_valid' = 0 /\ UNCHANGED <<rx_fifo, to_emulator, rx_typed>>
        /\ rx_read' = IF rx_valid = 1 THEN Append(rx_read, Rdata(rx_fifo)) ELSE rx_read
    BY DEF GuestReads, ReadRx, pipes
  <1>2. CASE rx_valid = 0
    <2>1. UNCHANGED <<rx_typed, rx_read, to_emulator, rx_valid>> /\ rx_fifo' = rx_fifo
      BY <1>1, <1>2
    <2> QED  BY <2>1, RxIdle
  <1>3. CASE rx_valid = 1
    <2> DEFINE r == Len(rx_read)
               b == Rdata(rx_fifo)
    <2>1. /\ rx_read \in Seq(Byte) /\ r \in Nat /\ Taken = r + 1 /\ b \in {rx_typed[r + 1], NUL}
      BY <1>3 DEF RxInv, Taken
    <2>2. b \in Byte  BY RdataOfChar DEF RxInv
    <2> HIDE DEF b
    <2>3. /\ rx_read' \in Seq(Byte) /\ Len(rx_read') = r + 1 /\ rx_read'[r + 1] = b
          /\ \A k \in 1 .. r : rx_read'[k] = rx_read[k]
      BY <1>1, <1>3, <2>1, <2>2, Appended DEF b
    <2>4. Taken' = Taken  BY <1>1, <2>1, <2>3 DEF Taken
    <2>5. \A i \in 1 .. Len(rx_read') : rx_read'[i] \in {rx_typed[i], NUL}
      <3> TAKE i \in 1 .. Len(rx_read')
      <3>1. CASE i = r + 1  BY <2>1, <2>3, <3>1
      <3>2. CASE i # r + 1
        <4>1. i \in 1 .. r  BY <2>1, <2>3, <3>2
        <4> QED  BY <2>3, <4>1 DEF RxInv
      <3> QED  BY <3>1, <3>2
    <2>6. RxInv'  BY <1>1, <2>3, <2>4, <2>5 DEF RxInv
    <2>7. r + 1 \in Len(rx_read) + 1 .. Len(rx_typed) /\ r < Len(rx_typed)
      BY <2>1 DEF RxInv
    <2>8. \A k \in r + 1 .. r + 1 : rx_read'[k] \in {rx_typed[k]} \cup {NUL}
      BY <2>1, <2>3
    <2>9. Rx!Receive
      <3>1. r + 1 \in Len(rx_read) + 1 .. Len(rx_typed)  BY <2>7
      <3>2. \A k \in 1 .. Len(rx_read) : rx_read'[k] = rx_read[k]  BY <2>3
      <3>3. Len(rx_read') = r + 1 /\ UNCHANGED rx_typed  BY <1>1, <2>3
      <3> QED  BY <2>7, <2>8, <3>1, <3>2, <3>3 DEF Rx!Receive
    <2> QED  BY <2>6, <2>9 DEF Rx!Next
  <1>4. rx_valid \in 0 .. 1  BY DEF RxInv
  <1> QED  BY <1>2, <1>3, <1>4

LEMMA RxTypes == ASSUME RxInv, Type PROVE RxInv' /\ (Rx!Next \/ UNCHANGED <<rx_typed, rx_read>>)
  <1>1. PICK b \in TypedBytes :
           /\ to_emulator' = Append(to_emulator, b)
           /\ rx_typed' = IF b = NUL THEN rx_typed ELSE Append(rx_typed, b)
    BY DEF Type
  <1>2. /\ Len(rx_typed) < MaxSent /\ Len(to_emulator) < PipeSize
        /\ UNCHANGED <<rx_fifo, rx_valid, rx_read>>
    BY DEF Type, rxreg
  <1>3. b \in Byte  BY ConsoleConstants
  <1>4. /\ to_emulator \in Seq(Byte) /\ rx_typed \in Seq(Printable) /\ rx_read \in Seq(Byte)
        /\ rx_valid \in 0 .. 1 /\ Taken \in Nat
    BY DEF RxInv, Taken
  <1>5. PICK w \in Nat : /\ Taken + w = Len(rx_typed)
                         /\ \E p : Places(p, w, to_emulator, rx_typed, Taken)
    BY DEF RxInv
  <1>6. PICK p : Places(p, w, to_emulator, rx_typed, Taken)  BY <1>5
  <1>7. to_emulator' \in Seq(Byte) /\ Len(to_emulator') <= PipeSize
    <2>1. Len(to_emulator) \in Nat /\ PipeSize \in Nat  BY <1>4, SerialConstants
    <2> QED  BY <1>1, <1>2, <1>3, <1>4, <2>1, Appended
  <1>8. Taken' = Taken  BY <1>2 DEF Taken
  <1>9. CASE b = NUL
    <2>1. Places(p, w, to_emulator', rx_typed', Taken')
      BY <1>1, <1>3, <1>4, <1>5, <1>6, <1>8, <1>9, PlacesAppend
    <2>2. rx_typed' = rx_typed  BY <1>1, <1>9
    <2>3. RxInv'  BY <1>2, <1>5, <1>7, <1>8, <2>1, <2>2 DEF RxInv
    <2> QED  BY <1>2, <2>2, <2>3
  <1>10. CASE b # NUL
    <2>1. rx_typed' = Append(rx_typed, b) /\ b \in Printable  BY <1>1, <1>3, <1>10 DEF Printable
    <2>2. \E q : Places(q, w + 1, to_emulator', rx_typed', Taken')
      BY <1>1, <1>3, <1>4, <1>5, <1>6, <1>8, <1>10, <2>1, PlacesAppend
    <2>3. /\ rx_typed' \in Seq(Printable) /\ Len(rx_typed') = Len(rx_typed) + 1
          /\ \A k \in 1 .. Len(rx_typed) : rx_typed'[k] = rx_typed[k]
      BY <1>4, <2>1, Appended
    <2>4. w + 1 \in Nat /\ Taken' + (w + 1) = Len(rx_typed')
      <3>1. Len(rx_typed') = Len(rx_typed) + 1  BY <2>3
      <3>2. Taken \in Nat /\ w \in Nat /\ Taken + w = Len(rx_typed)  BY <1>4, <1>5
      <3> QED  BY <1>8, <3>1, <3>2
    <2>5. Len(rx_typed') <= MaxSent
      <3>1. Len(rx_typed) \in Nat /\ MaxSent \in Nat  BY <1>4, ConsoleConstants
      <3> QED  BY <1>2, <2>3, <3>1
    <2>6. Len(rx_read) <= Taken /\ Len(rx_read) \in Nat  BY <1>4 DEF Taken
    <2>7. \A i \in 1 .. Len(rx_read') : rx_read'[i] \in {rx_typed'[i], NUL}
      <3> TAKE i \in 1 .. Len(rx_read')
      <3>1. i \in 1 .. Len(rx_typed) /\ i \in 1 .. Len(rx_read)  BY <1>2, <1>4, <1>5, <2>6
      <3> QED  BY <1>2, <2>3, <3>1 DEF RxInv
    <2>8. rx_valid' = 1 => Rdata(rx_fifo') \in {rx_typed'[Taken'], NUL}
      <3>1. rx_valid = 1 => Taken \in 1 .. Len(rx_typed)  BY <1>4, <1>5 DEF Taken
      <3> QED  BY <1>2, <1>8, <2>3, <3>1 DEF RxInv
    <2>9. RxInv'
      BY <1>2, <1>7, <2>2, <2>3, <2>4, <2>5, <2>7, <2>8 DEF RxInv
    <2>10. Rx!Send  BY <1>2, <1>3, <2>1 DEF Rx!Send
    <2> QED  BY <2>9, <2>10 DEF Rx!Next
  <1> QED  BY <1>9, <1>10 DEF Rx!Next

\* The port takes a byte from the pipe when its register is free.
LEMMA RxReceives == ASSUME RxInv, UpdateSerial PROVE RxInv'
  <1>1. Receive /\ UNCHANGED <<rx_typed, rx_read>>
    BY DEF UpdateSerial, SerialUpdate, rxhist
  <1>2. CASE ~(rx_valid = 0 /\ to_emulator # <<>>)
    <2>1. UNCHANGED <<to_emulator, rx_valid, rx_fifo>>  BY <1>1, <1>2 DEF Receive, rxreg
    <2> QED  BY <1>1, <2>1, RxIdle
  <1>3. CASE rx_valid = 0 /\ to_emulator # <<>>
    <2>1. /\ to_emulator' = Tail(to_emulator)
          /\ IF Head(to_emulator) # NUL
             THEN rx_fifo' = Char(Head(to_emulator)) /\ rx_valid' = 1
             ELSE rx_fifo' = rx_fifo /\ rx_valid' = rx_valid
      BY <1>1, <1>3 DEF Receive, rxreg
    <2>2. /\ to_emulator \in Seq(Byte) /\ rx_typed \in Seq(Printable) /\ rx_read \in Seq(Byte)
          /\ Taken = Len(rx_read) /\ Taken \in Nat
      BY <1>3 DEF RxInv, Taken
    <2>3. /\ to_emulator' \in Seq(Byte) /\ Len(to_emulator') <= PipeSize
          /\ Head(to_emulator) \in Byte
      <3>1. Len(to_emulator) <= PipeSize  BY DEF RxInv
      <3>2. Len(Tail(to_emulator)) = Len(to_emulator) - 1 /\ Len(to_emulator) \in Nat
        BY <1>3, <2>2
      <3> QED  BY <1>3, <2>1, <2>2, <3>1, <3>2, SerialConstants
    <2>4. PICK w \in Nat : /\ Taken + w = Len(rx_typed)
                           /\ \E p : Places(p, w, to_emulator, rx_typed, Taken)
      BY DEF RxInv
    <2>5. PICK p : Places(p, w, to_emulator, rx_typed, Taken)  BY <2>4
    <2>6. CASE Head(to_emulator) = NUL
      <3>1. \E q : Places(q, w, to_emulator', rx_typed, Taken)
        BY <1>3, <2>1, <2>2, <2>4, <2>5, <2>6, PlacesDrop
      <3>2. UNCHANGED <<rx_fifo, rx_valid>> /\ Taken' = Taken
        BY <1>1, <2>1, <2>6 DEF Taken
      <3> QED  BY <1>1, <2>3, <2>4, <3>1, <3>2 DEF RxInv
    <2>7. CASE Head(to_emulator) # NUL
      <3>1. /\ w > 0 /\ Head(to_emulator) = rx_typed[Taken + 1]
            /\ \E q : Places(q, w - 1, to_emulator', rx_typed, Taken + 1)
        <4>1. /\ w > 0 /\ Head(to_emulator) = rx_typed[Taken + 1]
              /\ \E q : Places(q, w - 1, Tail(to_emulator), rx_typed, Taken + 1)
          <5> DEFINE n == Taken
          <5>1. /\ n \in Nat /\ n + w = Len(rx_typed) /\ Places(p, w, to_emulator, rx_typed, n)
                /\ to_emulator # <<>> /\ Head(to_emulator) # NUL
                /\ to_emulator \in Seq(Byte) /\ rx_typed \in Seq(Printable) /\ w \in Nat
            BY <1>3, <2>2, <2>4, <2>5, <2>7
          <5> HIDE DEF n
          <5>2. /\ w > 0 /\ Head(to_emulator) = rx_typed[n + 1]
                /\ \E q : Places(q, w - 1, Tail(to_emulator), rx_typed, n + 1)
            BY ONLY <5>1, PlacesTake, Zenon
          <5> QED  BY <5>2 DEF n
        <4> QED  BY <2>1, <4>1, Zenon
      <3>2. Taken' = Taken + 1 /\ rx_valid' = 1 /\ rx_fifo' = Char(Head(to_emulator))
        BY <1>1, <2>1, <2>2, <2>7 DEF Taken
      <3>3. w - 1 \in Nat /\ (Taken + 1) + (w - 1) = Len(rx_typed)
        BY ONLY <2>2, <2>4, <3>1
      <3>4. rx_fifo' \in -Half .. 2 * Half - 1 /\ Rdata(rx_fifo') = rx_typed[Taken']
        BY <2>3, <3>1, <3>2, RdataOfChar
      <3>5. /\ rx_typed' = rx_typed /\ rx_read' = rx_read
            /\ \E q : Places(q, w - 1, to_emulator', rx_typed', Taken')
            /\ Taken' + (w - 1) = Len(rx_typed')
        BY <1>1, <3>1, <3>2, <3>3
      <3> QED  BY <2>3, <3>2, <3>3, <3>4, <3>5 DEF RxInv
    <2> QED  BY <2>6, <2>7
  <1> QED  BY <1>2, <1>3

LEMMA RxStep ==
    ASSUME RxInv, [CNext]_cvars
    PROVE  RxInv' /\ (Rx!Next \/ UNCHANGED <<rx_typed, rx_read>>)
  <1>1. CASE GuestPrints \/ GuestControls \/ GuestPlic \/ GuestOther \/ GuestAborts
             \/ UpdatePlic \/ Show \/ UNCHANGED cvars
    <2>1. /\ UNCHANGED <<rx_typed, rx_read, to_emulator, rx_valid>>
          /\ rx_fifo' \in {rx_fifo, 0}
      BY <1>1 DEF GuestPrints, GuestControls, GuestPlic, GuestOther, GuestAborts, UpdatePlic, Show,
                  WriteTx, WriteCtrl, cvars, svars, rxreg, pipes, rxhist
    <2> QED  BY <2>1, RxIdle
  <1>2. CASE GuestReads  BY <1>2, RxReads
  <1>3. CASE Type  BY <1>3, RxTypes
  <1>4. CASE UpdateSerial
    BY <1>4, RxReceives DEF UpdateSerial, rxhist
  <1> QED  BY <1>1, <1>2, <1>3, <1>4 DEF CNext, Emulator, Ended

-----------------------------------------------------------------------------
(* The console as a whole.                                                 *)

OtherTypes ==
    Intr_enable \in 0 .. 1 /\ exteranl_irq2 \subseteq {UartSource}

ConsoleInv == Announced /\ TxInv /\ RxInv /\ OtherTypes

LEMMA ConsoleInit == CInit => ConsoleInv /\ Tx!Init /\ Rx!Init
  <1> SUFFICES ASSUME CInit PROVE ConsoleInv /\ Tx!Init /\ Rx!Init  OBVIOUS
  <1>1. Announced  BY InitAnnounces
  <1>2. /\ tx_sent = <<>> /\ tx_shown = <<>> /\ tx_stray = {} /\ rx_typed = <<>> /\ rx_read = <<>>
        /\ to_terminal = <<>> /\ to_emulator = <<>> /\ phase = "exec"
        /\ rx_fifo = 0 /\ rx_valid = 0 /\ tx_fifo = 0 /\ tx_empty = 1
        /\ Intr_enable = 0 /\ exteranl_irq2 = {}
    BY DEF CInit, SerialInit
  <1>3. /\ Half \in Nat \ {0} /\ PipeSize \in Nat \ {0} /\ MaxSent \in Nat
        /\ \A S : <<>> \in Seq(S)
        /\ Len(<<>>) = 0
    BY SerialConstants, ConsoleConstants
  <1>4. TxInv  BY <1>2, <1>3 DEF TxInv, Byte
  <1>5. RxInv
    <2>1. Taken = 0  BY <1>2, <1>3 DEF Taken
    <2>2. Places(<<>>, 0, <<>>, <<>>, 0)  BY DEF Places
    <2>3. \E w \in Nat : /\ Taken + w = Len(rx_typed)
                          /\ \E p : Places(p, w, to_emulator, rx_typed, Taken)
      <3>1. 0 \in Nat /\ Taken + 0 = Len(rx_typed)  BY <1>2, <1>3, <2>1
      <3>2. \E p : Places(p, 0, to_emulator, rx_typed, Taken)  BY <1>2, <2>1, <2>2
      <3> QED  BY <3>1, <3>2
    <2>4. /\ rx_fifo \in -Half .. 2 * Half - 1 /\ rx_valid \in 0 .. 1
          /\ Len(rx_typed) <= MaxSent /\ Len(to_emulator) <= PipeSize
          /\ rx_typed \in Seq(Printable) /\ rx_read \in Seq(Byte) /\ to_emulator \in Seq(Byte)
          /\ 1 .. Len(rx_read) = {} /\ rx_valid # 1
      BY <1>2, <1>3
    <2> QED  BY <2>3, <2>4 DEF RxInv
  <1>6. OtherTypes  BY <1>2 DEF OtherTypes
  <1> QED  BY <1>1, <1>2, <1>4, <1>5, <1>6 DEF ConsoleInv, Tx!Init, Rx!Init

LEMMA OtherStep == ASSUME OtherTypes, [CNext]_cvars PROVE OtherTypes'
  <1>1. CASE UpdateSerial
    BY <1>1 DEF UpdateSerial, SerialUpdate, Transmit, OtherTypes
  <1>2. CASE GuestControls
    BY <1>2 DEF GuestControls, WriteCtrl, irqs, OtherTypes
  <1>3. CASE GuestReads \/ GuestPrints \/ GuestPlic \/ GuestOther \/ GuestAborts
             \/ UpdatePlic \/ Type \/ Show \/ UNCHANGED cvars
    BY <1>3 DEF GuestReads, GuestPrints, GuestPlic, GuestOther, GuestAborts, UpdatePlic, Type, Show,
                ReadRx, WriteTx, cvars, svars, irqs, OtherTypes
  <1> QED  BY <1>1, <1>2, <1>3 DEF CNext, Emulator, Ended

LEMMA ConsoleStep ==
    ASSUME ConsoleInv, [CNext]_cvars
    PROVE  /\ ConsoleInv'
           /\ Tx!Next \/ UNCHANGED txhist
           /\ Rx!Next \/ UNCHANGED <<rx_typed, rx_read>>
  BY StepAnnounces, TxStep, RxStep, OtherStep DEF ConsoleInv

\* The registers and the pipes keep their widths, and no direction delivers more than
\* it was given (serial.c:13-36, mayfly_serial.c:15-60).
THEOREM ConsoleTypeCorrect == CSpec => []CTypeOK
  <1>1. ConsoleInv => CTypeOK
    <2> SUFFICES ASSUME Announced, TxInv, RxInv, OtherTypes PROVE CTypeOK
      BY DEF ConsoleInv
    <2>1. \A s : s \in Seq(Printable) => s \in Seq(Byte)  BY DEF Printable
    <2>2. SerialTypeOK
      BY <2>1, RdataOfChar DEF SerialTypeOK, TxInv, RxInv, OtherTypes, Announced
    <2>3. PlicTypeOK /\ phase \in {"exec", "serial", "plic", "aborted"}  BY DEF Announced
    <2>4. /\ tx_sent \in Seq(Byte) /\ Len(tx_sent) <= MaxSent /\ tx_stray \subseteq 1 .. MaxSent
          /\ rx_typed \in Seq(Byte) /\ Len(rx_typed) <= MaxSent
      BY <2>1 DEF TxInv, RxInv
    <2>5. tx_shown \in Seq(Byte) /\ Len(tx_shown) <= MaxSent
      <3>1. /\ Len(tx_shown) \in Nat /\ Len(to_terminal) \in Nat /\ tx_empty \in 0 .. 1
            /\ Len(tx_sent) = Len(tx_shown) + Len(to_terminal) + (1 - tx_empty)
        BY DEF TxInv
      <3>2. tx_shown \in Seq(Byte)  BY <2>1 DEF TxInv
      <3> QED  BY <2>4, <3>1, <3>2, ConsoleConstants
    <2>6. rx_read \in Seq(Byte) /\ Len(rx_read) <= MaxSent
      <3>1. rx_read \in Seq(Byte) /\ rx_valid \in 0 .. 1  BY DEF RxInv
      <3>2. PICK w \in Nat : Taken + w = Len(rx_typed)  BY DEF RxInv
      <3>3. Len(rx_read) <= Len(rx_typed)  BY <2>4, <3>1, <3>2 DEF Taken
      <3> QED  BY <2>4, <3>1, <3>3, ConsoleConstants
    <2> QED  BY <2>2, <2>3, <2>4, <2>5, <2>6 DEF CTypeOK
  <1> QED  BY <1>1, ConsoleInit, ConsoleStep, PTL DEF CSpec

\* No byte disappears between its store and the screen or between the keyboard and
\* its load: the transmit register is never overwritten, a received byte never
\* dropped for another (serial.c:60-113).
THEOREM BytesAreKept == CSpec => []NoByteLost
  <1>1. ConsoleInv => NoByteLost
    <2> SUFFICES ASSUME Announced, TxInv, RxInv, OtherTypes PROVE NoByteLost
      BY DEF ConsoleInv
    <2>1. PICK w \in Nat : /\ Taken + w = Len(rx_typed)
                           /\ \E p : Places(p, w, to_emulator, rx_typed, Taken)
      BY DEF RxInv
    <2>2. PICK p : Places(p, w, to_emulator, rx_typed, Taken)  BY <2>1
    <2>3. /\ to_emulator \in Seq(Byte) /\ rx_typed \in Seq(Printable) /\ Taken \in Nat
      BY DEF RxInv, Taken
    <2>4. Cardinality({k \in DOMAIN to_emulator : to_emulator[k] # NUL}) = w
      BY <2>1, <2>2, <2>3, PlacesCounts
    <2>5. Len(rx_typed) = Len(rx_read) + rx_valid + w  BY <2>1 DEF Taken
    <2>6. Len(tx_sent) = Len(tx_shown) + Len(to_terminal) + (1 - tx_empty)  BY DEF TxInv
    <2> QED  BY <2>4, <2>5, <2>6 DEF NoByteLost
  <1> QED  BY <1>1, ConsoleInit, ConsoleStep, PTL DEF CSpec

\* What the guest stores to the transmit register is printed in order, once, and nothing
\* else is, except behind a read that filled the buffer of the terminal: the port, the
\* pipe and the terminal together implement the channel (serial.c:88-99,
\* mayfly_serial.c:28-42).
THEOREM TransmitterIsChannel == CSpec => TxChannel
  <1>1. CSpec => Tx!Init /\ [][Tx!Next]_txhist
    BY ConsoleInit, ConsoleStep, PTL DEF CSpec
  <1> QED  BY <1>1 DEF TxChannel, Tx!Spec, txhist

\* What is typed is read in order, once, or arrives as NUL after the guest's reset.
THEOREM ReceiverIsChannel == CSpec => RxChannel
  <1> DEFINE hist == <<rx_typed, rx_read, {}>>
  <1>1. CInit => Rx!Init  BY ConsoleInit
  <1>2. ConsoleInv /\ [CNext]_cvars => ConsoleInv' /\ [Rx!Next]_hist
    <2> SUFFICES ASSUME ConsoleInv, [CNext]_cvars PROVE ConsoleInv' /\ [Rx!Next]_hist
      OBVIOUS
    <2>1. UNCHANGED <<rx_typed, rx_read>> => UNCHANGED hist  OBVIOUS
    <2> QED  BY <2>1, ConsoleStep
  <1>3. CInit => ConsoleInv  BY ConsoleInit
  <1> QED  BY <1>1, <1>2, <1>3, PTL DEF CSpec, RxChannel, Rx!Spec

-----------------------------------------------------------------------------
(* The controller between this guest and this port is the one of PlicBoard *)
(* between any guest and any devices.                                      *)

Board == INSTANCE PlicBoard
            WITH board <- IF phase \in {"exec", "aborted"} THEN phase ELSE "update"

LEMMA BoardGuest ==
    ASSUME GuestReads \/ GuestPrints \/ GuestControls \/ GuestPlic \/ GuestOther
    PROVE  Board!Guest
<1>1. phase = "exec" /\ phase' = "serial"
  BY DEF GuestReads, GuestPrints, GuestControls, GuestPlic, GuestOther, Guest
<1>2. CASE UNCHANGED pvars
  BY <1>1, <1>2 DEF Board!Guest, Board!pvars, pvars
<1>3. CASE PlicConfigure
  BY <1>1, <1>3 DEF Board!Guest, Board!PlicConfigure, PlicConfigure
<1>4. CASE WriteSeip
  BY <1>1, <1>4 DEF Board!Guest, Board!WriteSeip, WriteSeip, Board!pconfig, pconfig
<1>5. ASSUME NEW id \in Ids, PlicComplete(id) PROVE Board!Guest
  <2>1. Board!PlicComplete(id)
    BY <1>5 DEF Board!PlicComplete, PlicComplete, Board!pconfig, pconfig
  <2>2. QED
    BY <1>1, <2>1 DEF Board!Guest
<1>6. CASE PlicOverrun
  BY <1>1, <1>6 DEF Board!Guest, Board!PlicOverrun, PlicOverrun, Board!pconfig, pconfig
<1>7. QED
  BY <1>2, <1>3, <1>4, <1>5, <1>6
  DEF GuestReads, GuestPrints, GuestControls, GuestPlic, GuestOther

LEMMA BoardDevices ==
    ASSUME exteranl_irq \subseteq Sources, UpdatePlic PROVE Board!Devices
<1>1. phase = "plic" /\ phase' = "exec" /\ PlicUpdate(exteranl_irq)
  BY DEF UpdatePlic
<1>2. Board!PlicUpdate(exteranl_irq)
  BY <1>1 DEF Board!PlicUpdate, PlicUpdate, Board!Wins, Wins, Board!pconfig, pconfig
<1>3. QED
  BY <1>1, <1>2 DEF Board!Devices

\* Whatever is proved of PlicBoard holds of the controller of the console: update_device
\* calls plic_update once after every instruction, with what the port has raised
\* (device.c:3-7).
THEOREM ControllerIsBoard == CSpec => Board!BSpec
<1>1. CInit => Board!BInit
  BY DEF CInit, PlicInit, Board!BInit, Board!PlicInit
<1>2. Announced /\ [CNext]_cvars => [Board!BNext]_(Board!bvars)
  <2>1. SUFFICES ASSUME Announced, [CNext]_cvars PROVE Board!BNext \/ UNCHANGED Board!bvars
    OBVIOUS
  <2>2. CASE GuestReads \/ GuestPrints \/ GuestControls \/ GuestPlic \/ GuestOther
    BY <2>2, BoardGuest DEF Board!BNext
  <2>3. CASE UpdatePlic
    BY <2>1, <2>3, OneSource, BoardDevices DEF Announced, Board!BNext
  <2>4. CASE UpdateSerial
    BY <2>4 DEF UpdateSerial, pvars, Board!bvars, Board!pvars
  <2>5. CASE Type \/ Show \/ UNCHANGED cvars
    BY <2>5 DEF Type, Show, cvars, pvars, Board!bvars, Board!pvars
  <2>6. CASE GuestAborts
    BY <2>6 DEF GuestAborts, PlicAborts, pvars, Board!PlicAborts, Board!pvars, Board!Guest,
                Board!BNext
  <2>7. QED
    BY <2>1, <2>2, <2>3, <2>4, <2>5, <2>6 DEF CNext, Emulator, Ended
<1>3. CSpec => []Announced
  BY InitAnnounces, StepAnnounces, PTL DEF CSpec
<1>4. QED
  BY <1>1, <1>2, <1>3, PTL DEF CSpec, Board!BSpec

-----------------------------------------------------------------------------
(* The driver is one of the guests of Console.                             *)

LEMMA DriverStep == [DNext]_dvars => [CNext]_cvars
<1>1. SUFFICES ASSUME [DNext]_dvars PROVE [CNext]_cvars
  OBVIOUS
<1>2. CASE SetUp
  <2>1. CASE WriteCtrl(TRUE, TRUE, 1) /\ UNCHANGED pvars
    <3>1. TRUE \in BOOLEAN /\ 1 \in 0 .. 1
      OBVIOUS
    <3>2. \E rst_tx, rst_rx \in BOOLEAN, en \in 0 .. 1 : WriteCtrl(rst_tx, rst_rx, en)
      BY <2>1, <3>1, Zenon
    <3>3. Guest /\ UNCHANGED <<pvars, txhist, rxhist>>
      BY <1>2, <2>1 DEF SetUp
    <3>4. GuestControls
      BY <3>2, <3>3 DEF GuestControls
    <3>5. QED
      BY <3>4 DEF CNext, Emulator
  <2>2. CASE PlicConfigure /\ UNCHANGED svars
    BY <1>2, <2>2 DEF SetUp, GuestPlic, CNext, Emulator
  <2>3. QED
    BY <1>2, <2>1, <2>2 DEF SetUp
<1>3. CASE Main \/ Enter \/ Claim \/ Status \/ Read \/ Echo
  BY <1>3 DEF Main, Enter, Claim, Status, Read, Echo, CNext, Emulator
<1>4. CASE Complete
  BY <1>4, DriverConstants DEF Complete, GuestPlic, CNext, Emulator
<1>5. CASE Device \/ Type \/ Show \/ UNCHANGED dvars
  BY <1>5 DEF Device, CNext, Emulator, dvars
<1>6. QED
  BY <1>1, <1>2, <1>3, <1>4, <1>5 DEF DNext, DEmulator, Handler

\* Everything proved of Console for an arbitrary guest holds under the driver.
THEOREM DriverIsGuest == DSpec => CSpec
<1>1. DInit => CInit
  BY DEF DInit
<1>2. QED
  BY <1>1, DriverStep, PTL DEF DSpec, CSpec

\* What the driver's set-up has done, by where it is.
IsSetUp ==
    /\ driver # "reset port" => Intr_enable = 1
    /\ driver \notin {"reset port", "set priority"} => source_priority[UartSource] = 1
    /\ driver \in {"reset port", "set priority"} => \A i \in Sources : source_priority[i] = 0
    /\ target_enables = IF driver \in {"reset port", "set priority", "enable source"}
                        THEN {} ELSE {UartSource}
    /\ target_threshold = 0

DriverInv == Announced /\ IsSetUp

LEMMA SetUpStep == ASSUME DriverInv, [DNext]_dvars PROVE IsSetUp'
<1> USE OneSource
<1>1. CASE SetUp
  <2>1. CASE Goto("reset port", "set priority") /\ WriteCtrl(TRUE, TRUE, 1) /\ UNCHANGED pvars
    BY <2>1 DEF DriverInv, IsSetUp, Goto, WriteCtrl, pvars
  <2>2. CASE Goto("set priority", "enable source") /\ PlicConfigure
             /\ source_priority'[UartSource] = 1 /\ UNCHANGED svars
    <3>1. source_priority[UartSource] = 0 /\ source_priority'[UartSource] = 1
      BY <2>2 DEF DriverInv, IsSetUp, Goto
    <3>2. source_priority' # source_priority
      BY <3>1
    <3>3. UNCHANGED <<target_enables, target_threshold>>
      BY <2>2, <3>2 DEF PlicConfigure
    <3>4. QED
      BY <2>2, <3>3 DEF DriverInv, IsSetUp, Goto, svars
  <2>3. CASE Goto("enable source", "main") /\ PlicConfigure
             /\ target_enables' = {UartSource} /\ UNCHANGED svars
    <3>1. UNCHANGED <<source_priority, target_threshold>>
      BY <2>3 DEF DriverInv, IsSetUp, Goto, PlicConfigure
    <3>2. QED
      BY <2>3, <3>1 DEF DriverInv, IsSetUp, Goto, svars
  <2>4. QED
    BY <1>1, <2>1, <2>2, <2>3 DEF SetUp
<1>2. CASE Main \/ Handler
  <2>1. UNCHANGED <<source_priority, target_enables, target_threshold, Intr_enable>>
    BY <1>2 DEF Main, Handler, Enter, Claim, Status, Read, Echo, Complete, GuestPrints, GuestOther,
                GuestReads, ReadRx, WriteTx, PlicComplete, pconfig, pvars, svars
  <2>2. /\ driver \notin {"reset port", "set priority", "enable source"}
        /\ driver' \notin {"reset port", "set priority", "enable source"}
    BY <1>2 DEF Main, Handler, Enter, Claim, Status, Read, Echo, Complete, Goto
  <2>3. QED
    BY <2>1, <2>2 DEF DriverInv, IsSetUp
<1>3. CASE (UpdateSerial \/ UpdatePlic \/ Type \/ Show) /\ UNCHANGED driver
  BY <1>3 DEF UpdateSerial, SerialUpdate, UpdatePlic, PlicUpdate, Type, Show, DriverInv, IsSetUp,
              pconfig, pvars, svars
<1>4. CASE UNCHANGED dvars
  BY <1>4 DEF dvars, cvars, pvars, svars, DriverInv, IsSetUp
<1>5. QED
  BY <1>1, <1>2, <1>3, <1>4 DEF DNext, DEmulator, Device

\* A byte that waits at an instruction boundary at which the main program would run has
\* raised the external interrupt, and the claim the handler makes is the port's.
ByteWakes ==
    (driver = "main" /\ phase = "exec" /\ rx_valid = 1)
        => seip = 1 /\ target_claim = UartSource

\* The driver is never left asleep with a byte in the receiver, however its last handler
\* ended (serial.c:112-113, plic.c:41-58).
THEOREM DriverIsWoken == DSpec => []ByteWakes
<1>1. DInit => DriverInv
  BY OneSource, InitAnnounces DEF DInit, CInit, SerialInit, PlicInit, DriverInv, IsSetUp
<1>2. DriverInv /\ [DNext]_dvars => DriverInv'
  BY DriverStep, StepAnnounces, SetUpStep DEF DriverInv
<1>3. DriverInv => ByteWakes
  BY OneSource DEF DriverInv, IsSetUp, Announced, WaitingByteAnnounced, ByteWakes
<1>4. QED
  BY <1>1, <1>2, <1>3, PTL DEF DSpec

-----------------------------------------------------------------------------
(* What the guest prints comes out.                                        *)

\* k bytes are on the screen and the guest has printed more: they are in the pipe, or
\* the next of them is in the register and serail_update comes now.
Owed(k) == Len(tx_shown) = k /\ Len(tx_sent) > k
Piped(k) == Owed(k) /\ to_terminal # <<>>
InRegister(k) == Owed(k) /\ to_terminal = <<>> /\ phase = "serial" /\ tx_empty = 0
MoreShown(k) == Len(tx_shown) > k

\* The emulator is not blocked in write(), and the terminal finds something to read.
PortGuards ==
    /\ (phase = "serial" /\ Len(to_terminal) < PipeSize) => ENABLED <<DEmulator>>_dvars
    /\ to_terminal # <<>> => ENABLED <<Show /\ UNCHANGED driver>>_dvars

LEMMA OwedLies == ASSUME TxInv, NEW k, Owed(k) PROVE Piped(k) \/ InRegister(k)
  <1>1. /\ Len(tx_sent) = Len(tx_shown) + Len(to_terminal) + (1 - tx_empty)
        /\ tx_empty \in 0 .. 1
        /\ phase # "serial" => tx_empty = 1
        /\ Len(tx_shown) \in Nat
    BY DEF TxInv
  <1>2. CASE to_terminal = <<>>
    <2>1. Len(to_terminal) = 0  BY <1>2
    <2>2. Len(tx_sent) > Len(tx_shown)  BY DEF Owed
    <2>3. tx_empty = 1 => FALSE
      <3>1. Len(tx_sent) = Len(tx_shown) + Len(to_terminal) + (1 - tx_empty)
            /\ Len(tx_shown) \in Nat
        BY <1>1
      <3> QED  BY <2>1, <2>2, <3>1
    <2>4. tx_empty = 0  BY <1>1, <2>3
    <2> QED  BY <1>1, <1>2, <2>4 DEF InRegister
  <1> QED  BY <1>2 DEF Piped

LEMMA ShowShows == ASSUME TxInv, NEW k, Piped(k), Show PROVE MoreShown(k)'
  <1>1. Tx!Receive \/ Tx!Next  BY TxShows
  <1>2. TxInv'  BY TxShows
  <1>3. Len(tx_sent') = Len(tx_sent) /\ tx_empty' = tx_empty
    BY DEF Show, txreg
  <1> DEFINE n == IF Len(to_terminal) < ChunkMax THEN Len(to_terminal) ELSE ChunkMax
             L == Len(to_terminal)
  <1>4. L \in Nat \ {0} /\ to_terminal \in Seq(Printable)  BY DEF TxInv, Piped
  <1>5. n \in 1 .. L  BY <1>4, ConsoleConstants
  <1>6. to_terminal' = SubSeq(to_terminal, n + 1, L)  BY DEF Show
  <1> HIDE DEF n
  <1>7. Len(to_terminal') = L - n  BY <1>4, <1>5, <1>6
  <1>8. /\ Len(tx_sent) = Len(tx_shown) + L + (1 - tx_empty)
        /\ Len(tx_sent') = Len(tx_shown') + Len(to_terminal') + (1 - tx_empty')
        /\ Len(tx_shown) \in Nat /\ Len(tx_shown') \in Nat /\ tx_empty \in 0 .. 1
    BY <1>2 DEF TxInv
  <1> QED  BY <1>3, <1>4, <1>5, <1>7, <1>8 DEF MoreShown, Piped, Owed

\* Only the terminal empties the pipe, and only serail_update the register.
LEMMA PipedStays ==
    ASSUME TxInv, NEW k, Piped(k), [CNext]_cvars PROVE Piped(k)' \/ MoreShown(k)'
  <1>1. CASE Show  BY <1>1, ShowShows
  <1>2. CASE GuestPrints
    <2>1. PICK b \in GuestBytes : tx_sent' = Append(tx_sent, b)  BY <1>2 DEF GuestPrints
    <2>2. Len(tx_sent) \in Nat /\ Len(tx_sent') = Len(tx_sent) + 1
      <3>1. tx_sent \in Seq(Printable) /\ b \in Printable
        BY ConsoleConstants DEF TxInv, Printable
      <3> QED  BY <2>1, <3>1
    <2>3. UNCHANGED <<to_terminal, tx_shown>>  BY <1>2 DEF GuestPrints, WriteTx, pipes
    <2>4. Len(tx_shown) \in Nat  BY DEF TxInv
    <2> QED  BY <2>2, <2>3, <2>4 DEF Piped, Owed
  <1>3. CASE UpdateSerial
    <2>1. UNCHANGED <<tx_sent, tx_shown>> /\ Transmit
      BY <1>3 DEF UpdateSerial, SerialUpdate, txhist
    <2>2. to_terminal' \in {to_terminal, Append(to_terminal, tx_fifo)}
      BY <2>1 DEF Transmit
    <2>3. to_terminal' # <<>>
      <3>1. to_terminal \in Seq(Printable) /\ to_terminal # <<>>  BY DEF TxInv, Piped
      <3>2. Append(to_terminal, tx_fifo) # <<>>  BY <3>1
      <3> QED  BY <2>2, <3>1, <3>2
    <2> QED  BY <2>1, <2>3 DEF Piped, Owed
  <1>4. CASE GuestReads \/ GuestControls \/ GuestPlic \/ GuestOther \/ GuestAborts
             \/ UpdatePlic \/ Type \/ UNCHANGED cvars
    <2>1. UNCHANGED <<to_terminal, tx_sent, tx_shown>>
      BY <1>4 DEF GuestReads, GuestControls, GuestPlic, GuestOther, GuestAborts, UpdatePlic, Type,
                  ReadRx, WriteCtrl, cvars, svars, pipes, txhist
    <2> QED  BY <2>1 DEF Piped, Owed
  <1> QED  BY <1>1, <1>2, <1>3, <1>4 DEF CNext, Emulator, Ended

LEMMA RegisterSent ==
    ASSUME TxInv, NEW k, InRegister(k), [CNext]_cvars
    PROVE  InRegister(k)' \/ Piped(k)'
  <1>1. phase = "serial" /\ tx_empty = 0 /\ to_terminal = <<>>  BY DEF InRegister
  <1>2. CASE UpdateSerial
    <2>1. UNCHANGED <<tx_sent, tx_shown>> /\ to_terminal' = Append(to_terminal, tx_fifo)
      BY <1>1, <1>2 DEF UpdateSerial, SerialUpdate, Transmit, txhist
    <2>2. to_terminal' # <<>>  BY <1>1, <2>1
    <2> QED  BY <2>1, <2>2 DEF InRegister, Piped, Owed
  <1>3. CASE Type \/ UNCHANGED cvars
    <2>1. UNCHANGED <<phase, tx_empty, to_terminal, tx_sent, tx_shown>>
      BY <1>3 DEF Type, cvars, svars, txreg, pipes, txhist
    <2> QED  BY <2>1 DEF InRegister, Owed
  <1> QED
    BY <1>1, <1>2, <1>3 DEF CNext, Emulator, Ended, GuestReads, GuestPrints, GuestControls,
                            GuestPlic, GuestOther, GuestAborts, Guest, UpdatePlic, Show

LEMMA SerialSends ==
    ASSUME TxInv, NEW k, InRegister(k), DEmulator PROVE Piped(k)'
  <1>1. phase = "serial" /\ tx_empty = 0 /\ to_terminal = <<>>  BY DEF InRegister
  <1>2. UpdateSerial
    BY <1>1 DEF DEmulator, SetUp, Main, Handler, Enter, Claim, Status, Read, Echo, Complete,
                Device, GuestPrints, GuestOther, GuestReads, Guest, UpdatePlic
  <1>3. UNCHANGED <<tx_sent, tx_shown>> /\ to_terminal' = Append(to_terminal, tx_fifo)
    BY <1>1, <1>2 DEF UpdateSerial, SerialUpdate, Transmit, txhist
  <1>4. to_terminal' # <<>>  BY <1>1, <1>3
  <1> QED  BY <1>3, <1>4 DEF InRegister, Piped, Owed

\* However many bytes are on the screen, while the guest has printed more another comes
\* out, for pipes of any size: what it stored is sent by the serail_update that follows
\* it, which an empty pipe never blocks, and what is in the pipe is read
\* (serial.c:88-99, mayfly_serial.c:28-42).  It is the step of the argument that
\* EveryByteShown holds, from one byte to the next.
THEOREM NextByteShown ==
    ASSUME NEW k PROVE DSpec /\ []PortGuards => (Owed(k) ~> MoreShown(k))
  <1>1. DSpec => []TxInv
    <2>1. CInit => TxInv  BY ConsoleInit DEF ConsoleInv
    <2>2. TxInv /\ [CNext]_cvars => TxInv'  BY TxStep
    <2> QED  BY <2>1, <2>2, DriverIsGuest, PTL DEF CSpec
  <1>2. TxInv /\ Owed(k) => Piped(k) \/ InRegister(k)  BY OwedLies
  <1>3. TxInv /\ Piped(k) /\ [DNext]_dvars => Piped(k)' \/ MoreShown(k)'
    BY PipedStays, DriverStep
  <1>4. TxInv /\ Piped(k) /\ <<Show /\ UNCHANGED driver>>_dvars => MoreShown(k)'
    BY ShowShows
  <1>5. TxInv /\ InRegister(k) /\ [DNext]_dvars => InRegister(k)' \/ Piped(k)'
    BY RegisterSent, DriverStep
  <1>6. TxInv /\ InRegister(k) /\ <<DEmulator>>_dvars => Piped(k)'
    BY SerialSends
  <1>7. Piped(k) => to_terminal # <<>>  BY DEF Piped
  <1>8. InRegister(k) => phase = "serial" /\ Len(to_terminal) < PipeSize
    BY SerialConstants DEF InRegister
  <1> QED
    BY <1>1, <1>2, <1>3, <1>4, <1>5, <1>6, <1>7, <1>8, PTL DEF DSpec, PortGuards
=============================================================================
