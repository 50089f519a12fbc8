------------------------------- MODULE UartHw -------------------------------
(***************************************************************************)
(* The UART driver (module/src/drivers/uart_hw) over two ring buffers      *)
(* (module/include/zlibs/utils/misc/ring_buffer.h), as the wire of a       *)
(* serial MIDI interface.                                                  *)
(*                                                                         *)
(* Threads take _mutex for write() and read(); the interrupt takes nothing *)
(* and may come between any two accesses of a thread, and no thread runs   *)
(* within one round of isr() (one core).  The ring buffers are the         *)
(* caller's: they outlive shutdown().                                      *)
(***************************************************************************)
EXTENDS Midi1Stream, FiniteSets

CONSTANTS
  Threads,    \* threads that use the driver
  TxCapacity, \* MaxSize of the transmit ring
  RxCapacity, \* MaxSize of the receive ring
  Nobody      \* no thread

ASSUME UartAssumption ==
  /\ TxCapacity \in Nat \ {0} /\ RxCapacity \in Nat \ {0}
  /\ Nobody \notin Threads

VARIABLES
  uartUp,    \* _initialized, with both ring pointers and the callback set
  loopback,  \* _loopback of the configuration
  mutex,     \* _mutex: who holds it
  rx, tx,    \* the ring buffers
  txIrq,     \* the transmit interrupt is enabled
  access,    \* what each thread is about to do to a ring buffer
  queued,    \* history: bytes accepted for transmission and not yet sent
  clobbered, \* history: an echo hit the slot of a write() in progress
  stalled,   \* history: the interrupt was disabled with bytes to send
  overrun,   \* history: a received byte found its ring full
  faultsLeft \* hardware failures still to come

history == <<queued, clobbered, stalled, overrun>>
uartVars == <<uartUp, loopback, mutex, rx, tx, txIrq, access, history, faultsLeft>>

-----------------------------------------------------------------------------
(* RingBuffer: head is the newest filled slot, tail the last freed one.      *)

EmptyRing(capacity) ==
  [cells |-> [i \in 0 .. capacity |-> "undefined"], head |-> 0, tail |-> 0]
Rings(capacity) ==
  [cells : [0 .. capacity -> Bytes], head : 0 .. capacity, tail : 0 .. capacity]

NextSlot(ring, i) == (i + 1) % Cardinality(DOMAIN ring.cells)
is_empty(ring) == ring.head = ring.tail
NoRoom(ring) == NextSlot(ring, ring.head) = ring.tail
peek(ring) == ring.cells[NextSlot(ring, ring.tail)]
remove(ring) == [ring EXCEPT !.tail = NextSlot(ring, ring.tail)]

\* insert() as the interrupt runs it, in one go.
insert(ring, b) ==
  LET slot == NextSlot(ring, ring.head)
  IN IF NoRoom(ring) THEN ring ELSE [ring EXCEPT !.cells[slot] = b, !.head = slot]

-----------------------------------------------------------------------------
NoAccess == [step |-> "none", byte |-> "undefined", slot |-> 0]
To(t, step, b, slot) == [access EXCEPT ![t] = [step |-> step, byte |-> b, slot |-> slot]]

\* After init() with the given configuration.
UartInit(config) ==
  /\ loopback = config.loopback /\ faultsLeft = config.faults
  /\ uartUp = TRUE /\ mutex = Nobody
  /\ rx = EmptyRing(RxCapacity) /\ tx = EmptyRing(TxCapacity)
  /\ txIrq = FALSE
  /\ access = [t \in Threads |-> NoAccess]
  /\ queued = <<>> /\ clobbered = FALSE /\ stalled = FALSE /\ overrun = FALSE

\* init() after shutdown(): nothing enables the transmit interrupt.
UartOpen ==
  /\ mutex = Nobody /\ ~uartUp
  /\ uartUp' = TRUE
  /\ UNCHANGED <<loopback, mutex, rx, tx, txIrq, access, history, faultsLeft>>

\* shutdown(), which locks interrupts out.
UartClose ==
  /\ mutex = Nobody /\ uartUp
  /\ uartUp' = FALSE /\ txIrq' = FALSE
  /\ stalled' = (stalled \/ queued # <<>>)
  /\ UNCHANGED <<loopback, mutex, rx, tx, access, queued, clobbered, overrun,
                 faultsLeft>>

\* write(): lock, and find a slot in the transmit ring.
UartWrite(t, b) ==
  /\ mutex = Nobody /\ uartUp /\ ~NoRoom(tx)
  /\ mutex' = t
  /\ access' = To(t, "put", b, NextSlot(tx, tx.head))
  /\ UNCHANGED <<uartUp, loopback, rx, tx, txIrq, history, faultsLeft>>

\* write() returns false.
UartRefuses == mutex = Nobody /\ (~uartUp \/ NoRoom(tx))

\* _buffer[next] = data
Put(t) ==
  /\ access[t].step = "put"
  /\ tx' = [tx EXCEPT !.cells[access[t].slot] = access[t].byte]
  /\ access' = [access EXCEPT ![t].step = "publish"]
  /\ UNCHANGED <<uartUp, loopback, mutex, rx, txIrq, history, faultsLeft>>

\* _head.store(next)
Publish(t) ==
  /\ access[t].step = "publish"
  /\ tx' = [tx EXCEPT !.head = access[t].slot]
  /\ queued' = Append(queued, access[t].byte)
  /\ access' = [access EXCEPT ![t].step = "enable"]
  /\ UNCHANGED <<uartUp, loopback, mutex, rx, txIrq, clobbered, stalled, overrun,
                 faultsLeft>>

\* Mutant: the interrupt is enabled only for a ring that was empty before.
Enable_WhenFirst(t) ==
  /\ access[t].step = "enable"
  /\ txIrq' = (txIrq \/ Len(queued) = 1) /\ stalled' = FALSE
  /\ mutex' = Nobody
  /\ access' = [access EXCEPT ![t] = NoAccess]
  /\ UNCHANGED <<uartUp, loopback, rx, tx, queued, clobbered, overrun, faultsLeft>>

\* uart_irq_tx_enable(), unlock: write() returns true.
Enable(t) ==
  /\ access[t].step = "enable"
  /\ txIrq' = TRUE /\ stalled' = FALSE
  /\ mutex' = Nobody
  /\ access' = [access EXCEPT ![t] = NoAccess]
  /\ UNCHANGED <<uartUp, loopback, rx, tx, queued, clobbered, overrun, faultsLeft>>

\* read(): lock, and load the oldest byte of the receive ring.
UartRead(t) ==
  /\ mutex = Nobody /\ uartUp /\ ~is_empty(rx)
  /\ mutex' = t
  /\ access' = To(t, "advance", peek(rx), NextSlot(rx, rx.tail))
  /\ UNCHANGED <<uartUp, loopback, rx, tx, txIrq, history, faultsLeft>>

\* read() returns nothing.
UartEmpty == mutex = Nobody /\ (~uartUp \/ is_empty(rx))

\* _tail.store(next), unlock: read() returns the byte.
Advance(t) ==
  /\ access[t].step = "advance"
  /\ rx' = [rx EXCEPT !.tail = access[t].slot]
  /\ mutex' = Nobody
  /\ access' = [access EXCEPT ![t] = NoAccess]
  /\ UNCHANGED <<uartUp, loopback, tx, txIrq, history, faultsLeft>>

-----------------------------------------------------------------------------
(* isr().                                                                    *)

\* A byte comes in; with loopback it is echoed.
IsrReceive(b) ==
  LET echoed == loopback /\ ~NoRoom(tx) IN
  /\ uartUp
  /\ rx' = insert(rx, b) /\ overrun' = (overrun \/ NoRoom(rx))
  /\ tx' = IF echoed THEN insert(tx, b) ELSE tx
  /\ txIrq' = (txIrq \/ echoed)
  /\ queued' = IF echoed THEN Append(queued, b) ELSE queued
  /\ clobbered' = (clobbered \/
                   (echoed /\ \E t \in Threads : access[t].step \in {"put", "publish"}))
  /\ stalled' = (stalled /\ ~echoed)
  /\ UNCHANGED <<uartUp, loopback, mutex, access, faultsLeft>>

\* The transmitter is ready and takes the oldest byte.
IsrSend ==
  /\ uartUp /\ txIrq /\ ~is_empty(tx)
  /\ tx' = remove(tx)
  /\ queued' = IF queued # <<>> /\ Head(queued) = peek(tx) THEN Tail(queued) ELSE queued
  /\ UNCHANGED <<uartUp, loopback, mutex, rx, txIrq, access, clobbered, stalled,
                 overrun,
                 faultsLeft>>

\* The transmitter is ready and there is nothing to send.
IsrIdle ==
  /\ uartUp /\ txIrq /\ is_empty(tx)
  /\ txIrq' = FALSE
  /\ UNCHANGED <<uartUp, loopback, mutex, rx, tx, access, history, faultsLeft>>

\* uart_fifo_fill() fails: the byte stays until a write() enables the interrupt.
IsrFails ==
  /\ uartUp /\ txIrq /\ ~is_empty(tx) /\ faultsLeft > 0
  /\ txIrq' = FALSE /\ stalled' = TRUE
  /\ faultsLeft' = faultsLeft - 1
  /\ UNCHANGED <<uartUp, loopback, mutex, rx, tx, access, queued, clobbered,
                 overrun>>
=============================================================================
