----------------------------- MODULE Passthrough -----------------------------
(***************************************************************************)
(* uart_passthrough of nuhal_tiva/src/uart_tiva.c: everything received on  *)
(* port 1 is sent on port 2 and the other way round, until a break arrives *)
(* on port 1.  The lines on both sides run by themselves; a program calls  *)
(* uart_passthrough again and again.                                       *)
(*                                                                         *)
(* Characters are numbered as they are sent on their line.  The hardware's *)
(* FIFOs and its receive error register are external.                      *)
(***************************************************************************)
EXTENDS Integers, Sequences

CONSTANTS FifoDepth,
          timeout,         \* of uart_passthrough, 0 is none
          Chars,           \* bound on the characters sent on each line
          Breaks           \* bound on the breaks, and on the calls

ASSUME PassthroughAssumption ==
    FifoDepth \in Nat \ {0} /\ timeout \in Nat /\ Chars \in Nat /\ Breaks \in Nat

Ports == {1, 2}
Other(p) == 3 - p
BREAK == 0                 \* the character a break leaves in the FIFO

VARIABLES pt_pc,           \* "idle", "port1", "port2", "wait" or "error"
          pt_rx, pt_tx,    \* the FIFOs of the two ports
          pt_flag,         \* UART_RXERROR_BREAK of port 1
          pt_level,        \* whether the flag is raised again while a break lasts
          pt_line,         \* "quiet" or "break": the line into port 1
          pt_waited,       \* ms since the wait for the break's end began
          pt_sent, pt_out, \* history: sent to each port, and delivered by it
          pt_lost,         \* history: characters that met a full FIFO
          pt_breaks, pt_calls, pt_returns       \* history: how many

fifos == <<pt_rx, pt_tx, pt_lost>>
lines == <<pt_level, pt_line, pt_sent, pt_out, pt_breaks>>
pt_vars == <<pt_pc, fifos, pt_flag, pt_waited, lines, pt_calls, pt_returns>>

PtInit ==
    /\ pt_pc = "idle" /\ pt_flag = FALSE /\ pt_waited = 0
    /\ pt_rx = [p \in Ports |-> << >>] /\ pt_tx = [p \in Ports |-> << >>]
    /\ pt_lost = [p \in Ports |-> {}]
    /\ pt_level \in BOOLEAN /\ pt_line = "quiet"
    /\ pt_sent = [p \in Ports |-> 0] /\ pt_out = [p \in Ports |-> << >>]
    /\ pt_breaks = 0 /\ pt_calls = 0 /\ pt_returns = 0

------------------------------------------------------------------------------
(* The lines: a character arrives, or is lost to a full FIFO; one leaves;  *)
(* the peer of port 1 starts and ends a break.                             *)
Arrive(p) ==
    /\ pt_sent[p] < Chars /\ (p = 1 => pt_line = "quiet")
    /\ pt_sent' = [pt_sent EXCEPT ![p] = @ + 1]
    /\ IF Len(pt_rx[p]) < FifoDepth
       THEN pt_rx' = [pt_rx EXCEPT ![p] = Append(@, pt_sent'[p])] /\ UNCHANGED pt_lost
       ELSE pt_lost' = [pt_lost EXCEPT ![p] = @ \cup {pt_sent'[p]}] /\ UNCHANGED pt_rx
    /\ UNCHANGED <<pt_pc, pt_tx, pt_flag, pt_waited, pt_level, pt_line, pt_out,
                   pt_breaks, pt_calls, pt_returns>>

Leave(p) ==
    /\ pt_tx[p] # << >>
    /\ pt_out' = [pt_out EXCEPT ![p] = Append(@, Head(pt_tx[p]))]
    /\ pt_tx' = [pt_tx EXCEPT ![p] = Tail(@)]
    /\ UNCHANGED <<pt_pc, pt_rx, pt_lost, pt_flag, pt_waited, pt_level, pt_line, pt_sent,
                   pt_breaks, pt_calls, pt_returns>>

BreakStarts ==
    /\ pt_line = "quiet" /\ pt_breaks < Breaks
    /\ pt_line' = "break" /\ pt_breaks' = pt_breaks + 1
    /\ pt_rx' = IF Len(pt_rx[1]) < FifoDepth THEN [pt_rx EXCEPT ![1] = Append(@, BREAK)] ELSE pt_rx
    /\ UNCHANGED <<pt_pc, pt_tx, pt_lost, pt_flag, pt_waited, pt_level, pt_sent, pt_out,
                   pt_calls, pt_returns>>

BreakStops ==
    /\ pt_line = "break" /\ pt_line' = "quiet"
    /\ UNCHANGED <<pt_pc, fifos, pt_flag, pt_waited, pt_level, pt_sent, pt_out, pt_breaks,
                   pt_calls, pt_returns>>

Millisecond ==
    /\ pt_pc = "wait" /\ pt_waited <= timeout /\ pt_waited' = pt_waited + 1
    /\ UNCHANGED <<pt_pc, fifos, pt_flag, lines, pt_calls, pt_returns>>

------------------------------------------------------------------------------
(* The flag after UARTRxErrorClear.                                        *)
Cleared == pt_level /\ pt_line = "break"

(* uart_write_nonblock of one character: dropped when the FIFO is full.    *)
Send(p, c) ==
    IF Len(pt_tx[p]) < FifoDepth
    THEN pt_tx' = [pt_tx EXCEPT ![p] = Append(@, c)] /\ UNCHANGED pt_lost
    ELSE pt_lost' = [pt_lost EXCEPT ![Other(p)] = @ \cup {c}] /\ UNCHANGED pt_tx

Called ==
    /\ pt_pc = "idle" /\ pt_calls <= Breaks
    /\ pt_pc' = "port1" /\ pt_calls' = pt_calls + 1
    /\ UNCHANGED <<fifos, pt_flag, pt_waited, lines, pt_returns>>

(* One look at port 1.  The register tells of the character read last, so  *)
(* without a character the flag is an old one.  Mutant: the character of   *)
(* the break is sent on.                                                   *)
SentBeforeTest ==
    /\ pt_rx' = [pt_rx EXCEPT ![1] = Tail(@)] /\ Send(2, Head(pt_rx[1]))
    /\ IF Head(pt_rx[1]) = BREAK
       THEN pt_pc' = "wait" /\ pt_waited' = 0 /\ pt_flag' = Cleared
       ELSE pt_pc' = "port2" /\ pt_flag' = FALSE /\ UNCHANGED pt_waited
TakeFromPort1 ==
    /\ pt_rx' = [pt_rx EXCEPT ![1] = Tail(@)]
    /\ IF Head(pt_rx[1]) = BREAK
       THEN /\ pt_pc' = "wait" /\ pt_waited' = 0 /\ pt_flag' = Cleared
            /\ UNCHANGED <<pt_tx, pt_lost>>
       ELSE /\ Send(2, Head(pt_rx[1]))
            /\ pt_pc' = "port2" /\ pt_flag' = FALSE /\ UNCHANGED pt_waited

FromPort1 ==
    /\ pt_pc = "port1"
    /\ IF pt_rx[1] # << >> THEN TakeFromPort1
       ELSE IF pt_flag
       THEN pt_pc' = "wait" /\ pt_waited' = 0 /\ pt_flag' = Cleared /\ UNCHANGED fifos
       ELSE pt_pc' = "port2" /\ UNCHANGED <<fifos, pt_flag, pt_waited>>
    /\ UNCHANGED <<lines, pt_calls, pt_returns>>

FromPort2 ==
    /\ pt_pc = "port2" /\ pt_pc' = "port1"
    /\ IF pt_rx[2] # << >>
       THEN pt_rx' = [pt_rx EXCEPT ![2] = Tail(@)] /\ Send(1, Head(pt_rx[2]))
       ELSE UNCHANGED fifos
    /\ UNCHANGED <<pt_flag, pt_waited, lines, pt_calls, pt_returns>>

(* A turn of the loop that waits for the end of the break.  Mutants: it    *)
(* does not wait; it waits without clearing the flag.                      *)
ReturnAtOnce ==
    /\ pt_pc = "wait" /\ pt_pc' = "idle" /\ pt_returns' = pt_returns + 1
    /\ UNCHANGED <<fifos, pt_flag, pt_waited, lines, pt_calls>>
WaitUncleared ==
    /\ pt_pc = "wait"
    /\ IF ~pt_flag THEN pt_pc' = "idle" /\ pt_returns' = pt_returns + 1
       ELSE /\ pt_pc' = IF pt_waited > timeout /\ timeout # 0 THEN "error" ELSE "wait"
            /\ UNCHANGED pt_returns
    /\ UNCHANGED <<fifos, pt_flag, pt_waited, lines, pt_calls>>
WaitForEnd ==
    /\ pt_pc = "wait"
    /\ IF ~pt_flag THEN pt_pc' = "idle" /\ pt_returns' = pt_returns + 1 /\ UNCHANGED pt_flag
       ELSE /\ pt_flag' = Cleared
            /\ pt_pc' = IF pt_waited > timeout /\ timeout # 0 THEN "error" ELSE "wait"
            /\ UNCHANGED pt_returns
    /\ UNCHANGED <<fifos, pt_waited, lines, pt_calls>>

Loop == Called \/ FromPort1 \/ FromPort2 \/ WaitForEnd
PtNext ==
    \/ Loop
    \/ \E p \in Ports : Arrive(p) \/ Leave(p)
    \/ BreakStarts \/ BreakStops \/ Millisecond

PtSpec == PtInit /\ [][PtNext]_pt_vars

------------------------------------------------------------------------------
(* What leaves a port, then what waits in its FIFO and in the other port's *)
(* is what was sent to the other, in order, once, less what met a full     *)
(* FIFO: nothing is crossed over, doubled or overtaken, and the break's    *)
(* own character is not passed on.                                         *)
PtForwards ==
    \A p \in Ports :
       LET passed == pt_out[Other(p)] \o pt_tx[Other(p)]
           all == passed \o pt_rx[p]
           places == {k \in DOMAIN all : all[k] # BREAK}
       IN  /\ \A j, k \in places : j < k => all[j] < all[k]
           /\ {all[k] : k \in places} = (1 .. pt_sent[p]) \ pt_lost[p]
           /\ DOMAIN passed \subseteq places

(* "This function will only return if a break character is sent to port 1" *)
(* (uart_tiva.h:11): a break of its own, not the one that ended the call   *)
(* before and may last still.                                              *)
PtOneBreakEach == pt_returns <= pt_breaks

(* Once a break is in the FIFO the call ends, with an error if the break   *)
(* outlasts the timeout.                                                   *)
PtEnds ==
    (pt_pc = "port1" /\ \E k \in DOMAIN pt_rx[1] : pt_rx[1][k] = BREAK) ~> pt_pc \in {"idle", "error"}

(* "all data received on port1 will be transmitted to port2"               *)
(* (uart_tiva.h:9): a character in the FIFO is not lost any more.          *)
PtNoneLost == [][\A p \in Ports : \A k \in DOMAIN pt_rx[p] : pt_rx[p][k] \notin pt_lost'[p]]_pt_vars
==============================================================================
