---------------------------- MODULE UartHostProofs ----------------------------
(***************************************************************************)
(* Proofs about UartHost for any number of ports and devices and of system *)
(* calls that fail: the list of open ports is sound, no descriptor leaks,  *)
(* no output that fits the timeout is thrown away, and the end of the      *)
(* program leaves the settings of the devices as it found them, but for    *)
(* those it can no longer reach.                                           *)
(***************************************************************************)
EXTENDS UartHost, TLAPS

------------------------------------------------------------------------------
(* The invariant.                                                          *)

(* The list.  Every part of it has a first port, so it has no cycle, and   *)
(* it has a last port, where a new one is linked.                          *)
Linked(p) ==
    /\ next[p] \in live \cup {NULL} /\ prev[p] \in live \cup {NULL}
    /\ next[p] # NULL => prev[next[p]] = p
    /\ prev[p] # NULL => next[prev[p]] = p
    /\ prev[p] = NULL <=> p = port_list_head

Grounded == \A S \in SUBSET live : S # {} => \E q \in S : prev[q] \notin S

ListInv ==
    /\ \A p \in live : Linked(p) /\ p \notin Ahead(p)
    /\ port_list_head = NULL <=> live = {}
    /\ Grounded
    /\ live # {} => \E q \in live : next[q] = NULL

(* The port a call is about.                                               *)
StageInv ==
    /\ pc \in OpenStages \cup CloseStages => port \in live
    /\ pc \in OpenStages =>
          /\ name \in Devices /\ next[port] = NULL
          /\ pc \in {"resolve", "open"} => fd[port] = Stdin
          /\ pc \notin {"resolve", "open"} => fd[port] = name
    /\ pc \in {"restore", "serial", "close"} => port \in opened \/ fd[port] = Stdin

(* How the program ends: an error is never survived, and the cleanup stops *)
(* at the first port it cannot close.                                      *)
EndInv ==
    /\ pc \in {"app"} \cup OpenStages => ~cleaning
    /\ pc = "cleanup" => cleaning /\ curr_port = port_list_head
    /\ pc \in {"app"} \cup OpenStages \cup CloseStages /\ ~cleaning => broken = {}
    /\ pc \in CloseStages /\ cleaning => port = port_list_head /\ curr_port = next[port]
    /\ pc \in {"handler", "fatal", "exit"} /\ cleaning =>
          port_list_head \in live /\ {port_list_head, fd[port_list_head]} \subseteq broken
    /\ first_run => live = {}
    /\ half_open \subseteq broken
    /\ \A p \in half_open \cap live : next[p] = NULL

(* The descriptors.                                                        *)
Closing == IF pc = "unlink" THEN {port} ELSE {}

DescriptorInv ==
    /\ opened \subseteq live \ Closing
    /\ pc # "gone" =>
          \A p \in live \ (broken \cup Closing) : p \in opened \/ fd[p] = Stdin

(* The settings, of the devices on which no call failed and that were not  *)
(* spoilt: they are changed only while a port has the device, and what was *)
(* found is known before it is changed.                                    *)
Altered(d) == changed[d] \cap {"tio", "serial"} # {}

Sound == Devices \ (broken \cup spoilt)

SettingsInv ==
    /\ \A d \in Sound : Altered(d) => \E p \in live : fd[p] = d
    /\ \A p \in live : fd[p] \in Sound =>
          /\ old_tio[p] # "found" => pc = "getattr" /\ port = p
          /\ old_serial[p] # "found" => pc \in {"getattr", "getserial"} /\ port = p
    /\ pc = "getattr" /\ fd[port] \in Sound => "tio" \notin changed[fd[port]]
    /\ pc \in {"getattr", "getserial"} /\ fd[port] \in Sound =>
          "serial" \notin changed[fd[port]]
    /\ pc \in {"serial", "close", "unlink"} /\ fd[port] \in Sound =>
          "tio" \notin changed[fd[port]]
    /\ pc \in {"close", "unlink"} /\ fd[port] \in Sound =>
          "serial" \notin changed[fd[port]]

(* What is left of the output that was pending when the poll() began.      *)
PollInv ==
    pc = "poll" /\ fd[port] \in Devices \ Held =>
       pending[fd[port]] <= queued - waited \/ pending[fd[port]] = 0

IInv ==
    /\ TypeOK /\ ListInv /\ StageInv /\ EndInv /\ DescriptorInv /\ SettingsInv
    /\ LeftAsFound /\ PollInv /\ KeepsWhatFits

------------------------------------------------------------------------------
(* Types.                                                                  *)

LEMMA Constants ==
    /\ NULL \notin Ports /\ Stdin \notin Devices /\ None \notin Devices /\ Stdin # None
    /\ LowLatency \subseteq Devices /\ Rs485 \subseteq Devices /\ Held \subseteq Devices
    /\ MaxPending \in Nat /\ CLOSE_TIMEOUT \in Nat /\ MaxFaults \in Nat
BY HostAssumption DEF Stdin, None

Copies == {"zero", "found", "changed"}

ListTypes ==
    /\ live \subseteq Ports /\ fd \in [Ports -> Devices \cup {Stdin, None}]
    /\ old_tio \in [Ports -> Copies] /\ old_serial \in [Ports -> Copies]
    /\ next \in [Ports -> Ports \cup {NULL}] /\ prev \in [Ports -> Ports \cup {NULL}]
    /\ port_list_head \in Ports \cup {NULL}

Settings == SUBSET {"tio", "serial", "rs485"}

TtyTypes ==
    /\ opened \subseteq Ports /\ changed \in [Devices \cup {Stdin} -> Settings]
    /\ pending \in [Devices -> 0..MaxPending]

RunTypes ==
    /\ pc \in Pcs /\ port \in Ports \cup {NULL} /\ curr_port \in Ports \cup {NULL}
    /\ name \in Devices \cup {None} /\ queued \in 0..MaxPending
    /\ waited \in 0..CLOSE_TIMEOUT /\ faults \in 0..MaxFaults

Flags ==
    /\ first_run \in BOOLEAN /\ cleaning \in BOOLEAN
    /\ error_called \in BOOLEAN /\ fatal_error_called \in BOOLEAN

HistoryTypes ==
    /\ half_open \subseteq Ports /\ broken \subseteq Ports \cup Devices \cup {Stdin, None}
    /\ spoilt \subseteq Devices

LEMMA TypeParts ==
    /\ TypeOK <=> ListTypes /\ TtyTypes /\ RunTypes /\ Flags /\ HistoryTypes
    /\ TypeOK' <=> ListTypes' /\ TtyTypes' /\ RunTypes' /\ Flags' /\ HistoryTypes'
<1>1. {port_list_head, port, curr_port} \subseteq Ports \cup {NULL} <=>
         /\ port_list_head \in Ports \cup {NULL} /\ port \in Ports \cup {NULL}
         /\ curr_port \in Ports \cup {NULL}
  OBVIOUS
<1>2. {port_list_head', port', curr_port'} \subseteq Ports \cup {NULL} <=>
         /\ port_list_head' \in Ports \cup {NULL} /\ port' \in Ports \cup {NULL}
         /\ curr_port' \in Ports \cup {NULL}
  OBVIOUS
<1>3. {first_run, cleaning, error_called, fatal_error_called} \subseteq BOOLEAN <=> Flags
  BY Zenon DEF Flags
<1>4. {first_run', cleaning', error_called', fatal_error_called'} \subseteq BOOLEAN <=> Flags'
  BY Zenon DEF Flags
<1>5. {old_tio, old_serial} \subseteq [Ports -> Copies] <=>
         old_tio \in [Ports -> Copies] /\ old_serial \in [Ports -> Copies]
  OBVIOUS
<1>6. {old_tio', old_serial'} \subseteq [Ports -> Copies] <=>
         old_tio' \in [Ports -> Copies] /\ old_serial' \in [Ports -> Copies]
  OBVIOUS
<1> QED
  BY <1>1, <1>2, <1>3, <1>4, <1>5, <1>6, Zenon
  DEF Copies, TypeOK, ListTypes, TtyTypes, RunTypes, HistoryTypes, Settings

LEMMA TypeInit == Init => TypeOK
<1> SUFFICES ASSUME Init PROVE TypeOK
  OBVIOUS
<1>1. ListTypes
  BY DEF Init, ListTypes, Copies
<1>2. TtyTypes
  BY Constants DEF Init, TtyTypes, Settings
<1>3. RunTypes
  BY Constants DEF Init, RunTypes, Pcs
<1>4. Flags /\ HistoryTypes
  BY DEF Init, Flags, HistoryTypes
<1> QED
  BY <1>1, <1>2, <1>3, <1>4, TypeParts

(* error() calls a handler or exit(), never returns.                       *)
LEMMA ErrorEnds == error => pc' \in {"handler", "fatal", "exit"} /\ cleaning' = cleaning
<1> SUFFICES ASSUME error PROVE pc' \in {"handler", "fatal", "exit"} /\ cleaning' = cleaning
  OBVIOUS
<1>1. CASE ~error_called
  BY <1>1 DEF error
<1>2. CASE error_called /\ ~fatal_error_called
  BY <1>2 DEF error
<1>3. CASE error_called /\ fatal_error_called
  BY <1>3 DEF error
<1> QED
  BY <1>1, <1>2, <1>3

(* What Discard and RestoreSerial do when the call succeeds.               *)
Discarded ==
    /\ pc = "discard" /\ (port \in opened \/ fd[port] = Stdin) /\ pc' = "restore"
    /\ pending' = [d \in Devices |-> IF d = fd[port] THEN 0 ELSE pending[d]]
    /\ UNCHANGED <<list, opened, changed, aside, history>>

SerialRestored ==
    /\ pc = "serial" /\ pc' = "close"
    /\ IF old_serial[port] = "found"
         THEN changed' = [changed EXCEPT ![fd[port]] = @ \ {"serial"}]
         ELSE Change(fd[port], {"serial"})
    /\ UNCHANGED <<list, opened, pending, aside, history>>

(* The steps of one kind: those that fail, those that only end, and those  *)
(* of a call that go on.                                                   *)
LEMMA StepKinds ==
    ASSUME TypeOK, Next
    PROVE  \/ \E d \in Devices : uart_open(d)
           \/ \E d \in Devices : Write(d) \/ Drain(d)
           \/ \E p \in live : CallClose(p)
           \/ OpenFails \/ AppEnds \/ Handler \/ Exit \/ uart_cleanup
           \/ /\ Broken /\ pc \in (OpenStages \cup CloseStages) \ {"open", "close", "unlink"}
              /\ faults' \in 0..MaxFaults
           \/ Resolve \/ OpenDevice \/ GetAttr \/ GetSerial \/ SetRs485 \/ SetAttr
           \/ Flush \/ Tick \/ PollTimeout \/ Discarded \/ Restore \/ SerialRestored
           \/ RestoreRefused \/ CloseDevice \/ Unlink
<1>1. CASE \E p \in Ports : CallClose(p)
  BY <1>1 DEF CallClose
<1>2. CASE StageFails
  <2>1. faults' \in 0..MaxFaults
    BY <1>2, TypeParts, Constants DEF StageFails, Fault, RunTypes
  <2> QED
    BY <1>2, <2>1 DEF StageFails, Fault
<1>3. CASE Discard
  <2>1. CASE Broken /\ UNCHANGED faults
    <3>1. pc = "discard" /\ faults' \in 0..MaxFaults
      BY <1>3, <2>1, TypeParts DEF Discard, RunTypes
    <3> QED
      BY <2>1, <3>1 DEF CloseStages
  <2> QED
    BY <1>3, <2>1 DEF Discard, Discarded
<1>4. CASE RestoreSerial
  <2>1. CASE Broken /\ UNCHANGED faults
    <3>1. pc = "serial" /\ faults' \in 0..MaxFaults
      BY <1>4, <2>1, TypeParts DEF RestoreSerial, RunTypes
    <3> QED
      BY <2>1, <3>1 DEF CloseStages
  <2> QED
    BY <1>4, <2>1 DEF RestoreSerial, SerialRestored
<1> QED
  BY <1>1, <1>2, <1>3, <1>4 DEF Next, Step

(* A new port is one that is not live, and joins the list at its tail.     *)
First(p) ==
    /\ live = {} /\ port_list_head' = p
    /\ next' = [next EXCEPT ![p] = NULL] /\ prev' = [prev EXCEPT ![p] = NULL]

After(p, tail) ==
    /\ next[tail] = NULL /\ port_list_head' = port_list_head
    /\ next' = [next EXCEPT ![p] = NULL, ![tail] = p]
    /\ prev' = [prev EXCEPT ![p] = tail]

LEMMA Opening ==
    ASSUME NEW d \in Devices, uart_open(d), ListTypes,
           live # {} => \E q \in live : next[q] = NULL,
           port_list_head = NULL <=> live = {}
    PROVE  \E p \in Ports \ live :
              Register(p, d) /\ (First(p) \/ \E tail \in live : After(p, tail))
<1> DEFINE p == CHOOSE p \in Ports \ live : TRUE
           tail == CHOOSE q \in live : next[q] = NULL
<1>1. p \in Ports \ live
  BY DEF uart_open, ListTypes
<1>2. Register(p, d) /\ Link(p)
  BY DEF uart_open
<1>3. CASE live = {}
  BY <1>1, <1>2, <1>3 DEF Link, First
<1>4. CASE live # {}
  <2>1. tail \in live /\ next[tail] = NULL
    BY <1>4
  <2>2. /\ next' = [next EXCEPT ![p] = NULL, ![tail] = p]
        /\ prev' = [prev EXCEPT ![p] = tail] /\ port_list_head' = port_list_head
    BY <1>2, <1>4, Zenon DEF Link
  <2> HIDE DEF p, tail
  <2> QED
    BY <1>1, <1>2, <2>1, <2>2 DEF After
<1> QED
  BY <1>3, <1>4

LEMMA ListTypeStep == TypeOK /\ ListInv /\ StageInv /\ Next => ListTypes'
<1> SUFFICES ASSUME TypeOK, ListTypes, RunTypes, ListInv, StageInv, Next PROVE ListTypes'
  BY TypeParts
<1>1. ASSUME NEW d \in Devices, uart_open(d) PROVE ListTypes'
  <2>1. PICK p \in Ports \ live :
              Register(p, d) /\ (First(p) \/ \E tail \in live : After(p, tail))
    BY <1>1, Opening DEF ListInv
  <2>2. /\ live' \subseteq Ports /\ fd' \in [Ports -> Devices \cup {Stdin, None}]
        /\ old_tio' \in [Ports -> Copies] /\ old_serial' \in [Ports -> Copies]
    BY <2>1 DEF Register, ListTypes, Copies
  <2>3. /\ next' \in [Ports -> Ports \cup {NULL}] /\ prev' \in [Ports -> Ports \cup {NULL}]
        /\ port_list_head' \in Ports \cup {NULL}
    <3>1. CASE First(p)
      BY <3>1 DEF First, ListTypes
    <3>2. CASE \E tail \in live : After(p, tail)
      BY <3>2 DEF After, ListTypes
    <3> QED
      BY <2>1, <3>1, <3>2
  <2> QED
    BY <2>2, <2>3 DEF ListTypes
<1>2. CASE OpenDevice
  <2>1. fd' = [fd EXCEPT ![port] = name] \/ fd' = [fd EXCEPT ![port] = None]
    BY <1>2 DEF OpenDevice
  <2>2. fd' \in [Ports -> Devices \cup {Stdin, None}]
    BY <2>1 DEF ListTypes, RunTypes
  <2> QED
    BY <1>2, <2>2 DEF OpenDevice, ListTypes
<1>3. CASE GetAttr
  BY <1>3 DEF GetAttr, ListTypes, Saved, Copies
<1>4. CASE GetSerial
  BY <1>4 DEF GetSerial, ListTypes, Saved, Copies
<1>5. CASE Unlink
  <2>1. port \in live
    BY <1>5 DEF Unlink, StageInv, CloseStages
  <2>2. next' \in [Ports -> Ports \cup {NULL}]
    BY <1>5, <2>1 DEF Unlink, UnlinkNeighbours, ListTypes
  <2>3. prev' \in [Ports -> Ports \cup {NULL}]
    BY <1>5, <2>1 DEF Unlink, UnlinkNeighbours, ListTypes
  <2>4. port_list_head' \in Ports \cup {NULL}
    BY <1>5, <2>1 DEF Unlink, ListTypes
  <2>5. /\ live' \subseteq Ports /\ fd' \in [Ports -> Devices \cup {Stdin, None}]
        /\ old_tio' \in [Ports -> Copies] /\ old_serial' \in [Ports -> Copies]
    BY <1>5 DEF Unlink, ListTypes, Copies
  <2> QED
    BY <2>2, <2>3, <2>4, <2>5 DEF ListTypes
<1>6. CASE UNCHANGED list
  BY <1>6 DEF list, ListTypes
<1>7. (\/ OpenFails \/ AppEnds \/ Handler \/ Exit \/ uart_cleanup \/ Broken \/ Resolve
       \/ SetRs485 \/ SetAttr \/ Flush \/ Tick \/ PollTimeout \/ Discarded \/ Restore
       \/ SerialRestored \/ RestoreRefused \/ CloseDevice
       \/ \E d \in Devices : Write(d) \/ Drain(d)
       \/ \E p \in live : CallClose(p)) => UNCHANGED list
  BY DEF OpenFails, AppEnds, Handler, Exit, uart_cleanup, Broken, Resolve, SetRs485,
         SetAttr, Flush, Tick, PollTimeout, Discarded, Restore, SerialRestored,
         RestoreRefused, CloseDevice, Write, Drain, CallClose
<1> QED
  BY <1>1, <1>2, <1>3, <1>4, <1>5, <1>6, <1>7, StepKinds

LEMMA TtyTypeStep == TypeOK /\ StageInv /\ Next => TtyTypes'
<1> SUFFICES ASSUME TypeOK, ListTypes, TtyTypes, StageInv, Next PROVE TtyTypes'
  BY TypeParts
<1>1. CASE Exit \/ uart_cleanup
  <2>1. UNCHANGED <<changed, pending>> /\ (UNCHANGED opened \/ opened' = {})
    BY <1>1 DEF Exit, uart_cleanup, Gone, tty
  <2> QED
    BY <2>1 DEF TtyTypes
<1>2. CASE OpenDevice
  BY <1>2 DEF OpenDevice, TtyTypes, StageInv, OpenStages, ListTypes
<1>3. ASSUME NEW d, NEW what \in Settings, Change(d, what) PROVE changed' \in [Devices \cup {Stdin} -> Settings]
  <2>1. changed' = [changed EXCEPT ![d] = changed[d] \cup what]
    BY <1>3 DEF Change
  <2>2. CASE d \in Devices \cup {Stdin}
    <3>1. changed[d] \cup what \in Settings
      BY <1>3, <2>2 DEF TtyTypes, Settings
    <3> QED
      BY <2>1, <3>1 DEF TtyTypes
  <2>3. CASE d \notin Devices \cup {Stdin}
    BY <2>1, <2>3 DEF TtyTypes
  <2> QED
    BY <2>2, <2>3
<1>4. ASSUME NEW d, NEW what, changed' = [changed EXCEPT ![d] = @ \ what]
      PROVE  changed' \in [Devices \cup {Stdin} -> Settings]
  <2>1. CASE d \in Devices \cup {Stdin}
    <3>1. changed[d] \ what \in Settings
      BY <2>1 DEF TtyTypes, Settings
    <3> QED
      BY <1>4, <3>1 DEF TtyTypes
  <2>2. CASE d \notin Devices \cup {Stdin}
    BY <1>4, <2>2 DEF TtyTypes
  <2> QED
    BY <2>1, <2>2
<1>5. {} \in Settings /\ {"tio"} \in Settings /\ {"serial"} \in Settings /\ {"rs485"} \in Settings
  BY DEF Settings
<1>6. CASE GetSerial \/ SetRs485 \/ SetAttr
  <2>1. \E what \in Settings : Change(name, what)
    BY <1>5, <1>6 DEF GetSerial, SetRs485, SetAttr
  <2> QED
    BY <1>3, <1>6, <2>1 DEF GetSerial, SetRs485, SetAttr, TtyTypes
<1>7. CASE Restore \/ SerialRestored
  <2>1. \/ \E what \in Settings : Change(fd[port], what)
        \/ changed' = [changed EXCEPT ![fd[port]] = @ \ {"tio"}]
        \/ changed' = [changed EXCEPT ![fd[port]] = @ \ {"serial"}]
    BY <1>5, <1>7 DEF Restore, SerialRestored
  <2>2. changed' \in [Devices \cup {Stdin} -> Settings]
    BY <1>3, <1>4, <2>1
  <2> QED
    BY <1>7, <2>2 DEF Restore, SerialRestored, TtyTypes
<1>8. CASE Flush
  <2>1. 0 \in 0..MaxPending /\ pending' = [pending EXCEPT ![name] = 0]
    BY <1>8, Constants DEF Flush
  <2>2. pending' \in [Devices -> 0..MaxPending]
    BY <2>1 DEF TtyTypes
  <2> QED
    BY <1>8, <2>2 DEF Flush, TtyTypes
<1>9. ASSUME NEW d \in Devices, Write(d) \/ Drain(d) PROVE TtyTypes'
  BY <1>9, Constants DEF Write, Drain, TtyTypes
<1>10. CASE Tick
  <2>1. \A d \in Devices : pending[d] \in 0..MaxPending
    BY DEF TtyTypes
  <2>2. \A d \in Devices : (IF d \in Held \/ pending[d] = 0 THEN pending[d]
                            ELSE pending[d] - 1) \in 0..MaxPending
    BY <2>1, Constants
  <2>3. pending' \in [Devices -> 0..MaxPending]
    BY <1>10, <2>2 DEF Tick
  <2> QED
    BY <1>10, <2>3 DEF Tick, TtyTypes
<1>11. CASE Discarded
  <2>1. pending' \in [Devices -> 0..MaxPending]
    BY <1>11, Constants DEF Discarded, TtyTypes
  <2> QED
    BY <1>11, <2>1 DEF Discarded, TtyTypes
<1>12. CASE CloseDevice
  BY <1>12 DEF CloseDevice, TtyTypes
<1>13. CASE UNCHANGED tty
  BY <1>13 DEF tty, TtyTypes
<1>14. (\/ OpenFails \/ AppEnds \/ Handler \/ Broken \/ Resolve \/ GetAttr \/ PollTimeout
        \/ RestoreRefused \/ Unlink
        \/ \E d \in Devices : uart_open(d)
        \/ \E p \in live : CallClose(p)) => UNCHANGED tty
  BY DEF OpenFails, AppEnds, Handler, Broken, Resolve, GetAttr, PollTimeout,
         RestoreRefused, Unlink,
         uart_open, CallClose
<1> QED
  BY <1>1, <1>2, <1>6, <1>7, <1>8, <1>9, <1>10, <1>11, <1>12, <1>13, <1>14, StepKinds

LEMMA FlagStep == TypeOK /\ Next => Flags'
<1> SUFFICES ASSUME TypeOK, Flags, Next PROVE Flags'
  BY TypeParts
<1>1. ASSUME error PROVE /\ error_called' \in BOOLEAN /\ fatal_error_called' \in BOOLEAN
                         /\ cleaning' \in BOOLEAN
  <2>1. CASE ~error_called
    BY <1>1, <2>1, Zenon DEF error, Flags
  <2>2. CASE error_called /\ ~fatal_error_called
    BY <1>1, <2>2, Zenon DEF error, Flags
  <2>3. CASE error_called /\ fatal_error_called
    BY <1>1, <2>3, Zenon DEF error, Flags
  <2> QED
    BY <2>1, <2>2, <2>3
<1>2. CASE (Broken \/ AppEnds \/ Handler \/ OpenDevice \/ CloseDevice) /\ error
  <2>1. UNCHANGED first_run
    BY <1>2, Zenon DEF Broken, AppEnds, Handler, OpenDevice, CloseDevice
  <2> QED
    BY <1>1, <1>2, <2>1, Zenon DEF Flags
<1>3. CASE OpenFails
  <2>1. first_run' = FALSE /\ error
    BY <1>3, Zenon DEF OpenFails
  <2> QED
    BY <1>1, <2>1, Zenon DEF Flags
<1>4. CASE Exit
  BY <1>4, Zenon DEF Exit, Flags
<1>5. ASSUME NEW d \in Devices, uart_open(d) PROVE Flags'
  <2>1. first_run' = FALSE /\ UNCHANGED ending
    BY <1>5 DEF uart_open, Register
  <2> QED
    BY <2>1, Zenon DEF Flags, ending
<1>6. CASE UNCHANGED <<first_run, ending>>
  BY <1>6, Zenon DEF ending, Flags
<1>7. (\/ Resolve \/ GetAttr \/ GetSerial \/ SetRs485 \/ SetAttr \/ Flush \/ Tick
       \/ PollTimeout \/ Discarded \/ Restore \/ SerialRestored \/ RestoreRefused
       \/ Unlink \/ uart_cleanup
       \/ \E d \in Devices : Write(d) \/ Drain(d)
       \/ \E p \in live : CallClose(p)) => UNCHANGED <<first_run, ending>>
  BY DEF RestoreRefused, Resolve, GetAttr, GetSerial, SetRs485, SetAttr, Flush, Tick, PollTimeout,
         Discarded, Restore, SerialRestored, Unlink, uart_cleanup, Write, Drain,
         CallClose, aside
<1>8. AppEnds \/ Handler \/ OpenDevice \/ CloseDevice => error \/ UNCHANGED <<first_run, ending>>
  BY DEF AppEnds, Handler, OpenDevice, CloseDevice
<1>9. Broken => error
  BY DEF Broken
<1> QED
  BY <1>2, <1>3, <1>4, <1>5, <1>6, <1>7, <1>8, <1>9, StepKinds

LEMMA HistoryTypeStep == TypeOK /\ StageInv /\ Next => HistoryTypes'
<1> SUFFICES ASSUME TypeOK, ListTypes, HistoryTypes, StageInv, Next PROVE HistoryTypes'
  BY TypeParts
<1>1. CASE Broken /\ pc \in (OpenStages \cup CloseStages) \ {"open", "close", "unlink"}
  BY <1>1 DEF Broken, HistoryTypes, StageInv, ListTypes
<1>6. CASE RestoreRefused
  BY <1>6 DEF RestoreRefused, HistoryTypes
<1>2. CASE OpenDevice
  BY <1>2 DEF OpenDevice, HistoryTypes, history, StageInv, OpenStages, ListTypes
<1>3. CASE CloseDevice
  BY <1>3 DEF CloseDevice, HistoryTypes, history, StageInv, CloseStages, ListTypes
<1>4. CASE UNCHANGED history
  BY <1>4 DEF history, HistoryTypes
<1>5. (\/ Resolve \/ GetAttr \/ GetSerial \/ SetRs485 \/ SetAttr \/ Flush \/ Tick
       \/ PollTimeout \/ Discarded \/ Restore \/ SerialRestored \/ Unlink \/ uart_cleanup
       \/ OpenFails \/ AppEnds \/ Handler \/ Exit
       \/ \E d \in Devices : uart_open(d)
       \/ \E d \in Devices : Write(d) \/ Drain(d)
       \/ \E p \in live : CallClose(p)) => UNCHANGED history
  BY DEF Resolve, GetAttr, GetSerial, SetRs485, SetAttr, Flush, Tick, PollTimeout,
         Discarded, Restore, SerialRestored, Unlink, uart_cleanup, Write, Drain,
         CallClose, OpenFails, AppEnds, Handler, Exit, uart_open
<1> QED
  BY <1>1, <1>2, <1>3, <1>4, <1>5, <1>6, StepKinds

LEMMA RunTypeStep == TypeOK /\ StageInv /\ EndInv /\ ListInv /\ Next => RunTypes'
<1> SUFFICES ASSUME TypeOK, ListTypes, TtyTypes, RunTypes, StageInv, EndInv, ListInv, Next
             PROVE  RunTypes'
  BY TypeParts
<1> USE Constants
<1>1. ASSUME NEW p \in Ports, Close(p) PROVE /\ pc' \in Pcs /\ port' \in Ports
                                             /\ waited' \in 0..CLOSE_TIMEOUT
                                             /\ queued' \in 0..MaxPending
  BY <1>1 DEF Close, Pcs, CloseStages, TtyTypes
<1>2. error => pc' \in Pcs
  BY ErrorEnds DEF Pcs
<1>3. CASE Broken /\ faults' \in 0..MaxFaults
  BY <1>2, <1>3 DEF Broken, RunTypes, poll
<1>4. ASSUME NEW d \in Devices, uart_open(d) PROVE RunTypes'
  <2>1. PICK p \in Ports \ live : Register(p, d)
    BY <1>4, Opening DEF ListInv
  <2> QED
    BY <1>4, <2>1 DEF uart_open, Register, RunTypes, poll, Pcs, OpenStages
<1>5. CASE OpenFails \/ AppEnds \/ Handler
  <2>1. pc' \in Pcs
    BY <1>2, <1>5 DEF OpenFails, AppEnds, Handler, Pcs
  <2>2. faults' \in 0..MaxFaults
    BY <1>5 DEF OpenFails, AppEnds, Handler, RunTypes
  <2> QED
    BY <1>5, <2>1, <2>2 DEF OpenFails, AppEnds, Handler, RunTypes, poll
<1>6. CASE Exit
  BY <1>6 DEF Exit, Gone, RunTypes, ListTypes, Pcs, poll
<1>7. CASE uart_cleanup
  <2>1. CASE curr_port = NULL
    BY <1>7, <2>1 DEF uart_cleanup, Gone, RunTypes, Pcs, poll
  <2>2. CASE curr_port # NULL
    <3>1. curr_port \in Ports /\ Close(curr_port) /\ curr_port' = next[curr_port]
      BY <1>7, <2>2 DEF uart_cleanup, RunTypes
    <3>2. curr_port' \in Ports \cup {NULL}
      BY <3>1 DEF ListTypes
    <3> QED
      BY <1>1, <1>7, <3>1, <3>2 DEF uart_cleanup, RunTypes
  <2> QED
    BY <2>1, <2>2
<1>8. ASSUME NEW p \in live, CallClose(p) PROVE RunTypes'
  BY <1>1, <1>8 DEF CallClose, RunTypes, ListTypes
<1>9. CASE OpenDevice \/ CloseDevice
  <2>1. pc' \in Pcs
    BY <1>2, <1>9 DEF OpenDevice, CloseDevice, Pcs, OpenStages, CloseStages
  <2>2. faults' \in 0..MaxFaults
    BY <1>9 DEF OpenDevice, CloseDevice, RunTypes
  <2> QED
    BY <1>9, <2>1, <2>2 DEF OpenDevice, CloseDevice, RunTypes, poll
<1>10. CASE Flush
  BY <1>10 DEF Flush, RunTypes, Pcs, poll
<1>11. CASE Tick
  BY <1>11 DEF Tick, RunTypes
<1>12. CASE Unlink
  BY <1>12 DEF Unlink, RunTypes, Pcs
<1>13. CASE UNCHANGED aside /\ pc' \in Pcs
  BY <1>13 DEF aside, poll, RunTypes
<1>14. (\/ Resolve \/ GetAttr \/ GetSerial \/ SetRs485 \/ SetAttr \/ PollTimeout
        \/ Discarded \/ Restore \/ SerialRestored) => UNCHANGED aside /\ pc' \in Pcs
  BY DEF Resolve, GetAttr, GetSerial, SetRs485, SetAttr, PollTimeout, Discarded, Restore,
         SerialRestored, Pcs, OpenStages, CloseStages
<1>15. ASSUME NEW d \in Devices, Write(d) \/ Drain(d) PROVE UNCHANGED <<aside, pc>>
  BY <1>15 DEF Write, Drain
<1>16. CASE RestoreRefused
  <2>1. pc' \in Pcs /\ faults' \in 0..MaxFaults
    BY <1>16 DEF RestoreRefused, RunTypes, Pcs, CloseStages
  <2> QED
    BY <1>16, <2>1 DEF RestoreRefused, RunTypes, poll
<1> QED
  BY <1>3, <1>4, <1>5, <1>6, <1>7, <1>8, <1>9, <1>10, <1>11, <1>12, <1>13, <1>14, <1>15,
     <1>16, StepKinds DEF RunTypes

LEMMA TypeStep == IInv /\ Next => TypeOK'
BY ListTypeStep, TtyTypeStep, RunTypeStep, FlagStep, HistoryTypeStep, TypeParts DEF IInv

------------------------------------------------------------------------------
(* The list.                                                               *)

LEMMA ListParts ==
    ASSUME TypeOK, ListInv
    PROVE  /\ NULL \notin Ports /\ live \subseteq Ports
           /\ next \in [Ports -> Ports \cup {NULL}] /\ prev \in [Ports -> Ports \cup {NULL}]
           /\ port_list_head \in live \cup {NULL}
           /\ \A p \in live : prev[p] # p
<1>1. /\ NULL \notin Ports /\ live \subseteq Ports
      /\ next \in [Ports -> Ports \cup {NULL}] /\ prev \in [Ports -> Ports \cup {NULL}]
  BY Constants, TypeParts DEF ListTypes
<1>2. ASSUME live # {} PROVE port_list_head \in live
  <2>1. PICK q \in live : prev[q] \notin live
    BY <1>2 DEF ListInv, Grounded
  <2> QED
    BY <2>1 DEF ListInv, Linked
<1>3. ASSUME NEW p \in live PROVE prev[p] # p
  <2>1. {p} \in SUBSET live /\ {p} # {}
    OBVIOUS
  <2> QED
    BY <2>1 DEF ListInv, Grounded
<1> QED
  BY <1>1, <1>2, <1>3 DEF ListInv

(* Every port but the first has the first one ahead of it, and the first   *)
(* is the only one if it has no successor.                                 *)
LEMMA HeadAhead ==
    ASSUME TypeOK, ListInv, NEW p \in live, p # port_list_head
    PROVE  port_list_head \in Ahead(p)
<1>1. port_list_head \in Ports
  BY ListParts DEF ListInv
<1>2. SUFFICES ASSUME NEW S \in SUBSET Ports, Closed(S), prev[p] \in S \cup {NULL},
                      port_list_head \notin S
               PROVE  FALSE
  BY <1>1 DEF Ahead
<1>3. prev[p] # NULL /\ prev[p] \in live
  BY DEF ListInv, Linked
<1>4. prev[p] \in S \cap live
  BY <1>2, <1>3
<1>5. S \cap live \in SUBSET live /\ S \cap live # {}
  BY <1>4
<1>6. PICK q \in S \cap live : prev[q] \notin S \cap live
  BY <1>5 DEF ListInv, Grounded
<1>7. prev[q] # NULL /\ prev[q] \in live
  BY <1>2, <1>6 DEF ListInv, Linked
<1> QED
  BY <1>2, <1>6, <1>7 DEF Closed

LEMMA Alone ==
    ASSUME TypeOK, ListInv, port_list_head \in live, next[port_list_head] = NULL
    PROVE  live = {port_list_head}
<1>1. SUFFICES ASSUME live \ {port_list_head} # {} PROVE FALSE
  OBVIOUS
<1>2. PICK q \in live \ {port_list_head} : prev[q] \notin live \ {port_list_head}
  BY <1>1 DEF ListInv, Grounded
<1>3. prev[q] = port_list_head
  BY <1>2 DEF ListInv, Linked
<1>4. next[prev[q]] = q /\ q \in Ports
  BY <1>2, <1>3, ListParts DEF ListInv, Linked
<1> QED
  BY <1>3, <1>4, ListParts

(* A port is not ahead of itself if its predecessor is in a closed set of  *)
(* ports that it is not in.                                                *)
LEMMA NotAhead ==
    ASSUME NEW p \in Ports, NEW S \in SUBSET Ports, p \notin S,
           \A q \in S : prev'[q] \in S \cup {NULL}, prev'[p] \in S \cup {NULL}
    PROVE  p \notin Ahead(p)'
BY DEF Ahead, Closed

(* Such a set may be taken among the live ports.                           *)
LEMMA LiveAhead ==
    ASSUME TypeOK, ListInv, NEW p \in live
    PROVE  \E S \in SUBSET live : Closed(S) /\ prev[p] \in S \cup {NULL} /\ p \notin S
<1>1. p \in Ports /\ p \notin Ahead(p)
  BY ListParts DEF ListInv
<1>2. PICK S \in SUBSET Ports : Closed(S) /\ prev[p] \in S \cup {NULL} /\ p \notin S
  BY <1>1 DEF Ahead
<1> DEFINE T == S \cap live
<1>3. T \in SUBSET live /\ prev[p] \in T \cup {NULL} /\ p \notin T
  BY <1>2 DEF ListInv, Linked
<1>4. Closed(T)
  BY <1>2 DEF ListInv, Linked, Closed
<1> QED
  BY <1>3, <1>4

LEMMA ListOpen == ASSUME TypeOK, ListInv, NEW d \in Devices, uart_open(d) PROVE ListInv'
<1>1. PICK p \in Ports \ live : Register(p, d) /\ (First(p) \/ \E tail \in live : After(p, tail))
  BY Opening, TypeParts DEF ListInv
<1>2. live' = live \cup {p}
  BY <1>1 DEF Register
<1> USE ListParts
<1>3. CASE First(p)
  <2>1. live' = {p} /\ next'[p] = NULL /\ prev'[p] = NULL /\ port_list_head' = p /\ p # NULL
    BY <1>2, <1>3 DEF First
  <2>2. p \notin Ahead(p)'
    <3>1. PICK S \in SUBSET Ports : S = {}
      OBVIOUS
    <3> QED
      BY <2>1, <3>1, NotAhead
  <2>3. Grounded'
    BY <2>1 DEF Grounded
  <2>4. Linked(p)'
    BY <2>1 DEF Linked
  <2> QED
    BY <2>1, <2>2, <2>3, <2>4 DEF ListInv
<1>4. ASSUME NEW tail \in live, After(p, tail) PROVE ListInv'
  <2>1. /\ next[tail] = NULL /\ port_list_head' = port_list_head
        /\ next'[p] = NULL /\ next'[tail] = p /\ prev'[p] = tail
        /\ \A q \in live : prev'[q] = prev[q] /\ (q # tail => next'[q] = next[q])
    BY <1>4 DEF After
  <2>2. port_list_head # NULL
    BY DEF ListInv
  <2>3. Linked(p)'
    BY <1>2, <2>1 DEF Linked
  <2>4. ASSUME NEW q \in live PROVE Linked(q)'
    <3>1. Linked(q) /\ Linked(tail)
      BY DEF ListInv
    <3> QED
      BY <1>2, <2>1, <3>1 DEF Linked
  <2>5. p \notin Ahead(p)'
    <3>1. \A q \in live : prev'[q] \in live \cup {NULL}
      BY <2>1 DEF ListInv, Linked
    <3> QED
      BY <2>1, <3>1, NotAhead
  <2>6. ASSUME NEW q \in live PROVE q \notin Ahead(q)'
    <3>1. PICK S \in SUBSET live : Closed(S) /\ prev[q] \in S \cup {NULL} /\ q \notin S
      BY LiveAhead
    <3>2. \A r \in S : prev'[r] \in S \cup {NULL}
      BY <2>1, <3>1 DEF Closed
    <3> QED
      BY <2>1, <3>1, <3>2, NotAhead
  <2>7. Grounded'
    <3> SUFFICES ASSUME NEW S \in SUBSET live', S # {} PROVE \E q \in S : prev'[q] \notin S
      BY DEF Grounded
    <3>1. CASE S = {p}
      BY <2>1, <3>1
    <3>2. CASE S # {p}
      <4>1. S \ {p} \in SUBSET live /\ S \ {p} # {}
        BY <1>2, <3>2
      <4>2. PICK q \in S \ {p} : prev[q] \notin S \ {p}
        BY <4>1 DEF ListInv, Grounded
      <4>3. q \in live /\ prev[q] # p /\ prev'[q] = prev[q]
        BY <2>1, <4>1, <4>2 DEF ListInv, Linked
      <4> QED
        BY <4>2, <4>3
    <3> QED
      BY <3>1, <3>2
  <2>8. live' # {} /\ next'[p] = NULL
    BY <1>2, <2>1
  <2> QED
    BY <1>2, <2>1, <2>2, <2>3, <2>4, <2>5, <2>6, <2>7, <2>8 DEF ListInv
<1> QED
  BY <1>1, <1>3, <1>4

LEMMA ListUnlink == ASSUME TypeOK, ListInv, StageInv, Unlink PROVE ListInv'
<1>1. port \in live /\ port \in Ports
  BY ListParts DEF Unlink, StageInv, CloseStages
<1> USE ListParts
<1>2. /\ live' = live \ {port}
      /\ port_list_head' = IF port = port_list_head THEN next[port] ELSE port_list_head
  BY DEF Unlink
<1> DEFINE before == prev[port]
           after == next[port]
<1>3. /\ \A q \in live' : next'[q] = IF q = before THEN after ELSE next[q]
      /\ \A q \in live' : prev'[q] = IF q = after THEN before ELSE prev[q]
  BY <1>2 DEF Unlink, UnlinkNeighbours
<1>4. /\ before # port /\ after # port /\ before \in live' \cup {NULL} /\ after \in live' \cup {NULL}
      /\ before # NULL => next[before] = port
      /\ after # NULL => prev[after] = port
      /\ before = NULL <=> port = port_list_head
      /\ before # NULL => before \in live /\ before # after
  <2>1. Linked(port)
    BY <1>1 DEF ListInv
  <2>2. before # port
    BY <1>1
  <2>3. after # port
    BY <2>1, <2>2, Constants, <1>1 DEF Linked
  <2>4. before # NULL => before # after
    <3>1. SUFFICES ASSUME before # NULL, before = after PROVE FALSE
      OBVIOUS
    <3>2. before \in live /\ prev[before] = port
      BY <2>1, <3>1 DEF Linked
    <3>3. {before, port} \in SUBSET live /\ {before, port} # {}
      BY <1>1, <3>2
    <3>4. \E q \in {before, port} : prev[q] \notin {before, port}
      BY <3>3 DEF ListInv, Grounded
    <3> QED
      BY <3>2, <3>4
  <2> QED
    BY <1>2, <2>1, <2>2, <2>3, <2>4 DEF Linked
<1> HIDE DEF before, after
<1>5. ASSUME NEW q \in live' PROVE Linked(q)'
  <2>1. /\ Linked(q) /\ q # NULL /\ q \in live /\ q # port
        /\ next[q] # NULL => Linked(next[q])
        /\ prev[q] # NULL => Linked(prev[q])
    BY <1>2 DEF ListInv, Linked
  <2>2. next[q] = port => q = before
    BY <1>1, <2>1 DEF Linked, before
  <2>3. prev[q] = port => q = after
    BY <1>1, <2>1 DEF Linked, after
  <2>4. next'[q] \in live' \cup {NULL} /\ prev'[q] \in live' \cup {NULL}
    BY <1>2, <1>3, <1>4, <1>5, <2>1, <2>2, <2>3 DEF Linked
  <2>5. next'[q] # NULL => prev'[next'[q]] = q
    <3>1. CASE q = before
      BY <1>3, <1>4, <1>5, <2>1, <2>4, <3>1
    <3>2. CASE q # before
      <4>1. next'[q] = next[q] /\ next[q] # port
        BY <1>3, <1>5, <2>2, <3>2
      <4>2. next[q] # NULL => next[q] # after
        BY <1>4, <2>1, <4>1 DEF Linked
      <4> QED
        BY <1>3, <2>1, <2>4, <4>1, <4>2 DEF Linked
    <3> QED
      BY <3>1, <3>2
  <2>6. prev'[q] # NULL => next'[prev'[q]] = q
    <3>1. CASE q = after
      BY <1>3, <1>4, <1>5, <2>1, <2>4, <3>1
    <3>2. CASE q # after
      <4>1. prev'[q] = prev[q] /\ prev[q] # port
        BY <1>3, <1>5, <2>3, <3>2
      <4>2. prev[q] # NULL => prev[q] # before
        BY <1>4, <2>1, <4>1 DEF Linked
      <4> QED
        BY <1>3, <2>1, <2>4, <4>1, <4>2 DEF Linked
    <3> QED
      BY <3>1, <3>2
  <2>7. prev'[q] = NULL <=> q = port_list_head'
    <3>1. CASE q = after
      <4>1. prev'[q] = before /\ prev[q] = port /\ port # NULL
        BY <1>1, <1>3, <1>4, <1>5, <2>1, <3>1
      <4>2. q # port_list_head
        BY <2>1, <4>1 DEF Linked
      <4> QED
        BY <1>2, <1>4, <2>1, <3>1, <4>1, <4>2 DEF after
    <3>2. CASE q # after
      BY <1>2, <1>3, <1>4, <1>5, <2>1, <3>2 DEF Linked, after
    <3> QED
      BY <3>1, <3>2
  <2> QED
    BY <2>4, <2>5, <2>6, <2>7 DEF Linked
<1>6. ASSUME NEW q \in live' PROVE q \notin Ahead(q)'
  <2>1. q \in live
    BY <1>2
  <2>2. PICK S \in SUBSET live : Closed(S) /\ prev[q] \in S \cup {NULL} /\ q \notin S
    BY <2>1, LiveAhead
  <2> DEFINE T == S \ {port}
  <2>3. \A r \in live' : prev[r] \in S \cup {NULL} => prev'[r] \in T \cup {NULL}
    <3> SUFFICES ASSUME NEW r \in live', prev[r] \in S \cup {NULL}
                 PROVE  prev'[r] \in T \cup {NULL}
      OBVIOUS
    <3>1. CASE r = after
      <4>1. prev[r] = port /\ prev'[r] = before
        BY <1>2, <1>3, <1>4, <3>1
      <4>2. before \in S \cup {NULL}
        BY <2>2, <4>1, <1>1 DEF Closed, before
      <4> QED
        BY <1>4, <4>1, <4>2
    <3>2. CASE r # after
      <4>1. prev'[r] = prev[r] /\ prev[r] # port
        BY <1>1, <1>2, <1>3, <3>2 DEF ListInv, Linked, after
      <4> QED
        BY <4>1
    <3> QED
      BY <3>1, <3>2
  <2>4. T \in SUBSET Ports /\ T \subseteq live' /\ q \notin T
    BY <1>2, <2>2
  <2>5. \A r \in T : prev'[r] \in T \cup {NULL}
    BY <2>2, <2>3, <2>4 DEF Closed
  <2>6. prev'[q] \in T \cup {NULL}
    BY <2>2, <2>3
  <2> QED
    BY <2>1, <2>4, <2>5, <2>6, NotAhead
<1>7. Grounded'
  <2> SUFFICES ASSUME NEW S \in SUBSET live', S # {} PROVE \E q \in S : prev'[q] \notin S
    BY DEF Grounded
  <2>1. S \in SUBSET live /\ port \notin S
    BY <1>2
  <2>2. CASE before \in S
    <3>1. S \cup {port} \in SUBSET live /\ S \cup {port} # {}
      BY <1>1, <2>1
    <3>2. PICK q \in S \cup {port} : prev[q] \notin S \cup {port}
      BY <3>1 DEF ListInv, Grounded
    <3>3. q # port
      BY <2>2, <3>2 DEF before
    <3>4. q # after
      BY <1>1, <1>4, <2>1, <3>2, <3>3
    <3> QED
      BY <1>3, <3>2, <3>3, <3>4
  <2>3. CASE before \notin S
    <3>1. PICK q \in S : prev[q] \notin S
      BY <2>1 DEF ListInv, Grounded
    <3> QED
      BY <1>3, <2>3, <3>1
  <2> QED
    BY <2>2, <2>3
<1>8. live' # {} => \E q \in live' : next'[q] = NULL
  <2> SUFFICES ASSUME live' # {} PROVE \E q \in live' : next'[q] = NULL
    OBVIOUS
  <2>1. PICK q \in live : next[q] = NULL
    BY <1>1 DEF ListInv
  <2>2. CASE q # port
    BY <1>1, <1>2, <1>3, <1>4, <2>1, <2>2
  <2>3. CASE q = port /\ before # NULL
    BY <1>2, <1>3, <1>4, <2>1, <2>3 DEF after
  <2>4. CASE q = port /\ before = NULL
    BY <1>1, <1>2, <1>4, <2>1, <2>4, Alone
  <2> QED
    BY <2>2, <2>3, <2>4
<1>9. port_list_head' = NULL <=> live' = {}
  <2>1. CASE port = port_list_head
    <3>1. after = NULL => live = {port}
      BY <1>1, <2>1, Alone DEF after
    <3> QED
      BY <1>2, <1>4, <2>1, <3>1 DEF after
  <2>2. CASE port # port_list_head
    BY <1>1, <1>2, <2>2 DEF ListInv
  <2> QED
    BY <2>1, <2>2
<1> QED
  BY <1>5, <1>6, <1>7, <1>8, <1>9 DEF ListInv

LEMMA ListStep == TypeOK /\ ListInv /\ StageInv /\ Next => ListInv'
<1> SUFFICES ASSUME TypeOK, ListInv, StageInv, Next PROVE ListInv'
  OBVIOUS
<1>1. CASE UNCHANGED <<live, next, prev, port_list_head>>
  BY <1>1 DEF ListInv, Linked, Ahead, Closed, Grounded
<1>2. (\/ OpenFails \/ AppEnds \/ Handler \/ Exit \/ uart_cleanup \/ Broken \/ Resolve
       \/ OpenDevice \/ GetAttr \/ GetSerial \/ SetRs485 \/ SetAttr \/ Flush \/ Tick
       \/ PollTimeout \/ Discarded \/ Restore \/ SerialRestored \/ RestoreRefused
       \/ CloseDevice
       \/ \E d \in Devices : Write(d) \/ Drain(d)
       \/ \E p \in live : CallClose(p)) => UNCHANGED <<live, next, prev, port_list_head>>
  BY DEF OpenFails, AppEnds, Handler, Exit, uart_cleanup, Broken, Resolve, OpenDevice,
         GetAttr, GetSerial, SetRs485, SetAttr, Flush, Tick, PollTimeout, Discarded,
         Restore, SerialRestored, RestoreRefused, CloseDevice, Write, Drain, CallClose, list
<1> QED
  BY <1>1, <1>2, ListOpen, ListUnlink, StepKinds

------------------------------------------------------------------------------
(* Where the program is.                                                   *)

(* The steps that leave the stages of a call.                              *)
Outside == {"app", "handler", "fatal", "exit", "cleanup", "gone"}

LEMMA Leaving ==
    ASSUME OpenFails \/ AppEnds \/ Handler \/ Broken \/ Exit
           \/ (uart_cleanup /\ curr_port = NULL) \/ Flush \/ Unlink
    PROVE  pc' \in Outside
<1>1. error => pc' \in Outside
  BY ErrorEnds DEF Outside
<1>2. CASE OpenFails \/ AppEnds \/ Handler \/ Broken
  BY <1>1, <1>2 DEF OpenFails, AppEnds, Handler, Broken, Outside
<1>3. CASE Exit \/ (uart_cleanup /\ curr_port = NULL)
  BY <1>3 DEF Exit, uart_cleanup, Gone, Outside
<1>4. CASE Flush \/ Unlink
  BY <1>4 DEF Flush, Unlink, Outside
<1> QED
  BY <1>2, <1>3, <1>4

LEMMA StageStep == TypeOK /\ ListInv /\ StageInv /\ EndInv /\ Next => StageInv'
<1> SUFFICES ASSUME TypeOK, ListTypes, TtyTypes, RunTypes, ListInv, StageInv, EndInv, Next
             PROVE  StageInv'
  BY TypeParts
<1>1. CASE pc' \in Outside
  BY <1>1 DEF StageInv, Outside, OpenStages, CloseStages
<1>2. ASSUME NEW d \in Devices, uart_open(d) PROVE StageInv'
  <2>1. PICK p \in Ports \ live :
              Register(p, d) /\ (First(p) \/ \E tail \in live : After(p, tail))
    BY <1>2, Opening DEF ListInv
  <2>2. next'[p] = NULL
    BY <2>1 DEF First, After, ListTypes
  <2>3. pc' = "resolve" /\ port' = p /\ name' = d /\ p \in live' /\ fd'[p] = Stdin
    BY <1>2, <2>1 DEF uart_open, Register, ListTypes
  <2> QED
    BY <2>2, <2>3 DEF StageInv, OpenStages, CloseStages
<1>3. ASSUME NEW d \in Devices, Write(d) \/ Drain(d) PROVE StageInv'
  BY <1>3 DEF Write, Drain, StageInv, list, aside
<1>4. ASSUME NEW p \in live, Close(p), UNCHANGED <<list, opened>> PROVE StageInv'
  BY <1>4 DEF Close, StageInv, list, OpenStages, CloseStages
<1>5. CASE uart_cleanup /\ curr_port # NULL
  <2>1. curr_port \in live /\ Close(curr_port)
    BY <1>5, ListParts DEF uart_cleanup, EndInv
  <2> QED
    BY <1>4, <1>5, <2>1 DEF uart_cleanup, tty
<1>6. ASSUME NEW p \in live, CallClose(p) PROVE StageInv'
  BY <1>4, <1>6 DEF CallClose, tty
<1>7. CASE Resolve
  BY <1>7 DEF Resolve, StageInv, list, tty, aside, OpenStages, CloseStages
<1>8. CASE OpenDevice
  <2>1. CASE error
    BY <1>1, <2>1, ErrorEnds DEF Outside
  <2>2. CASE ~error
    <3>1. /\ pc = "open" /\ pc' = "getattr" /\ fd' = [fd EXCEPT ![port] = name]
          /\ UNCHANGED <<live, next, port, name>>
      BY <1>8, <2>2 DEF OpenDevice
    <3> QED
      BY <3>1 DEF StageInv, OpenStages, CloseStages, ListTypes
  <2> QED
    BY <2>1, <2>2
<1>9. CASE GetAttr \/ GetSerial \/ SetRs485 \/ SetAttr
  <2>1. /\ UNCHANGED <<live, fd, next, port, name>>
        /\ pc \in {"getattr", "getserial", "rs485", "setattr"}
        /\ pc' \in {"getserial", "rs485", "setattr", "flush"}
    BY <1>9 DEF GetAttr, GetSerial, SetRs485, SetAttr, list, aside
  <2> QED
    BY <2>1 DEF StageInv, OpenStages, CloseStages
<1>10. CASE Tick \/ PollTimeout
  <2>1. /\ UNCHANGED <<live, port>> /\ pc = "poll" /\ pc' \in {"poll", "discard"}
    BY <1>10 DEF Tick, PollTimeout, list, aside
  <2> QED
    BY <2>1 DEF StageInv, OpenStages, CloseStages
<1>11. CASE Discarded \/ Restore \/ SerialRestored \/ RestoreRefused
  <2>1. /\ UNCHANGED <<live, fd, opened, port>> /\ pc \in {"discard", "restore", "serial"}
        /\ pc = "discard" => port \in opened \/ fd[port] = Stdin
        /\ pc' \in {"restore", "serial", "close"}
    BY <1>11 DEF Discarded, Restore, SerialRestored, RestoreRefused, list, tty, aside
  <2> QED
    BY <2>1 DEF StageInv, OpenStages, CloseStages
<1>12. CASE CloseDevice
  <2>1. CASE error
    BY <1>1, <2>1, ErrorEnds DEF Outside
  <2>2. CASE ~error
    <3>1. pc = "close" /\ pc' = "unlink" /\ UNCHANGED <<live, port>>
      BY <1>12, <2>2 DEF CloseDevice, list
    <3> QED
      BY <3>1 DEF StageInv, OpenStages, CloseStages
  <2> QED
    BY <2>1, <2>2
<1> QED
  BY <1>1, <1>2, <1>3, <1>5, <1>6, <1>7, <1>8, <1>9, <1>10, <1>11, <1>12, Leaving, StepKinds

(* The steps of a call that only go on with it, or end uart_open.          *)
GoesOn ==
    /\ UNCHANGED <<live, next, prev, port_list_head, curr_port, first_run, cleaning,
                   broken, half_open>>
    /\ \/ pc \in OpenStages /\ pc' \in OpenStages \cup {"app"}
       \/ pc \in CloseStages /\ pc' \in CloseStages /\ UNCHANGED port
       \/ pc = "app" /\ UNCHANGED <<pc, port>>

LEMMA GoingOn ==
    ASSUME \/ \E d \in Devices : Write(d) \/ Drain(d)
           \/ Resolve \/ (OpenDevice /\ ~error) \/ GetAttr \/ GetSerial \/ SetRs485 \/ SetAttr
           \/ Flush \/ Tick \/ PollTimeout \/ Discarded \/ Restore \/ SerialRestored
           \/ RestoreRefused \/ (CloseDevice /\ ~error)
    PROVE  GoesOn
<1>1. ASSUME NEW d \in Devices, Write(d) \/ Drain(d) PROVE GoesOn
  BY <1>1 DEF Write, Drain, GoesOn, list, aside, ending, history, CloseStages
<1>2. CASE Resolve \/ GetAttr \/ GetSerial \/ SetRs485 \/ SetAttr \/ Flush
  BY <1>2 DEF Resolve, GetAttr, GetSerial, SetRs485, SetAttr, Flush, GoesOn, list, aside,
              ending, history, OpenStages
<1>3. CASE OpenDevice /\ ~error
  BY <1>3 DEF OpenDevice, GoesOn, ending, history, OpenStages
<1>4. CASE Tick \/ PollTimeout
  BY <1>4 DEF Tick, PollTimeout, GoesOn, list, aside, ending, history, CloseStages
<1>5. CASE Discarded \/ Restore \/ SerialRestored \/ RestoreRefused
  BY <1>5 DEF Discarded, Restore, SerialRestored, RestoreRefused, GoesOn, list, aside, ending,
              history, CloseStages
<1>6. CASE CloseDevice /\ ~error
  BY <1>6 DEF CloseDevice, GoesOn, list, ending, history, CloseStages
<1> QED
  BY <1>1, <1>2, <1>3, <1>4, <1>5, <1>6

(* The steps that fail: the port a call failed on is not forgotten.        *)
Fails ==
    /\ error /\ UNCHANGED <<live, next, prev, port_list_head, curr_port, first_run, port>>
    /\ port \in broken' /\ broken \subseteq broken'
    /\ \/ /\ pc \in OpenStages /\ half_open' = half_open \cup {port}
       \/ /\ pc \in CloseStages /\ half_open' = half_open
          /\ UNCHANGED fd /\ fd[port] \in broken'

LEMMA Failing ==
    ASSUME \/ Broken /\ pc \in (OpenStages \cup CloseStages) \ {"open", "close", "unlink"}
           \/ OpenDevice /\ error
           \/ CloseDevice /\ error
    PROVE  Fails
<1>1. CASE Broken /\ pc \in (OpenStages \cup CloseStages) \ {"open", "close", "unlink"}
  BY <1>1 DEF Broken, Fails, list, OpenStages, CloseStages
<1>2. CASE OpenDevice /\ error
  <2>1. pc' # "getattr"
    BY <1>2, ErrorEnds
  <2> QED
    BY <1>2, <2>1 DEF OpenDevice, Fails, OpenStages
<1>3. CASE CloseDevice /\ error
  <2>1. pc' # "unlink"
    BY <1>3, ErrorEnds
  <2> QED
    BY <1>3, <2>1 DEF CloseDevice, Fails, CloseStages, list
<1> QED
  BY <1>1, <1>2, <1>3

LEMMA EndStep == TypeOK /\ ListInv /\ StageInv /\ EndInv /\ Next => EndInv'
<1> SUFFICES ASSUME TypeOK, ListInv, StageInv, EndInv, Next PROVE EndInv'
  OBVIOUS
<1> USE ListParts
<1>1. ASSUME NEW d \in Devices, uart_open(d) PROVE EndInv'
  <2>1. /\ pc = "app" /\ pc' = "resolve" /\ first_run' = FALSE
        /\ UNCHANGED <<cleaning, broken, half_open>>
    BY <1>1 DEF uart_open, Register, ending, history
  <2>2. ~cleaning /\ broken = {} /\ half_open = {}
    BY <2>1 DEF EndInv
  <2> QED
    BY <2>1, <2>2 DEF EndInv, OpenStages, CloseStages
<1>2. CASE GoesOn
  BY <1>2 DEF GoesOn, EndInv, OpenStages, CloseStages
<1>3. ASSUME NEW p \in live, CallClose(p) PROVE EndInv'
  <2>1. /\ pc = "app" /\ pc' = "poll"
        /\ UNCHANGED <<live, next, port_list_head, cleaning, broken, half_open, first_run>>
    BY <1>3 DEF CallClose, Close, list, ending, history
  <2> QED
    BY <2>1 DEF EndInv, OpenStages, CloseStages
<1>4. CASE OpenFails \/ AppEnds \/ Handler
  <2>1. pc' \in {"handler", "fatal", "exit"} /\ cleaning' = cleaning
    BY <1>4, ErrorEnds DEF OpenFails, AppEnds, Handler, ending
  <2>2. /\ UNCHANGED <<live, fd, next, port_list_head, broken, half_open>>
        /\ pc \in {"app", "handler", "fatal"} /\ (first_run' => first_run)
    BY <1>4 DEF OpenFails, AppEnds, Handler, list, history
  <2> QED
    BY <2>1, <2>2 DEF EndInv, OpenStages, CloseStages
<1>5. CASE Exit
  <2>1. /\ UNCHANGED <<live, next, port_list_head, broken, half_open, first_run>>
        /\ \/ pc' = "gone"
           \/ pc' = "cleanup" /\ cleaning' /\ curr_port' = port_list_head
    BY <1>5 DEF Exit, Gone, list, history
  <2> QED
    BY <2>1 DEF EndInv, OpenStages, CloseStages
<1>6. CASE uart_cleanup
  <2>1. UNCHANGED <<live, next, port_list_head, cleaning, broken, half_open, first_run>>
    BY <1>6 DEF uart_cleanup, list, ending, history
  <2>2. CASE curr_port = NULL
    <3>1. pc' = "gone"
      BY <1>6, <2>2 DEF uart_cleanup, Gone
    <3> QED
      BY <2>1, <3>1 DEF EndInv, OpenStages, CloseStages
  <2>3. CASE curr_port # NULL
    <3>1. pc = "cleanup" /\ pc' = "poll" /\ port' = curr_port /\ curr_port' = next[curr_port]
      BY <1>6, <2>3 DEF uart_cleanup, Close
    <3> QED
      BY <2>1, <3>1 DEF EndInv, OpenStages, CloseStages
  <2> QED
    BY <2>2, <2>3
<1>7. CASE Fails
  <2>1. pc' \in {"handler", "fatal", "exit"} /\ cleaning' = cleaning
    BY <1>7, ErrorEnds DEF Fails
  <2>2. /\ UNCHANGED <<live, next, port_list_head, first_run>>
        /\ port \in live /\ port \in broken' /\ broken \subseteq broken'
    BY <1>7 DEF Fails, StageInv
  <2>3. CASE pc \in OpenStages /\ half_open' = half_open \cup {port}
    <3>1. ~cleaning /\ next[port] = NULL
      BY <2>3 DEF EndInv, StageInv
    <3> QED
      BY <2>1, <2>2, <2>3, <3>1 DEF EndInv, OpenStages, CloseStages
  <2>4. CASE pc \in CloseStages /\ half_open' = half_open /\ UNCHANGED fd /\ fd[port] \in broken'
    <3>1. cleaning => port = port_list_head
      BY <2>4 DEF EndInv
    <3> QED
      BY <2>1, <2>2, <2>4, <3>1 DEF EndInv, OpenStages, CloseStages
  <2> QED
    BY <1>7, <2>3, <2>4 DEF Fails
<1>8. CASE Unlink
  <2>1. /\ pc = "unlink" /\ pc' = IF cleaning THEN "cleanup" ELSE "app"
        /\ UNCHANGED <<cleaning, broken, half_open, curr_port, first_run>>
        /\ port_list_head' = IF port = port_list_head THEN next[port] ELSE port_list_head
        /\ live' = live \ {port}
    BY <1>8 DEF Unlink, ending, history
  <2>2. /\ port \in live /\ (~cleaning => broken = {} /\ half_open = {})
        /\ cleaning => port = port_list_head /\ curr_port = next[port]
    BY <2>1 DEF EndInv, StageInv, CloseStages
  <2>3. CASE cleaning
    <3>1. prev[port] = NULL
      BY <2>2, <2>3 DEF ListInv, Linked
    <3>2. \A q \in live' : next'[q] = next[q]
      BY <1>8, <2>1, <3>1 DEF Unlink, UnlinkNeighbours
    <3> QED
      BY <2>1, <2>2, <2>3, <3>2 DEF EndInv, OpenStages, CloseStages
  <2>4. CASE ~cleaning
    BY <2>1, <2>2, <2>4 DEF EndInv, OpenStages, CloseStages
  <2> QED
    BY <2>3, <2>4
<1> QED
  BY <1>1, <1>2, <1>3, <1>4, <1>5, <1>6, <1>7, <1>8, GoingOn, Failing, StepKinds

------------------------------------------------------------------------------
(* The descriptors and the settings.                                       *)

(* The steps that open and close nothing.                                  *)
SamePorts ==
    /\ UNCHANGED <<live, fd, opened>> /\ broken \subseteq broken'
    /\ pc \notin {"unlink", "gone"} /\ pc' \notin {"unlink", "gone"}

LEMMA KeepingPorts ==
    ASSUME \/ \E d \in Devices : Write(d) \/ Drain(d)
           \/ \E p \in live : CallClose(p)
           \/ OpenFails \/ AppEnds \/ Handler \/ (Exit /\ pc' # "gone")
           \/ (uart_cleanup /\ curr_port # NULL)
           \/ Broken /\ pc \in (OpenStages \cup CloseStages) \ {"open", "close", "unlink"}
           \/ Resolve \/ GetAttr \/ GetSerial \/ SetRs485 \/ SetAttr
           \/ Flush \/ Tick \/ PollTimeout \/ Discarded \/ Restore \/ SerialRestored
           \/ RestoreRefused
    PROVE  SamePorts
<1>1. ASSUME NEW d \in Devices, Write(d) \/ Drain(d) PROVE SamePorts
  BY <1>1 DEF Write, Drain, SamePorts, list, history
<1>2. ASSUME NEW p \in live, CallClose(p) PROVE SamePorts
  BY <1>2 DEF CallClose, Close, SamePorts, list, tty, history
<1>3. CASE OpenFails \/ AppEnds \/ Handler
  <2>1. pc' \notin {"unlink", "gone"}
    BY <1>3, ErrorEnds DEF OpenFails, AppEnds, Handler
  <2> QED
    BY <1>3, <2>1 DEF OpenFails, AppEnds, Handler, SamePorts, list, tty, history
<1>4. CASE Exit /\ pc' # "gone"
  BY <1>4 DEF Exit, Gone, SamePorts, list, tty, history
<1>5. CASE uart_cleanup /\ curr_port # NULL
  BY <1>5 DEF uart_cleanup, Close, SamePorts, list, tty, history
<1>6. CASE Broken /\ pc \in (OpenStages \cup CloseStages) \ {"open", "close", "unlink"}
  <2>1. pc' \notin {"unlink", "gone"}
    BY <1>6, ErrorEnds DEF Broken
  <2> QED
    BY <1>6, <2>1 DEF Broken, SamePorts, list, tty, OpenStages, CloseStages
<1>7. CASE Resolve \/ GetAttr \/ GetSerial \/ SetRs485 \/ SetAttr \/ Flush
  BY <1>7 DEF Resolve, GetAttr, GetSerial, SetRs485, SetAttr, Flush, SamePorts, list, tty,
              history
<1>8. CASE Tick \/ PollTimeout \/ Discarded \/ Restore \/ SerialRestored \/ RestoreRefused
  BY <1>8 DEF Tick, PollTimeout, Discarded, Restore, SerialRestored, RestoreRefused, SamePorts,
              list, tty, history
<1> QED
  BY <1>1, <1>2, <1>3, <1>4, <1>5, <1>6, <1>7, <1>8

(* The end of the program.                                                 *)
Ends == pc' = "gone" /\ opened' = {} /\ UNCHANGED <<list, changed, history>>

LEMMA Ending ==
    ASSUME (Exit /\ pc' = "gone") \/ (uart_cleanup /\ curr_port = NULL) PROVE Ends
BY DEF Exit, uart_cleanup, Gone, Ends

(* open(), when it succeeds and when it fails, and close(), which frees    *)
(* the descriptor in any case.                                             *)
Opened ==
    /\ pc = "open" /\ pc' = "getattr" /\ fd' = [fd EXCEPT ![port] = name]
    /\ opened' = opened \cup {port} /\ UNCHANGED broken
    /\ spoilt' = spoilt \cup {d \in {name} : \E p \in live : fd[p] = d}

NotOpened ==
    /\ pc = "open" /\ pc' \in {"handler", "fatal", "exit"}
    /\ fd' = [fd EXCEPT ![port] = None]
    /\ broken' = broken \cup {port} /\ UNCHANGED <<opened, spoilt>>

LEMMA OpeningDevice ==
    ASSUME OpenDevice
    PROVE  /\ Opened \/ NotOpened
           /\ UNCHANGED <<live, old_tio, old_serial, changed, port, name>>
BY ErrorEnds DEF OpenDevice, Opened, NotOpened

DeviceClosed ==
    /\ pc = "close" /\ opened' = opened \ {port}
    /\ UNCHANGED <<live, fd, old_tio, old_serial, changed, port, spoilt>>
    /\ \/ pc' = "unlink" /\ UNCHANGED broken
       \/ /\ pc' \in {"handler", "fatal", "exit"}
          /\ broken' = broken \cup {port, fd[port]}

LEMMA ClosingDevice == CloseDevice => DeviceClosed
BY ErrorEnds DEF CloseDevice, DeviceClosed, list, history

LEMMA DescriptorStep ==
    TypeOK /\ ListInv /\ StageInv /\ EndInv /\ DescriptorInv /\ Next => DescriptorInv'
<1> SUFFICES ASSUME TypeOK, ListTypes, TtyTypes, RunTypes, ListInv, StageInv, EndInv,
                    DescriptorInv, Next
             PROVE  DescriptorInv'
  BY TypeParts
<1> USE Constants
<1>1. ASSUME NEW d \in Devices, uart_open(d) PROVE DescriptorInv'
  <2>1. PICK p \in Ports \ live : Register(p, d)
    BY <1>1, Opening DEF ListInv
  <2>2. /\ live' = live \cup {p} /\ fd'[p] = Stdin /\ \A q \in live : fd'[q] = fd[q]
        /\ pc = "app" /\ pc' = "resolve" /\ UNCHANGED <<opened, broken>>
    BY <1>1, <2>1 DEF uart_open, Register, ListTypes, tty, history
  <2> QED
    BY <2>2 DEF DescriptorInv, Closing
<1>2. CASE OpenDevice
  <2>1. port \in live /\ pc = "open" /\ UNCHANGED <<live, port>>
    BY <1>2, OpeningDevice DEF OpenDevice, StageInv, OpenStages
  <2>2. \A q \in live \ {port} : fd'[q] = fd[q]
    BY <1>2, OpeningDevice DEF Opened, NotOpened, ListTypes
  <2>3. CASE Opened
    BY <2>1, <2>2, <2>3 DEF Opened, DescriptorInv, Closing
  <2>4. CASE NotOpened
    BY <2>1, <2>2, <2>4 DEF NotOpened, DescriptorInv, Closing
  <2> QED
    BY <1>2, <2>3, <2>4, OpeningDevice
<1>3. CASE CloseDevice
  <2>1. port \in live /\ DeviceClosed
    BY <1>3, ClosingDevice DEF CloseDevice, StageInv, CloseStages
  <2>2. pc = "close" /\ UNCHANGED <<live, fd, port>> /\ opened' = opened \ {port}
    BY <2>1 DEF DeviceClosed
  <2>3. broken \subseteq broken' /\ (pc' # "unlink" => port \in broken')
    BY <2>1 DEF DeviceClosed
  <2>4. \A p \in live \ (broken' \cup Closing') : p # port /\ p \notin broken
    BY <2>2, <2>3 DEF Closing
  <2> QED
    BY <2>2, <2>4 DEF DescriptorInv, Closing
<1>4. CASE Unlink
  <2>1. /\ pc = "unlink" /\ pc' \in {"cleanup", "app"} /\ live' = live \ {port}
        /\ fd' = [fd EXCEPT ![port] = Stdin] /\ UNCHANGED <<opened, broken>>
    BY <1>4 DEF Unlink, tty, history
  <2>2. \A q \in live' : fd'[q] = fd[q]
    BY <2>1 DEF ListTypes
  <2> QED
    BY <2>1, <2>2 DEF DescriptorInv, Closing
<1>5. CASE Ends
  BY <1>5 DEF Ends, DescriptorInv, list
<1>6. CASE SamePorts
  BY <1>6 DEF SamePorts, DescriptorInv, Closing
<1> QED
  BY <1>1, <1>2, <1>3, <1>4, <1>5, <1>6, KeepingPorts, Ending, StepKinds

(* The five parts of SettingsInv.                                          *)
Owned == \A d \in Sound : Altered(d) => \E p \in live : fd[p] = d

Remembered ==
    \A p \in live : fd[p] \in Sound =>
       /\ old_tio[p] # "found" => pc = "getattr" /\ port = p
       /\ old_serial[p] # "found" => pc \in {"getattr", "getserial"} /\ port = p

AsFound ==
    /\ pc = "getattr" /\ fd[port] \in Sound => "tio" \notin changed[fd[port]]
    /\ pc \in {"getattr", "getserial"} /\ fd[port] \in Sound =>
          "serial" \notin changed[fd[port]]

ModeRestored ==
    pc \in {"serial", "close", "unlink"} /\ fd[port] \in Sound =>
       "tio" \notin changed[fd[port]]

LatencyRestored ==
    pc \in {"close", "unlink"} /\ fd[port] \in Sound =>
       "serial" \notin changed[fd[port]]

LEMMA SettingsParts ==
    /\ SettingsInv <=> Owned /\ Remembered /\ AsFound /\ ModeRestored /\ LatencyRestored
    /\ SettingsInv' <=>
          Owned' /\ Remembered' /\ AsFound' /\ ModeRestored' /\ LatencyRestored'
BY DEF SettingsInv, Owned, Remembered, AsFound, ModeRestored, LatencyRestored

(* A device is never sound again, whatever the step.                       *)
LEMMA SoundShrinks ==
    ASSUME Next, TypeOK PROVE broken \subseteq broken' /\ Sound' \subseteq Sound
<1>1. Broken => broken \subseteq broken' /\ spoilt \subseteq spoilt'
  BY DEF Broken
<1>2. OpenDevice \/ RestoreRefused \/ CloseDevice =>
         broken \subseteq broken' /\ spoilt \subseteq spoilt'
  BY DEF OpenDevice, RestoreRefused, CloseDevice, history
<1>3. (\/ Resolve \/ GetAttr \/ GetSerial \/ SetRs485 \/ SetAttr \/ Flush \/ Tick
       \/ PollTimeout \/ Discarded \/ Restore \/ SerialRestored \/ Unlink \/ uart_cleanup
       \/ OpenFails \/ AppEnds \/ Handler \/ Exit
       \/ \E d \in Devices : uart_open(d)
       \/ \E d \in Devices : Write(d) \/ Drain(d)
       \/ \E p \in live : CallClose(p)) => UNCHANGED history
  BY DEF Resolve, GetAttr, GetSerial, SetRs485, SetAttr, Flush, Tick, PollTimeout,
         Discarded, Restore, SerialRestored, Unlink, uart_cleanup, Write, Drain,
         CallClose, OpenFails, AppEnds, Handler, Exit, uart_open
<1>4. broken \subseteq broken' /\ spoilt \subseteq spoilt'
  BY <1>1, <1>2, <1>3, StepKinds DEF history
<1> QED
  BY <1>4 DEF Sound

LEMMA OwnedStep ==
    TypeOK /\ ListInv /\ StageInv /\ DescriptorInv /\ SettingsInv /\ Next => Owned'
<1> SUFFICES ASSUME TypeOK, ListTypes, TtyTypes, RunTypes, ListInv, StageInv, DescriptorInv,
                    Owned, ModeRestored, LatencyRestored, Next, Sound' \subseteq Sound
             PROVE  Owned'
  BY TypeParts, SettingsParts, SoundShrinks
<1> USE Constants
<1>1. ASSUME NEW d \in Devices, uart_open(d) PROVE Owned'
  <2>1. PICK p \in Ports \ live : Register(p, d)
    BY <1>1, Opening DEF ListInv
  <2>2. live \subseteq live' /\ (\A q \in live : fd'[q] = fd[q]) /\ UNCHANGED changed
    BY <1>1, <2>1 DEF uart_open, Register, ListTypes, tty
  <2> QED
    BY <2>2 DEF Owned, Altered
<1>2. CASE OpenDevice
  <2>1. port \in live /\ fd[port] \notin Devices
    BY <1>2 DEF OpenDevice, StageInv, OpenStages
  <2>2. \A q \in live \ {port} : fd'[q] = fd[q]
    BY <1>2, OpeningDevice DEF Opened, NotOpened, ListTypes
  <2>3. UNCHANGED <<live, changed>> /\ Sound \subseteq Devices
    BY <1>2, OpeningDevice DEF Sound
  <2> QED
    BY <2>1, <2>2, <2>3 DEF Owned, Altered
<1>3. CASE Unlink
  <2>1. /\ pc = "unlink" /\ live' = live \ {port} /\ fd' = [fd EXCEPT ![port] = Stdin]
        /\ UNCHANGED changed
    BY <1>3 DEF Unlink, tty
  <2>2. \A q \in live \ {port} : fd'[q] = fd[q]
    BY <2>1 DEF ListTypes
  <2>3. fd[port] \in Sound => ~Altered(fd[port])
    BY <2>1 DEF ModeRestored, LatencyRestored, Altered
  <2> QED
    BY <2>1, <2>2, <2>3 DEF Owned, Altered
<1>4. CASE UNCHANGED <<live, fd, changed>>
  BY <1>4 DEF Owned, Altered
<1>5. (\/ \E d \in Devices : Write(d) \/ Drain(d)
       \/ \E p \in live : CallClose(p)
       \/ OpenFails \/ AppEnds \/ Handler \/ Exit \/ uart_cleanup \/ Broken \/ Resolve
       \/ GetAttr \/ Flush \/ Tick \/ PollTimeout \/ Discarded \/ RestoreRefused
       \/ CloseDevice)
         => UNCHANGED <<live, fd, changed>>
  <2>1. (\E d \in Devices : Write(d) \/ Drain(d)) \/ (\E p \in live : CallClose(p)) =>
           UNCHANGED <<live, fd, changed>>
    BY DEF Write, Drain, CallClose, list, tty
  <2>2. OpenFails \/ AppEnds \/ Handler \/ Exit \/ uart_cleanup \/ Broken =>
           UNCHANGED <<live, fd, changed>>
    BY DEF OpenFails, AppEnds, Handler, Exit, uart_cleanup, Gone, Broken, list, tty
  <2>3. Resolve \/ GetAttr \/ Flush \/ Tick \/ PollTimeout \/ Discarded =>
           UNCHANGED <<live, fd, changed>>
    BY DEF Resolve, GetAttr, Flush, Tick, PollTimeout, Discarded, list, tty
  <2>4. RestoreRefused \/ CloseDevice => UNCHANGED <<live, fd, changed>>
    BY DEF RestoreRefused, CloseDevice, list, tty
  <2> QED
    BY <2>1, <2>2, <2>3, <2>4
<1>6. CASE GetSerial \/ SetRs485 \/ SetAttr \/ Restore \/ SerialRestored
  <2>1. port \in live /\ UNCHANGED <<live, fd>>
    BY <1>6 DEF GetSerial, SetRs485, SetAttr, Restore, SerialRestored, StageInv, OpenStages,
                CloseStages, list
  <2>2. GetSerial \/ SetRs485 \/ SetAttr => fd[port] = name
    BY DEF GetSerial, SetRs485, SetAttr, StageInv, OpenStages
  <2>3. \A d \in Devices : d # fd[port] => changed'[d] = changed[d]
    BY <1>6, <2>2 DEF GetSerial, SetRs485, SetAttr, Restore, SerialRestored, Change, TtyTypes
  <2>4. Sound \subseteq Devices
    BY DEF Sound
  <2> QED
    BY <2>1, <2>3, <2>4 DEF Owned, Altered
<1> QED
  BY <1>1, <1>2, <1>3, <1>4, <1>5, <1>6, StepKinds

LEMMA RememberedStep == TypeOK /\ ListInv /\ StageInv /\ SettingsInv /\ Next => Remembered'
<1> SUFFICES ASSUME TypeOK, ListTypes, RunTypes, ListInv, StageInv, Remembered, AsFound, Next,
                    Sound' \subseteq Sound
             PROVE  Remembered'
  BY TypeParts, SettingsParts, SoundShrinks
<1> USE Constants
<1>1. ASSUME NEW d \in Devices, uart_open(d) PROVE Remembered'
  <2>1. PICK p \in Ports \ live : Register(p, d)
    BY <1>1, Opening DEF ListInv
  <2>2. /\ live' = live \cup {p} /\ fd'[p] = Stdin /\ pc = "app"
        /\ \A q \in live : /\ fd'[q] = fd[q] /\ old_tio'[q] = old_tio[q]
                           /\ old_serial'[q] = old_serial[q]
    BY <1>1, <2>1 DEF uart_open, Register, ListTypes
  <2>3. Stdin \notin Sound
    BY DEF Sound
  <2> QED
    BY <2>2, <2>3 DEF Remembered
<1>2. CASE OpenDevice
  <2>1. pc = "open" /\ port \in live /\ UNCHANGED <<live, old_tio, old_serial, port>>
    BY <1>2, OpeningDevice DEF OpenDevice, StageInv, OpenStages
  <2>2. \A q \in live \ {port} : fd'[q] = fd[q]
    BY <1>2, OpeningDevice DEF Opened, NotOpened, ListTypes
  <2>3. pc' = "getattr" \/ fd'[port] \notin Sound
    BY <1>2, <2>1, OpeningDevice DEF Opened, NotOpened, ListTypes, Sound
  <2> QED
    BY <2>1, <2>2, <2>3 DEF Remembered
<1>3. CASE GetAttr
  <2>1. /\ pc = "getattr" /\ pc' = "getserial"
        /\ old_tio' = [old_tio EXCEPT ![port] = Saved("tio")]
        /\ UNCHANGED <<live, fd, old_serial, port>>
    BY <1>3 DEF GetAttr, aside
  <2>2. \A q \in live : old_tio'[q] = IF q = port THEN Saved("tio") ELSE old_tio[q]
    BY <2>1 DEF ListTypes
  <2>3. fd[port] \in Sound => Saved("tio") = "found"
    BY <2>1 DEF AsFound, Saved, StageInv, OpenStages
  <2> QED
    BY <2>1, <2>2, <2>3 DEF Remembered
<1>4. CASE GetSerial
  <2>1. /\ pc = "getserial" /\ old_serial' = [old_serial EXCEPT ![port] = Saved("serial")]
        /\ UNCHANGED <<live, fd, old_tio, port>>
    BY <1>4 DEF GetSerial, aside
  <2>2. \A q \in live : old_serial'[q] = IF q = port THEN Saved("serial") ELSE old_serial[q]
    BY <2>1 DEF ListTypes
  <2>3. fd[port] \in Sound => Saved("serial") = "found"
    BY <2>1 DEF AsFound, Saved, StageInv, OpenStages
  <2> QED
    BY <2>1, <2>2, <2>3 DEF Remembered
<1>5. CASE Broken /\ pc \in (OpenStages \cup CloseStages) \ {"open", "close", "unlink"}
  <2>1. /\ broken' = broken \cup {port, fd[port]}
        /\ UNCHANGED <<live, fd, old_tio, old_serial, port>>
    BY <1>5 DEF Broken, list
  <2>2. fd[port] \notin Sound'
    BY <2>1 DEF Sound
  <2> QED
    BY <2>1, <2>2 DEF Remembered
<1>6. CASE Unlink
  <2>1. /\ pc = "unlink" /\ live' = live \ {port}
        /\ \A q \in live' : /\ fd'[q] = fd[q] /\ old_tio'[q] = old_tio[q]
                            /\ old_serial'[q] = old_serial[q]
    BY <1>6 DEF Unlink, ListTypes
  <2> QED
    BY <2>1 DEF Remembered
<1>7. CASE UNCHANGED <<live, fd, old_tio, old_serial>> /\ pc \notin {"getattr", "getserial"}
  BY <1>7 DEF Remembered
<1>8. (\/ \E d \in Devices : Write(d) \/ Drain(d)
       \/ \E p \in live : CallClose(p)
       \/ OpenFails \/ AppEnds \/ Handler \/ Exit \/ uart_cleanup \/ Resolve \/ SetRs485
       \/ SetAttr \/ Flush \/ Tick \/ PollTimeout \/ Discarded \/ Restore
       \/ SerialRestored \/ RestoreRefused \/ CloseDevice) =>
         UNCHANGED <<live, fd, old_tio, old_serial>> /\ pc \notin {"getattr", "getserial"}
  <2> DEFINE Kept == /\ UNCHANGED <<live, fd, old_tio, old_serial>>
                     /\ pc \notin {"getattr", "getserial"}
  <2>1. (\E d \in Devices : Write(d) \/ Drain(d)) \/ (\E p \in live : CallClose(p)) => Kept
    BY DEF Write, Drain, CallClose, list
  <2>2. OpenFails \/ AppEnds \/ Handler \/ Exit \/ uart_cleanup => Kept
    BY DEF OpenFails, AppEnds, Handler, Exit, uart_cleanup, list
  <2>3. Resolve \/ SetRs485 \/ SetAttr \/ Flush \/ Tick \/ PollTimeout => Kept
    BY DEF Resolve, SetRs485, SetAttr, Flush, Tick, PollTimeout, list
  <2>4. Discarded \/ Restore \/ SerialRestored \/ RestoreRefused \/ CloseDevice => Kept
    BY DEF Discarded, Restore, SerialRestored, RestoreRefused, CloseDevice, list
  <2> QED
    BY <2>1, <2>2, <2>3, <2>4
<1> QED
  BY <1>1, <1>2, <1>3, <1>4, <1>5, <1>6, <1>7, <1>8, StepKinds

(* The steps that do not lead to the end of uart_close.                    *)
LEMMA Before ==
    ASSUME \/ \E d \in Devices : uart_open(d)
           \/ \E d \in Devices : Write(d) \/ Drain(d)
           \/ \E p \in live : CallClose(p)
           \/ OpenFails \/ AppEnds \/ Handler \/ Exit \/ uart_cleanup \/ Broken
           \/ Resolve \/ OpenDevice \/ GetAttr \/ GetSerial \/ SetRs485 \/ SetAttr
           \/ Flush \/ Tick \/ PollTimeout \/ Discarded \/ Unlink
    PROVE  /\ pc' \notin {"serial", "close", "unlink"}
           /\ pc' \in {"getattr", "getserial"} => OpenDevice \/ GetAttr
<1> DEFINE Away == {"serial", "close", "unlink", "getattr", "getserial"}
<1>1. error => pc' \notin Away
  BY ErrorEnds
<1>2. CASE \E d \in Devices : uart_open(d)
  BY <1>2 DEF uart_open, Register
<1>3. CASE (\E d \in Devices : Write(d) \/ Drain(d)) \/ (\E p \in live : CallClose(p))
  BY <1>3 DEF Write, Drain, CallClose, Close
<1>4. CASE OpenFails \/ AppEnds \/ Handler \/ Exit \/ uart_cleanup \/ Broken
  BY <1>1, <1>4 DEF OpenFails, AppEnds, Handler, Exit, uart_cleanup, Close, Gone, Broken
<1>5. CASE Resolve \/ GetSerial \/ SetRs485 \/ SetAttr \/ Flush
  BY <1>5 DEF Resolve, GetSerial, SetRs485, SetAttr, Flush
<1>6. CASE OpenDevice \/ GetAttr
  BY <1>1, <1>6 DEF OpenDevice, GetAttr
<1>7. CASE Tick \/ PollTimeout \/ Discarded \/ Unlink
  BY <1>7 DEF Tick, PollTimeout, Discarded, Unlink
<1> QED
  BY <1>2, <1>3, <1>4, <1>5, <1>6, <1>7

(* A device that no port had when it was opened is as it was found.        *)
LEMMA AsFoundStep == TypeOK /\ StageInv /\ SettingsInv /\ Next => AsFound'
<1> SUFFICES ASSUME TypeOK, ListTypes, StageInv, Owned, AsFound, Next,
                    Sound' \subseteq Sound, pc' \in {"getattr", "getserial"}
             PROVE  AsFound'
  BY TypeParts, SettingsParts, SoundShrinks DEF AsFound
<1>1. ~Restore /\ ~SerialRestored /\ ~RestoreRefused /\ ~CloseDevice
  BY ErrorEnds DEF Restore, SerialRestored, RestoreRefused, CloseDevice
<1>2. CASE OpenDevice
  <2>1. /\ port \in live /\ Opened /\ UNCHANGED <<live, changed, port, name>>
    BY <1>2, OpeningDevice DEF OpenDevice, StageInv, OpenStages, NotOpened
  <2>2. fd'[port] = name
    BY <2>1 DEF Opened, ListTypes
  <2>3. ASSUME name \in Sound' PROVE ~Altered(name)
    <3>1. name \in Sound /\ name \notin spoilt'
      BY <2>3 DEF Sound
    <3>2. \A p \in live : fd[p] # name
      BY <2>1, <3>1 DEF Opened
    <3> QED
      BY <3>1, <3>2 DEF Owned
  <2> QED
    BY <2>1, <2>2, <2>3 DEF AsFound, Altered
<1>3. CASE GetAttr
  <2>1. pc = "getattr" /\ pc' = "getserial" /\ UNCHANGED <<fd, changed, port>>
    BY <1>3 DEF GetAttr, tty, aside
  <2> QED
    BY <2>1 DEF AsFound
<1> QED
  BY <1>1, <1>2, <1>3, Before, StepKinds

LEMMA RestoredStep ==
    TypeOK /\ StageInv /\ SettingsInv /\ Next => ModeRestored' /\ LatencyRestored'
<1> SUFFICES ASSUME TypeOK, ListTypes, TtyTypes, StageInv, Remembered, ModeRestored,
                    LatencyRestored, Next, Sound' \subseteq Sound
             PROVE  ModeRestored' /\ LatencyRestored'
  BY TypeParts, SettingsParts, SoundShrinks
<1>1. CASE pc' \notin {"serial", "close", "unlink"}
  BY <1>1 DEF ModeRestored, LatencyRestored
<1>2. CASE Restore
  <2>1. pc = "restore" /\ pc' = "serial" /\ UNCHANGED <<fd, port>> /\ port \in live
    BY <1>2 DEF Restore, list, aside, StageInv, CloseStages
  <2>2. ASSUME fd[port] \in Sound PROVE "tio" \notin changed'[fd[port]]
    <3>1. old_tio[port] = "found" /\ fd[port] \in Devices
      BY <2>1, <2>2 DEF Remembered, Sound
    <3> QED
      BY <1>2, <2>2, <3>1 DEF Restore, TtyTypes
  <2> QED
    BY <2>1, <2>2 DEF ModeRestored, LatencyRestored
<1>3. CASE SerialRestored
  <2>1. pc = "serial" /\ pc' = "close" /\ UNCHANGED <<fd, port>> /\ port \in live
    BY <1>3 DEF SerialRestored, list, aside, StageInv, CloseStages
  <2>2. ASSUME fd[port] \in Sound
        PROVE  "tio" \notin changed'[fd[port]] /\ "serial" \notin changed'[fd[port]]
    <3>1. /\ old_serial[port] = "found" /\ "tio" \notin changed[fd[port]]
          /\ fd[port] \in Devices
      BY <2>1, <2>2 DEF Remembered, ModeRestored, Sound
    <3> QED
      BY <1>3, <2>2, <3>1 DEF SerialRestored, TtyTypes
  <2> QED
    BY <2>1, <2>2 DEF ModeRestored, LatencyRestored
<1>4. CASE RestoreRefused
  <2>1. UNCHANGED <<fd, port>> /\ fd'[port'] \notin Sound'
    BY <1>4 DEF RestoreRefused, list, Sound
  <2> QED
    BY <2>1 DEF ModeRestored, LatencyRestored
<1>5. CASE CloseDevice
  <2>1. pc = "close" /\ UNCHANGED <<fd, changed, port>>
    BY <1>5, ClosingDevice DEF DeviceClosed
  <2> QED
    BY <2>1 DEF ModeRestored, LatencyRestored
<1> QED
  BY <1>1, <1>2, <1>3, <1>4, <1>5, Before, StepKinds

LEMMA SettingsStep ==
    TypeOK /\ ListInv /\ StageInv /\ DescriptorInv /\ SettingsInv /\ Next => SettingsInv'
BY OwnedStep, RememberedStep, AsFoundStep, RestoredStep, SettingsParts

(* When the program ends, either the list is empty, or the cleanup met a   *)
(* port at its head that it could not close.                               *)
LEMMA LeftStep == IInv /\ Next => LeftAsFound'
<1> SUFFICES ASSUME TypeOK, ListInv, EndInv, Owned, Next PROVE LeftAsFound'
  BY SettingsParts DEF IInv
<1>1. CASE Ends
  <2> SUFFICES ASSUME NEW d \in Devices, changed'[d] \cap {"tio", "serial"} # {},
                      d \notin broken' \cup spoilt'
               PROVE  \E p \in live' : /\ fd'[p] = d
                                       /\ (broken' \ half_open') \cap Ahead(p)' # {}
    BY DEF LeftAsFound
  <2>1. /\ UNCHANGED <<live, fd, prev, next, port_list_head, changed, broken, half_open>>
        /\ d \in Sound
    BY <1>1 DEF Ends, list, history, Sound
  <2>2. PICK p \in live : fd[p] = d
    BY <2>1 DEF Owned, Altered
  <2>3. live # {} /\ (Exit \/ (uart_cleanup /\ curr_port = NULL))
    <3>1. pc' = "gone"
      BY <1>1 DEF Ends
    <3>2. ~SamePorts
      BY <3>1 DEF SamePorts
    <3>3. ASSUME NEW e \in Devices PROVE ~uart_open(e)
      BY <3>1 DEF uart_open, Register
    <3>4. ~OpenDevice /\ ~CloseDevice /\ ~Unlink
      BY <3>1, ErrorEnds DEF OpenDevice, CloseDevice, Unlink
    <3> QED
      BY <2>2, <3>1, <3>2, <3>3, <3>4, KeepingPorts, StepKinds
  <2>4. port_list_head # NULL
    BY <2>2 DEF ListInv
  <2>5. ~(uart_cleanup /\ curr_port = NULL)
    BY <2>4 DEF uart_cleanup, EndInv
  <2>6. pc = "exit" /\ cleaning
    <3>1. ~first_run
      BY <2>3 DEF EndInv
    <3>2. pc' = "gone"
      BY <1>1 DEF Ends
    <3> QED
      BY <2>3, <2>5, <3>1, <3>2 DEF Exit
  <2>7. port_list_head \in live /\ port_list_head \in broken /\ fd[port_list_head] \in broken
    BY <2>6 DEF EndInv
  <2>8. p # port_list_head
    BY <2>1, <2>2, <2>7
  <2>9. port_list_head \in Ahead(p)
    BY <2>2, <2>8, HeadAhead
  <2>10. port_list_head \notin half_open
    BY <2>2, <2>7, <2>8, Alone DEF EndInv
  <2>11. port_list_head \in Ahead(p)'
    BY <2>1, <2>9 DEF Ahead, Closed
  <2> QED
    BY <2>1, <2>2, <2>7, <2>10, <2>11
<1>2. CASE pc' # "gone"
  BY <1>2 DEF LeftAsFound
<1>3. CASE pc' = "gone"
  <2>1. ~SamePorts
    BY <1>3 DEF SamePorts
  <2>2. ASSUME NEW e \in Devices PROVE ~uart_open(e)
    BY <1>3 DEF uart_open, Register
  <2>3. ~OpenDevice /\ ~CloseDevice /\ ~Unlink
    BY <1>3, ErrorEnds DEF OpenDevice, CloseDevice, Unlink
  <2>4. Exit \/ (uart_cleanup /\ curr_port = NULL)
    BY <2>1, <2>2, <2>3, KeepingPorts, StepKinds
  <2> QED
    BY <1>1, <1>3, <2>4, Ending
<1> QED
  BY <1>2, <1>3

------------------------------------------------------------------------------
(* The output.                                                             *)

LEMMA PollStep == IInv /\ Next => PollInv' /\ KeepsWhatFits'
<1> SUFFICES ASSUME TypeOK, TtyTypes, RunTypes, ListInv, StageInv, EndInv, PollInv,
                    KeepsWhatFits, Next
             PROVE  PollInv' /\ KeepsWhatFits'
  BY TypeParts DEF IInv
<1> USE Constants
<1>1. CASE pc' \notin {"poll", "discard"}
  BY <1>1 DEF PollInv, KeepsWhatFits
<1>2. ASSUME NEW p \in live, Close(p), UNCHANGED <<list, tty>>
      PROVE  PollInv' /\ KeepsWhatFits'
  <2>1. pc' = "poll" /\ port' = p /\ waited' = 0 /\ UNCHANGED <<fd, pending>>
    BY <1>2 DEF Close, list, tty
  <2>2. fd[p] \in Devices => queued' = pending[fd[p]] /\ pending[fd[p]] \in Nat
    BY <1>2 DEF Close, TtyTypes
  <2> QED
    BY <2>1, <2>2 DEF PollInv, KeepsWhatFits
<1>3. CASE uart_cleanup /\ curr_port # NULL
  <2>1. curr_port \in live /\ Close(curr_port) /\ UNCHANGED <<list, tty>>
    BY <1>3, ListParts DEF uart_cleanup, EndInv
  <2> QED
    BY <1>2, <2>1
<1>4. ASSUME NEW p \in live, CallClose(p) PROVE PollInv' /\ KeepsWhatFits'
  BY <1>2, <1>4 DEF CallClose
<1>5. CASE Tick
  <2>1. /\ pc = "poll" /\ waited' = waited + 1 /\ pc' = "poll"
        /\ UNCHANGED <<fd, port, queued>>
    BY <1>5 DEF Tick, list
  <2>2. ASSUME fd[port] \in Devices \ Held
        PROVE  pending'[fd[port]] = IF pending[fd[port]] = 0 THEN 0 ELSE pending[fd[port]] - 1
    BY <1>5, <2>2 DEF Tick
  <2>3. ASSUME fd[port] \in Devices \ Held
        PROVE  pending'[fd[port]] <= queued' - waited' \/ pending'[fd[port]] = 0
    <3>1. pending[fd[port]] <= queued - waited \/ pending[fd[port]] = 0
      BY <2>1, <2>3 DEF PollInv
    <3>2. pending[fd[port]] \in Nat /\ queued \in Nat /\ waited \in Nat
      BY <2>3 DEF TtyTypes, RunTypes
    <3> QED
      BY <2>1, <2>2, <2>3, <3>1, <3>2
  <2> QED
    BY <2>1, <2>3 DEF PollInv, KeepsWhatFits
<1>6. CASE PollTimeout
  <2>1. /\ pc = "poll" /\ waited = CLOSE_TIMEOUT /\ pc' = "discard"
        /\ UNCHANGED <<fd, port, queued, pending>>
    BY <1>6 DEF PollTimeout, list, tty, aside, poll
  <2> QED
    BY <2>1 DEF PollInv, KeepsWhatFits
<1>7. (\/ \E d \in Devices : uart_open(d)
       \/ \E d \in Devices : Write(d) \/ Drain(d)
       \/ OpenFails \/ AppEnds \/ Handler \/ Exit \/ (uart_cleanup /\ curr_port = NULL)
       \/ Broken \/ Resolve \/ OpenDevice \/ GetAttr \/ GetSerial \/ SetRs485 \/ SetAttr
       \/ Flush \/ Discarded \/ Restore \/ SerialRestored \/ RestoreRefused \/ CloseDevice
       \/ Unlink)
         => pc' \notin {"poll", "discard"}
  <2>1. error => pc' \notin {"poll", "discard"}
    BY ErrorEnds
  <2>2. (\E d \in Devices : uart_open(d)) => pc' \notin {"poll", "discard"}
    BY DEF uart_open, Register
  <2>3. (\E d \in Devices : Write(d) \/ Drain(d)) => pc' \notin {"poll", "discard"}
    BY DEF Write, Drain
  <2>4. OpenFails \/ AppEnds \/ Handler \/ Exit \/ (uart_cleanup /\ curr_port = NULL)
          \/ Broken => pc' \notin {"poll", "discard"}
    BY <2>1 DEF OpenFails, AppEnds, Handler, Exit, uart_cleanup, Gone, Broken
  <2>5. Resolve \/ OpenDevice \/ GetAttr \/ GetSerial \/ SetRs485 \/ SetAttr \/ Flush =>
          pc' \notin {"poll", "discard"}
    BY <2>1 DEF Resolve, OpenDevice, GetAttr, GetSerial, SetRs485, SetAttr, Flush
  <2>6. Discarded \/ Restore \/ SerialRestored \/ RestoreRefused \/ CloseDevice \/ Unlink =>
          pc' \notin {"poll", "discard"}
    BY <2>1 DEF Discarded, Restore, SerialRestored, RestoreRefused, CloseDevice, Unlink
  <2> QED
    BY <2>2, <2>3, <2>4, <2>5, <2>6
<1> QED
  BY <1>1, <1>3, <1>4, <1>5, <1>6, <1>7, StepKinds

------------------------------------------------------------------------------
(* The theorems.                                                           *)

LEMMA InvInit == Init => IInv
<1> SUFFICES ASSUME Init PROVE IInv
  OBVIOUS
<1>1. ListInv
  BY DEF Init, ListInv, Grounded
<1>2. StageInv /\ EndInv
  BY DEF Init, StageInv, EndInv, OpenStages, CloseStages
<1>3. DescriptorInv
  BY DEF Init, DescriptorInv
<1>4. SettingsInv
  BY DEF Init, SettingsInv, Altered, Sound
<1>5. LeftAsFound /\ PollInv /\ KeepsWhatFits
  BY DEF Init, LeftAsFound, PollInv, KeepsWhatFits
<1> QED
  BY <1>1, <1>2, <1>3, <1>4, <1>5, TypeInit DEF IInv

LEMMA InvStep == IInv /\ [Next]_vars => IInv'
<1>1. IInv /\ Next => IInv'
  BY TypeStep, ListStep, StageStep, EndStep, DescriptorStep, SettingsStep, LeftStep, PollStep
  DEF IInv
<1>2. ASSUME IInv, UNCHANGED vars PROVE IInv'
  <2>1. /\ UNCHANGED <<live, fd, old_tio, old_serial, next, prev, port_list_head>>
        /\ UNCHANGED <<opened, changed, pending, pc, port, name, curr_port, waited, queued>>
        /\ UNCHANGED <<first_run, cleaning, error_called, fatal_error_called, faults>>
        /\ UNCHANGED <<broken, half_open, spoilt>>
    BY <1>2 DEF vars, list, tty, poll, ending, history
  <2>2. TypeOK'
    BY <1>2, <2>1 DEF IInv, TypeOK
  <2>3. ListInv'
    BY <1>2, <2>1 DEF IInv, ListInv, Linked, Ahead, Closed, Grounded
  <2>4. StageInv' /\ EndInv'
    BY <1>2, <2>1 DEF IInv, StageInv, EndInv
  <2>5. DescriptorInv' /\ SettingsInv'
    BY <1>2, <2>1 DEF IInv, DescriptorInv, Closing, SettingsInv, Altered, Sound
  <2>6. LeftAsFound'
    BY <1>2, <2>1 DEF IInv, LeftAsFound, Ahead, Closed
  <2>7. PollInv' /\ KeepsWhatFits'
    BY <1>2, <2>1 DEF IInv, PollInv, KeepsWhatFits
  <2> QED
    BY <2>2, <2>3, <2>4, <2>5, <2>6, <2>7 DEF IInv
<1> QED
  BY <1>1, <1>2

(* The inductive invariant holds of every behaviour.                       *)
THEOREM Invariance == Spec => []IInv
BY InvInit, InvStep, PTL DEF Spec

(* Every variable of uart_open, uart_close and error() keeps its type.     *)
THEOREM TypeCorrect == Spec => []TypeOK
<1>1. IInv => TypeOK
  BY DEF IInv
<1> QED
  BY <1>1, Invariance, PTL

(* The list of uart_host.c is sound: its links agree, it has no cycle, and *)
(* it holds every port that was allocated and not freed.                   *)
THEOREM SoundList == Spec => []ListSound
<1>1. IInv => ListSound
  <2> SUFFICES ASSUME IInv PROVE ListSound
    OBVIOUS
  <2>1. ListInv /\ EndInv
    BY DEF IInv
  <2>2. \A p \in live : Linked(p) /\ p \notin Ahead(p)
    BY <2>1 DEF ListInv
  <2> QED
    BY <2>1, <2>2 DEF ListInv, Linked, EndInv, ListSound
<1> QED
  BY <1>1, Invariance, PTL

(* uart_cleanup restores every device it can still reach.                  *)
THEOREM SettingsRestored == Spec => []LeftAsFound
<1>1. IInv => LeftAsFound
  BY DEF IInv
<1> QED
  BY <1>1, Invariance, PTL

(* No descriptor leaks, while the program runs, and the ports on the list  *)
(* have theirs open.                                                       *)
THEOREM NoneLeaks == Spec => []DescriptorsListed
<1>1. IInv => DescriptorsListed
  <2> SUFFICES ASSUME DescriptorInv, pc \notin {"unlink", "gone"} PROVE DescriptorsListed
    BY DEF IInv, DescriptorsListed
  <2>1. Closing = {}
    BY DEF Closing
  <2> QED
    BY <2>1 DEF DescriptorInv, DescriptorsListed
<1> QED
  BY <1>1, Invariance, PTL

(* The poll() of uart_close waits long enough for what fits its timeout.   *)
THEOREM FittingOutputKept == Spec => []KeepsWhatFits
<1>1. IInv => KeepsWhatFits
  BY DEF IInv
<1> QED
  BY <1>1, Invariance, PTL
==============================================================================
