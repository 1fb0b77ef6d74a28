------------------------------- MODULE UartHost -------------------------------
(***************************************************************************)
(* The life of serial ports in a host program: uart_open, uart_close and   *)
(* the list of open ports of nuhal_linux/src/uart_host.c, and how the      *)
(* program ends: error() of nuhal_all/src/error.c, exit() and the cleanup  *)
(* that uart_open registers with atexit().                                 *)
(*                                                                         *)
(* Any system call on a port may fail, MaxFaults times in all.  A failure  *)
(* calls error(), whose handler the application may have replaced by one   *)
(* that itself calls error().  An exit() from within the cleanup goes on   *)
(* with the handlers that are left, as in glibc, so the cleanup does not   *)
(* run twice.  A system call on a port may also be refused as not          *)
(* supported, which uart_close ignores where it restores the settings.     *)
(***************************************************************************)
EXTENDS Integers

CONSTANTS Ports,           \* the addresses malloc returns
          Devices,         \* serial devices
          LowLatency,      \* those that support TIOCSSERIAL
          Rs485,           \* those not on USB that support TIOCSRS485
          Held,            \* those whose output flow control holds back
          NULL,
          MaxPending,      \* bound on the output a device has yet to send
          CLOSE_TIMEOUT,   \* in the time it takes to send a byte
          MaxFaults        \* bound on the system calls that fail

Stdin == "stdin"           \* what descriptor 0 refers to
None == "none"             \* descriptor -1

ASSUME HostAssumption ==
    /\ NULL \notin Ports /\ {Stdin, None} \cap Devices = {}
    /\ LowLatency \cup Rs485 \cup Held \subseteq Devices
    /\ MaxPending \in Nat /\ CLOSE_TIMEOUT \in Nat /\ MaxFaults \in Nat

VARIABLES live,            \* port structures allocated and not freed
          fd,              \* the device their descriptor is open on
          old_tio,         \* their copies of the settings: "zero" until they
          old_serial,      \* are read, "changed" if they were not as found
          next, prev,      \* the links of the list
          port_list_head,
          opened,          \* ports whose descriptor is open
          changed,         \* the settings of each device, and of the standard
                           \* input, that are not as they were found
          pending,         \* bytes each device has yet to send
          pc,              \* where the program is
          port, name,      \* the port being opened or closed, the device
          curr_port,       \* the cursor of uart_cleanup
          waited,          \* how long the poll() of uart_close has lasted
          queued,          \* history: the output pending when it began
          first_run,       \* the cleanup is not registered yet
          cleaning,        \* exit() has run the cleanup
          error_called, fatal_error_called,
          faults,          \* system calls that failed
          broken,          \* history: ports a system call failed on, and
                           \* what their descriptors referred to
          half_open,       \* history: ports whose uart_open failed
          spoilt           \* history: devices that refused their settings
                           \* back, or were opened while a port had them

list == <<live, fd, old_tio, old_serial, next, prev, port_list_head>>
tty == <<opened, changed, pending>>
poll == <<waited, queued>>
ending == <<cleaning, error_called, fatal_error_called>>
history == <<broken, half_open, spoilt>>
vars == <<list, tty, pc, port, name, curr_port, poll, first_run, ending,
          faults, history>>

OpenStages == {"resolve", "open", "getattr", "getserial", "rs485", "setattr",
               "flush"}
CloseStages == {"poll", "discard", "restore", "serial", "close", "unlink"}
Pcs == OpenStages \cup CloseStages \cup
       {"app", "handler", "fatal", "exit", "cleanup", "gone"}

Init ==
    /\ live = {} /\ port_list_head = NULL
    /\ fd = [p \in Ports |-> Stdin] /\ old_tio = [p \in Ports |-> "zero"]
    /\ old_serial = [p \in Ports |-> "zero"]
    /\ next = [p \in Ports |-> NULL] /\ prev = [p \in Ports |-> NULL]
    /\ opened = {} /\ changed = [d \in Devices \cup {Stdin} |-> {}]
    /\ pending = [d \in Devices |-> 0]
    /\ pc = "app" /\ port = NULL /\ name = None /\ curr_port = NULL
    /\ waited = 0 /\ queued = 0 /\ first_run = TRUE /\ cleaning = FALSE
    /\ error_called = FALSE /\ fatal_error_called = FALSE
    /\ faults = 0 /\ broken = {} /\ half_open = {} /\ spoilt = {}

------------------------------------------------------------------------------
(* error() and the end of the program.                                     *)

(* error() up to the call of a handler, or to exit() on the third call.    *)
error ==
    /\ CASE ~error_called ->
              pc' = "handler" /\ error_called' = TRUE /\ UNCHANGED fatal_error_called
         [] error_called /\ ~fatal_error_called ->
              pc' = "fatal" /\ fatal_error_called' = TRUE /\ UNCHANGED error_called
         [] OTHER ->
              pc' = "exit" /\ UNCHANGED <<error_called, fatal_error_called>>
    /\ UNCHANGED cleaning

(* A system call on the current port fails: of itself, or because of the   *)
(* state the port is in.                                                   *)
Broken ==
    /\ error
    /\ broken' = broken \cup {port, fd[port]}
    /\ half_open' = IF pc \in OpenStages THEN half_open \cup {port} ELSE half_open
    /\ UNCHANGED <<list, tty, port, name, curr_port, poll, first_run, spoilt>>

Fault == faults < MaxFaults /\ faults' = faults + 1 /\ Broken

(* error_handler and error_handler_fatal return, or call error() in turn.  *)
Handler ==
    /\ pc \in {"handler", "fatal"}
    /\ \/ pc' = "exit" /\ UNCHANGED ending
       \/ error
    /\ UNCHANGED <<list, tty, port, name, curr_port, poll, first_run, faults,
                   history>>

(* The program fails elsewhere, or its main function returns.              *)
AppEnds ==
    /\ pc = "app"
    /\ \/ error
       \/ pc' = "exit" /\ UNCHANGED ending
    /\ UNCHANGED <<list, tty, port, name, curr_port, poll, first_run, faults,
                   history>>

(* The kernel closes what is left open, but restores nothing.              *)
Gone == pc' = "gone" /\ opened' = {} /\ UNCHANGED <<changed, pending>>

Exit ==
    /\ pc = "exit"
    /\ \/ /\ ~first_run /\ ~cleaning
          /\ pc' = "cleanup" /\ cleaning' = TRUE /\ curr_port' = port_list_head
          /\ UNCHANGED tty
       \/ /\ first_run \/ cleaning
          /\ Gone /\ UNCHANGED <<cleaning, curr_port>>
    /\ UNCHANGED <<list, port, name, poll, first_run, error_called,
                   fatal_error_called, faults, history>>

(* What uart_close does first: the descriptor's poll() begins.             *)
Close(p) ==
    /\ pc' = "poll" /\ port' = p /\ waited' = 0
    /\ queued' = IF fd[p] \in Devices THEN pending[fd[p]] ELSE 0

(* uart_cleanup: from the head of the list to its end.  The successor is   *)
(* read before the port is closed and freed.                               *)
uart_cleanup ==
    /\ pc = "cleanup"
    /\ \/ /\ curr_port = NULL /\ Gone
          /\ UNCHANGED <<port, curr_port, poll>>
       \/ /\ curr_port # NULL /\ Close(curr_port)
          /\ curr_port' = next[curr_port]
          /\ UNCHANGED tty
    /\ UNCHANGED <<list, name, first_run, ending, faults, history>>

------------------------------------------------------------------------------
(* uart_open.                                                              *)

(* uart_open up to its first system call on the device d: the cleanup is   *)
(* registered and a zeroed port p joins the tail of the list.              *)
Register(p, d) ==
    /\ first_run' = FALSE /\ live' = live \cup {p}
    /\ fd' = [fd EXCEPT ![p] = Stdin]
    /\ old_tio' = [old_tio EXCEPT ![p] = "zero"]
    /\ old_serial' = [old_serial EXCEPT ![p] = "zero"]
    /\ pc' = "resolve" /\ port' = p /\ name' = d

(* Mutant: a new port joins the list at its head.                          *)
LinkAtHead(p) ==
    /\ port_list_head' = p
    /\ next' = [next EXCEPT ![p] = port_list_head]
    /\ prev' = [q \in Ports |-> IF q = port_list_head THEN p
                                ELSE IF q = p THEN NULL ELSE prev[q]]

Link(p) ==
    LET tail == CHOOSE q \in live : next[q] = NULL IN
    IF port_list_head = NULL
      THEN /\ port_list_head' = p
           /\ next' = [next EXCEPT ![p] = NULL]
           /\ prev' = [prev EXCEPT ![p] = NULL]
      ELSE /\ next' = [next EXCEPT ![p] = NULL, ![tail] = p]
           /\ prev' = [prev EXCEPT ![p] = tail]
           /\ UNCHANGED port_list_head

uart_open(d) ==
    /\ pc = "app" /\ live # Ports
    /\ LET p == CHOOSE p \in Ports \ live : TRUE IN Register(p, d) /\ Link(p)
    /\ UNCHANGED <<tty, curr_port, poll, ending, faults, history>>

(* atexit() or malloc() fails, before there is a port.                     *)
OpenFails ==
    /\ pc = "app" /\ faults < MaxFaults /\ faults' = faults + 1
    /\ first_run' = FALSE /\ error
    /\ UNCHANGED <<list, tty, port, name, curr_port, poll, history>>

aside == <<port, name, curr_port, poll, first_run, ending, faults>>

(* realpath()                                                              *)
Resolve ==
    /\ pc = "resolve" /\ pc' = "open"
    /\ UNCHANGED <<list, tty, aside, history>>

(* open(), whose failure leaves -1 in the descriptor.  Nothing keeps a     *)
(* device from being opened again while another port has it.               *)
OpenDevice ==
    /\ pc = "open"
    /\ \/ /\ pc' = "getattr" /\ fd' = [fd EXCEPT ![port] = name]
          /\ opened' = opened \cup {port}
          /\ spoilt' = spoilt \cup {d \in {name} : \E p \in live : fd[p] = d}
          /\ UNCHANGED <<ending, faults, broken, half_open>>
       \/ /\ faults < MaxFaults /\ faults' = faults + 1 /\ error
          /\ fd' = [fd EXCEPT ![port] = None]
          /\ broken' = broken \cup {port} /\ half_open' = half_open \cup {port}
          /\ UNCHANGED <<opened, spoilt>>
    /\ UNCHANGED <<live, old_tio, old_serial, next, prev, port_list_head,
                   changed, pending, port, name, curr_port, poll, first_run>>

Change(d, what) == changed' = [changed EXCEPT ![d] = @ \cup what]

(* What a port keeps of a setting as the device has it now.                *)
Saved(what) == IF what \in changed[name] THEN "changed" ELSE "found"

(* tcgetattr()                                                             *)
GetAttr ==
    /\ pc = "getattr" /\ pc' = "getserial"
    /\ old_tio' = [old_tio EXCEPT ![port] = Saved("tio")]
    /\ UNCHANGED <<live, fd, old_serial, next, prev, port_list_head, tty, aside,
                   history>>

(* TIOCGSERIAL, and TIOCSSERIAL unless the device does not support it.     *)
GetSerial ==
    /\ pc = "getserial" /\ pc' = "rs485"
    /\ old_serial' = [old_serial EXCEPT ![port] = Saved("serial")]
    /\ Change(name, IF name \in LowLatency THEN {"serial"} ELSE {})
    /\ UNCHANGED <<live, fd, old_tio, next, prev, port_list_head, opened, pending,
                   aside, history>>

(* TIOCSRS485, unless the device is a USB converter or does not support it. *)
SetRs485 ==
    /\ pc = "rs485" /\ pc' = "setattr"
    /\ Change(name, IF name \in Rs485 THEN {"rs485"} ELSE {})
    /\ UNCHANGED <<list, opened, pending, aside, history>>

(* The mode that is asked for, if it is supported, and tcsetattr().        *)
SetAttr ==
    /\ pc = "setattr" /\ pc' = "flush"
    /\ Change(name, {"tio"})
    /\ UNCHANGED <<list, opened, pending, aside, history>>

(* tcflush(), and the return.                                              *)
Flush ==
    /\ pc = "flush" /\ pc' = "app" /\ port' = NULL /\ name' = None
    /\ pending' = [pending EXCEPT ![name] = 0]
    /\ UNCHANGED <<list, opened, changed, curr_port, poll, first_run, ending, faults,
                   history>>

(* The application writes to a port; a device sends what it was given.     *)
Write(d) ==
    /\ pc = "app" /\ pending[d] < MaxPending /\ \E p \in opened : fd[p] = d
    /\ pending' = [pending EXCEPT ![d] = @ + 1]
    /\ UNCHANGED <<list, opened, changed, pc, aside, history>>

Drain(d) ==
    /\ pc \in {"app", "restore"} /\ d \notin Held /\ pending[d] > 0
    /\ pending' = [pending EXCEPT ![d] = @ - 1]
    /\ UNCHANGED <<list, opened, changed, pc, aside, history>>

------------------------------------------------------------------------------
(* uart_close.                                                             *)

CallClose(p) ==
    /\ pc = "app" /\ p \in live /\ Close(p)
    /\ UNCHANGED <<list, tty, name, curr_port, first_run, ending, faults, history>>

(* The poll() of uart_close asks for no event, so it ends with its timeout. *)
Tick ==
    /\ pc = "poll" /\ waited < CLOSE_TIMEOUT /\ waited' = waited + 1
    /\ pending' = [d \in Devices |-> IF d \in Held \/ pending[d] = 0
                                     THEN pending[d] ELSE pending[d] - 1]
    /\ UNCHANGED <<list, opened, changed, pc, port, name, curr_port, queued,
                   first_run, ending, faults, history>>

(* Mutant: the timeout is in microseconds.                                 *)
PollEndsAtOnce ==
    /\ pc = "poll" /\ pc' = "discard"
    /\ UNCHANGED <<list, tty, aside, history>>

(* Mutant: the poll() has no timeout.                                      *)
PollUntilWritten ==
    /\ pc = "poll" /\ pc' = "discard"
    /\ fd[port] \in Devices => pending[fd[port]] = 0
    /\ UNCHANGED <<list, tty, aside, history>>

PollTimeout ==
    /\ pc = "poll" /\ waited = CLOSE_TIMEOUT /\ pc' = "discard"
    /\ UNCHANGED <<list, tty, aside, history>>

(* What tcgetattr() may refuse: a descriptor of no open device (-1, one     *)
(* closed already, the standard input unless it is a terminal), or a        *)
(* device it refused before.                                                *)
Doubtful == port \notin opened \/ old_tio[port] = "zero"

(* tcgetattr(), tcsetattr() without flow control, tcflush().               *)
Discard ==
    /\ pc = "discard"
    /\ \/ /\ port \in opened \/ fd[port] = Stdin
          /\ pc' = "restore"
          /\ pending' = [d \in Devices |-> IF d = fd[port] THEN 0 ELSE pending[d]]
          /\ UNCHANGED <<list, opened, changed, aside, history>>
       \/ Doubtful /\ Broken /\ UNCHANGED faults

(* tcsetattr() with old_tio, zeros or not; TCSADRAIN waits for the output. *)
(* What another port of the device changed before counts as old.           *)
Restore ==
    /\ pc = "restore" /\ pc' = "serial"
    /\ fd[port] \in Devices => pending[fd[port]] = 0
    /\ IF old_tio[port] = "found"
         THEN changed' = [changed EXCEPT ![fd[port]] = @ \ {"tio"}]
         ELSE Change(fd[port], {"tio"})
    /\ UNCHANGED <<list, opened, pending, aside, history>>

(* TIOCSSERIAL with old_serial; zeros are refused, or change things.       *)
RestoreSerial ==
    /\ pc = "serial"
    /\ \/ /\ pc' = "close"
          /\ IF old_serial[port] = "found"
               THEN changed' = [changed EXCEPT ![fd[port]] = @ \ {"serial"}]
               ELSE Change(fd[port], {"serial"})
          /\ UNCHANGED <<list, opened, pending, aside, history>>
       \/ old_serial[port] = "zero" /\ Broken /\ UNCHANGED faults

(* Either call is refused as not supported (ENOTSUP), which is ignored.    *)
RestoreRefused ==
    /\ pc \in {"restore", "serial"} /\ faults < MaxFaults /\ faults' = faults + 1
    /\ pc' = IF pc = "restore" THEN "serial" ELSE "close"
    /\ spoilt' = spoilt \cup ({fd[port]} \cap Devices)
    /\ UNCHANGED <<list, tty, port, name, curr_port, poll, first_run, ending, broken,
                   half_open>>

(* Mutant: the descriptor is not closed.                                   *)
CloseNothing ==
    /\ pc = "close" /\ pc' = "unlink"
    /\ UNCHANGED <<list, tty, aside, history>>

(* close(), which frees the descriptor even when it fails.                 *)
CloseDevice ==
    /\ pc = "close" /\ opened' = opened \ {port}
    /\ \/ pc' = "unlink" /\ UNCHANGED <<ending, faults, history>>
       \/ /\ faults < MaxFaults /\ faults' = faults + 1
          /\ error /\ broken' = broken \cup {port, fd[port]}
          /\ UNCHANGED <<half_open, spoilt>>
    /\ UNCHANGED <<list, changed, pending, port, name, curr_port, poll,
                   first_run>>

(* Mutant: the successor keeps its link to the freed port.                 *)
UnlinkForward ==
    /\ next' = [q \in Ports |-> IF q = prev[port] THEN next[port] ELSE next[q]]
    /\ UNCHANGED prev

(* The neighbours' links.                                                  *)
UnlinkNeighbours ==
    /\ next' = [q \in Ports |-> IF q = prev[port] THEN next[port]
                                ELSE IF q = port THEN NULL ELSE next[q]]
    /\ prev' = [q \in Ports |-> IF q = next[port] THEN prev[port]
                                ELSE IF q = port THEN NULL ELSE prev[q]]

(* The port leaves the list and is freed; uart_close returns.              *)
Unlink ==
    /\ pc = "unlink" /\ pc' = IF cleaning THEN "cleanup" ELSE "app"
    /\ port' = NULL /\ waited' = 0 /\ queued' = 0
    /\ UnlinkNeighbours
    /\ port_list_head' = IF port = port_list_head THEN next[port]
                                                  ELSE port_list_head
    /\ live' = live \ {port}
    /\ fd' = [fd EXCEPT ![port] = Stdin]
    /\ old_tio' = [old_tio EXCEPT ![port] = "zero"]
    /\ old_serial' = [old_serial EXCEPT ![port] = "zero"]
    /\ UNCHANGED <<tty, name, curr_port, first_run, ending, faults, history>>

(* A system call of one of the other stages fails.                         *)
StageFails ==
    /\ pc \in (OpenStages \cup CloseStages) \ {"open", "close", "unlink"}
    /\ Fault

------------------------------------------------------------------------------
(* What the program does by itself once the application called it.         *)
Step ==
    \/ Resolve \/ OpenDevice \/ GetAttr \/ GetSerial \/ SetRs485 \/ SetAttr
    \/ Flush \/ Tick \/ PollTimeout \/ Discard \/ Restore \/ RestoreSerial
    \/ RestoreRefused \/ CloseDevice \/ Unlink \/ StageFails
    \/ Handler \/ Exit \/ uart_cleanup

Next ==
    \/ \E p \in Ports : CallClose(p)
    \/ \E d \in Devices : uart_open(d) \/ Write(d) \/ Drain(d)
    \/ OpenFails \/ AppEnds \/ Step

Spec == Init /\ [][Next]_vars

FairSpec == Spec /\ WF_vars(Step)

------------------------------------------------------------------------------

TypeOK ==
    /\ live \subseteq Ports /\ fd \in [Ports -> Devices \cup {Stdin, None}]
    /\ {old_tio, old_serial} \subseteq [Ports -> {"zero", "found", "changed"}]
    /\ next \in [Ports -> Ports \cup {NULL}] /\ prev \in [Ports -> Ports \cup {NULL}]
    /\ {port_list_head, port, curr_port} \subseteq Ports \cup {NULL}
    /\ opened \subseteq Ports
    /\ changed \in [Devices \cup {Stdin} -> SUBSET {"tio", "serial", "rs485"}]
    /\ pending \in [Devices -> 0..MaxPending] /\ queued \in 0..MaxPending
    /\ pc \in Pcs /\ name \in Devices \cup {None} /\ waited \in 0..CLOSE_TIMEOUT
    /\ {first_run, cleaning, error_called, fatal_error_called} \subseteq BOOLEAN
    /\ faults \in 0..MaxFaults /\ half_open \subseteq Ports
    /\ broken \subseteq Ports \cup Devices \cup {Stdin, None}
    /\ spoilt \subseteq Devices

(* The ports ahead of p on the list, as prev links them: those in every    *)
(* set that holds the predecessor of p and those of its own members.       *)
Closed(S) == \A q \in S : prev[q] \in S \cup {NULL}
Ahead(p) == {q \in Ports : \A S \in SUBSET Ports :
                              Closed(S) /\ prev[p] \in S \cup {NULL} => q \in S}

(* The links agree in both directions, the first port is at the head, and  *)
(* every port that was allocated and not freed is on the list, once: the   *)
(* cleanup at exit visits each, and never one that was freed.              *)
ListSound ==
    /\ \A p \in live : /\ {next[p], prev[p]} \subseteq live \cup {NULL}
                       /\ next[p] # NULL => prev[next[p]] = p
                       /\ prev[p] # NULL => next[prev[p]] = p
                       /\ prev[p] = NULL <=> p = port_list_head
                       /\ p \notin Ahead(p)
    /\ port_list_head = NULL <=> live = {}
    /\ pc = "cleanup" => curr_port = port_list_head

(* uart_cleanup leaves the terminal and serial settings of every device as *)
(* uart_open found them, whatever ends the program, except those of a port *)
(* on which a call failed, or whose predecessor could not be closed, and   *)
(* of a device that refused them or was opened twice at once.  A port that *)
(* could not be opened stands in nobody's way.                             *)
LeftAsFound ==
    pc = "gone" =>
       \A d \in Devices : changed[d] \cap {"tio", "serial"} # {} =>
          \/ d \in broken \cup spoilt
          \/ \E p \in live : fd[p] = d /\ (broken \ half_open) \cap Ahead(p) # {}

(* While the program runs, the open descriptors are those of ports on the  *)
(* list: none leaks, and none is closed twice unless close() itself        *)
(* failed.                                                                 *)
DescriptorsListed ==
    pc \notin {"unlink", "gone"} =>
       /\ opened \subseteq live
       /\ \A p \in live \ broken : p \in opened \/ fd[p] = Stdin

(* uart_close throws output away only if it does not fit the timeout or if *)
(* flow control holds it back.                                             *)
KeepsWhatFits ==
    pc = "discard" /\ fd[port] \in Devices \ Held =>
       pending[fd[port]] <= queued - CLOSE_TIMEOUT \/ pending[fd[port]] = 0

(* Every call returns or the program ends, and an error ends it, whatever  *)
(* the handlers do and whatever the cleanup meets.                         *)
CallsEnd ==
    /\ pc \in OpenStages \cup CloseStages ~> pc \in {"app", "gone"}
    /\ error_called ~> pc = "gone"

(* "wait for writes to finish or for a timeout" (uart_host.c:317): output  *)
(* is thrown away only when some was left.                                 *)
TimeoutMeansPending ==
    pc = "discard" /\ fd[port] \in Devices => pending[fd[port]] > 0

(* "restore settings to state when the program was open"                   *)
(* (uart_host.c:347), of every device that was closed.                     *)
EverythingRestored ==
    pc = "app" => \A d \in Devices : changed[d] # {} => \E p \in live : fd[p] = d

(* The same, of the terminal settings only.                                *)
TerminalRestored ==
    pc = "app" =>
       \A d \in Devices : "tio" \in changed[d] => \E p \in live : fd[p] = d

(* "run at exit to close all the uart ports" (uart_host.c:46): no          *)
(* other device or file is touched.                                        *)
OnlyOwnDevices == changed[Stdin] = {}
==============================================================================
