------------------------------- MODULE Driver -------------------------------
(***************************************************************************)
(* gpgpu_drv.c at run time: processes that open the device node and        *)
(* dispatch kernels with ioctl, the interrupt handler that wakes them, and *)
(* the device, all interleaved with probe and remove.                      *)
(*                                                                         *)
(* ioctl takes no lock: its steps on the registers and on kernel_done are  *)
(* separate actions.  The device is not part of this repository; it is     *)
(* modelled by what the driver sees of it (README.md:246-277): a write to  *)
(* DISPATCH runs the kernel named by the registers and (re)arms one        *)
(* completion timer, whose expiry pulses the interrupt line.               *)
(***************************************************************************)
EXTENDS Probe

CONSTANTS
    Proc,          \* processes (or threads) using the device
    NumRegs,       \* launch registers written before DISPATCH (11 in the code)
    MaxCalls,      \* bound: ioctl calls of a process
    Signals,       \* processes may be interrupted by signals
    SharedLine,    \* another device raises the shared INTx line
    EarlyOpen      \* the node may be opened while probe is still running

ASSUME DriverConstants ==
    /\ NumRegs \in Nat \ {0} /\ MaxCalls \in Nat
    /\ {Signals, SharedLine, EarlyOpen} \subseteq BOOLEAN

VARIABLES
    files,         \* processes with the node open
    pc,            \* where each process is in gpgpu_ioctl
    calls,         \* ioctl calls each process has made
    kernel_done,   \* gpu_dev->kernel_done
    regs,          \* launch registers: index |-> process whose value it holds
    timer,         \* the device's completion timer is armed
    line,          \* an interrupt is pending at the CPU
    awaited,       \* processes whose launch the timer stands for
    completed,     \* processes whose last launch was reported complete (history)
    disturbed      \* processes whose last call did not have the device to
                   \* itself (history)

ioctlVars == <<files, pc, calls, kernel_done, regs, timer, line, awaited,
               completed, disturbed>>
vars == <<probeVars, ioctlVars>>

\* Values of pc: 1 .. NumRegs are the register writes.
User     == 0
Dispatch == NumRegs + 1
Check    == NumRegs + 2   \* about to evaluate the wait condition
Asleep   == NumRegs + 3   \* on the wait queue

Goto(p, l) == pc' = [pc EXCEPT ![p] = l]

InCall == {p \in Proc : pc[p] # User}

\* p enters: it has the device to itself if nobody else is in a call and no
\* launch or interrupt of an earlier call is pending.
Joined(p) ==
    (disturbed \ {p}) \cup InCall
    \cup (IF InCall = {} /\ ~timer /\ ~line THEN {} ELSE {p})
-----------------------------------------------------------------------------
Init ==
    /\ ProbeInit
    /\ files = {} /\ pc = [p \in Proc |-> User] /\ calls = [p \in Proc |-> 0]
    /\ kernel_done = 0 /\ regs = [i \in 1 .. NumRegs |-> "unset"]
    /\ timer = FALSE /\ line = FALSE
    /\ awaited = {} /\ completed = {} /\ disturbed = {}

\* The path exists from device_create on.
open(p) ==
    /\ "device" \in held /\ p \notin files
    /\ stage = "bound" \/ (EarlyOpen /\ stage = "probing")
    /\ files' = files \cup {p}
    /\ UNCHANGED <<probeVars, pc, calls, kernel_done, regs, timer, line,
                   awaited, completed, disturbed>>

release(p) ==
    /\ p \in files /\ pc[p] = User
    /\ files' = files \ {p}
    /\ UNCHANGED <<probeVars, pc, calls, kernel_done, regs, timer, line,
                   awaited, completed, disturbed>>

\* Fault: kernel_done is left from the launch before.
ioctl_enter_NoReset(p) ==
    /\ p \in files /\ pc[p] = User /\ calls[p] < MaxCalls
    /\ calls' = [calls EXCEPT ![p] = @ + 1]
    /\ completed' = completed \ {p} /\ disturbed' = Joined(p)
    /\ Goto(p, 1)
    /\ UNCHANGED <<probeVars, files, kernel_done, regs, timer, line, awaited>>

\* copy_from_user succeeded; kernel_done = 0.  (Its failure and an unknown cmd
\* return before anything is changed.)
ioctl_enter(p) ==
    /\ p \in files /\ pc[p] = User /\ calls[p] < MaxCalls
    /\ calls' = [calls EXCEPT ![p] = @ + 1]
    /\ kernel_done' = 0
    /\ completed' = completed \ {p} /\ disturbed' = Joined(p)
    /\ Goto(p, 1)
    /\ UNCHANGED <<probeVars, files, regs, timer, line, awaited>>

\* Fault: the last register is not written.
ioctl_write_Short(p) ==
    /\ pc[p] \in 1 .. NumRegs
    /\ regs' = IF pc[p] < NumRegs THEN [regs EXCEPT ![pc[p]] = p] ELSE regs
    /\ Goto(p, pc[p] + 1)
    /\ UNCHANGED <<probeVars, files, calls, kernel_done, timer, line, awaited,
                   completed, disturbed>>

ioctl_write(p) ==
    /\ pc[p] \in 1 .. NumRegs
    /\ regs' = [regs EXCEPT ![pc[p]] = p]
    /\ Goto(p, pc[p] + 1)
    /\ UNCHANGED <<probeVars, files, calls, kernel_done, timer, line, awaited,
                   completed, disturbed>>

\* iowrite32(1, DISPATCH), with what the device does on that write.
ioctl_dispatch(p) ==
    /\ pc[p] = Dispatch
    /\ timer' = TRUE /\ awaited' = awaited \cup {p}
    /\ Goto(p, Check)
    /\ UNCHANGED <<probeVars, files, calls, kernel_done, regs, line,
                   completed, disturbed>>

\* wait_event_interruptible: return when the condition holds, else sleep.  The
\* test and the enqueueing are one step: wake_up takes the queue's lock.
ioctl_check(p) ==
    /\ pc[p] = Check
    /\ Goto(p, IF kernel_done # 0 THEN User ELSE Asleep)
    /\ UNCHANGED <<probeVars, files, calls, kernel_done, regs, timer, line,
                   awaited, completed, disturbed>>

\* A signal ends the wait with -ERESTARTSYS, which gpgpu_ioctl drops.
ioctl_signal(p) ==
    /\ Signals /\ pc[p] = Asleep
    /\ Goto(p, User) /\ disturbed' = disturbed \cup {p}
    /\ UNCHANGED <<probeVars, files, calls, kernel_done, regs, timer, line,
                   awaited, completed>>

\* The timer expires: the device reports completion and pulses the line.  With
\* interrupts disabled or no handler registered the pulse goes nowhere.
device_complete ==
    /\ timer
    /\ timer' = FALSE /\ awaited' = {}
    /\ completed' = completed \cup awaited
    /\ line' = (line \/ (irq_enable /\ "irq" \in held))
    /\ UNCHANGED <<probeVars, files, pc, calls, kernel_done, regs, disturbed>>

other_device_irq ==
    /\ SharedLine /\ "irq" \in held /\ ~line
    /\ line' = TRUE /\ disturbed' = disturbed \cup InCall
    /\ UNCHANGED <<probeVars, files, pc, calls, kernel_done, regs, timer,
                   awaited, completed>>

\* Fault: the handler sets the flag and wakes nobody.
irq_kernel_handler_NoWake ==
    /\ line /\ "irq" \in held
    /\ line' = FALSE
    /\ kernel_done' = 1
    /\ UNCHANGED <<probeVars, files, pc, calls, regs, timer, awaited,
                   completed, disturbed>>

\* Fault: the interrupt stays asserted and the flag is never set.
irq_kernel_handler_Storm ==
    /\ line /\ "irq" \in held
    /\ pc' = [p \in Proc |-> IF pc[p] = Asleep THEN Check ELSE pc[p]]
    /\ UNCHANGED <<probeVars, files, calls, kernel_done, regs, timer, line,
                   awaited, completed, disturbed>>

\* Fault: the interrupt stays asserted, and the flag counts it.
irq_kernel_handler_Counts ==
    /\ line /\ "irq" \in held
    /\ kernel_done' = kernel_done + 1
    /\ pc' = [p \in Proc |-> IF pc[p] = Asleep THEN Check ELSE pc[p]]
    /\ UNCHANGED <<probeVars, files, calls, regs, timer, line, awaited,
                   completed, disturbed>>

\* kernel_done = 1; wake_up_interruptible.
irq_kernel_handler ==
    /\ line /\ "irq" \in held
    /\ line' = FALSE
    /\ kernel_done' = 1
    /\ pc' = [p \in Proc |-> IF pc[p] = Asleep THEN Check ELSE pc[p]]
    /\ UNCHANGED <<probeVars, files, calls, regs, timer, awaited, completed,
                   disturbed>>

\* Fault: no .owner, so that the module goes while a file is open.
lifecycle_NoOwner ==
    /\ ProbeNext
    /\ line' = (line /\ "irq" \in held')
    /\ kernel_done' = IF probe_start THEN 0 ELSE kernel_done
    /\ UNCHANGED <<files, pc, calls, regs, timer, awaited, completed,
                   disturbed>>

\* .owner = THIS_MODULE: the module stays while a file is open.  free_irq waits
\* for a running handler and no interrupt reaches the driver after it; probing
\* again starts with a fresh gpu_dev.
lifecycle ==
    /\ ProbeNext
    /\ remove_start => files = {}
    /\ line' = (line /\ "irq" \in held')
    /\ kernel_done' = IF probe_start THEN 0 ELSE kernel_done
    /\ UNCHANGED <<files, pc, calls, regs, timer, awaited, completed,
                   disturbed>>

ioctl(p) ==
    \/ ioctl_enter(p) \/ ioctl_write(p) \/ ioctl_dispatch(p)
    \/ ioctl_check(p) \/ ioctl_signal(p)

Next ==
    \/ lifecycle
    \/ \E p \in Proc : open(p) \/ release(p) \/ ioctl(p)
    \/ device_complete \/ other_device_irq \/ irq_kernel_handler

\* A process inside the kernel keeps running, probe and remove once started
\* go on, an armed timer expires and a pending interrupt is taken.  Nothing
\* obliges a process to make a call, nor the PCI core to probe or remove.
Fairness ==
    /\ \A p \in Proc : WF_vars(ioctl_write(p) \/ ioctl_dispatch(p)
                               \/ ioctl_check(p))
    /\ WF_vars(lifecycle /\ stage \in {"probing", "unwinding", "removing"})
    /\ WF_vars(device_complete) /\ WF_vars(irq_kernel_handler)

Spec == Init /\ [][Next]_vars /\ Fairness
-----------------------------------------------------------------------------
\* Every variable has its type; kernel_done is a flag.
TypeOK ==
    /\ ProbeTypeOK
    /\ files \subseteq Proc
    /\ pc \in [Proc -> 0 .. Asleep]
    /\ calls \in [Proc -> 0 .. MaxCalls]
    /\ kernel_done \in {0, 1}
    /\ regs \in [1 .. NumRegs -> Proc \cup {"unset"}]
    /\ {timer, line} \subseteq BOOLEAN
    /\ awaited \subseteq Proc /\ completed \subseteq Proc /\ disturbed \subseteq Proc

\* A launch runs with the registers its own ioctl wrote, all of them
\* (README.md:159-172).
LaunchIntact ==
    \A p \in Proc : pc[p] = Dispatch => \A i \in 1 .. NumRegs : regs[i] = p

\* README.md:179: the completion interrupt ends the wait, "于是 ioctl 返回": a call
\* that got as far as the launch returns only when the device has reported
\* that launch complete.
ReturnsAfterCompletion ==
    [][\A p \in Proc : pc[p] \in {Check, Asleep} /\ pc'[p] = User =>
           p \in completed]_vars

\* What LaunchIntact and ReturnsAfterCompletion become with several callers,
\* signals and a shared line: they hold of a call that overlaps no other, is
\* not signalled, sees no foreign interrupt and starts after everything
\* earlier calls left behind in the device has come in; no state that an
\* earlier call, a removal or a failed probe left in the driver spoils it.
QuietLaunchIntact ==
    \A p \in Proc \ disturbed :
        pc[p] = Dispatch => \A i \in 1 .. NumRegs : regs[i] = p

\* See QuietLaunchIntact: such a call returns after its own completion.
QuietReturnsAfterCompletion ==
    [][\A p \in Proc \ disturbed' :
           pc[p] \in {Check, Asleep} /\ pc'[p] = User => p \in completed]_vars

\* A process inside gpgpu_ioctl has the node open, and the state it works on
\* exists: gpu_dev, the registers and the handler it waits for.
DeviceOutlivesCalls ==
    \A p \in Proc : pc[p] # User =>
        p \in files /\ {"mem", "ctrl", "irq"} \subseteq held

\* No completion is lost: a sleeper's wake-up is on its way.
WakeUpComing ==
    \A p \in Proc : pc[p] = Asleep =>
        \/ timer \/ line
        \/ \E q \in Proc : pc[q] \in 1 .. Dispatch

\* Every gpgpu_ioctl returns: each launch completes, its interrupt wakes the
\* wait queue, and a caller that finds kernel_done reset by another one is
\* woken by that one's completion.
IoctlReturns == \A p \in Proc : pc[p] # User ~> pc[p] = User
=============================================================================
