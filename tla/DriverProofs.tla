---------------------------- MODULE DriverProofs ----------------------------
(***************************************************************************)
(* What Driver promises to any number of processes, with any number of     *)
(* registers and calls, with signals and a shared interrupt line: for a    *)
(* probe whose failures set ret and a node that is opened once the probe   *)
(* is over (Sound).  The runs driver_iomap and driver_early_open show what *)
(* happens without the one or the other.                                   *)
(***************************************************************************)
EXTENDS Driver, TLAPS

\* The code's two other paths: a failed pci_iomap, and an early open.
Sound == ~EarlyOpen /\ MayFail \cap {"ctrl", "vram", "doorbell"} = {}

TypeInv ==
    /\ pc \in [Proc -> 0 .. Asleep]
    /\ regs \in [1 .. NumRegs -> Proc \cup {"unset"}]

\* A probe that goes on has acquired what is behind it, a failed one knows
\* that it failed, and a bound device has everything, interrupts included.
ProbeInv ==
    /\ stage = "probing" =>
           step \in Nat /\ \A i \in DOMAIN Acquire : i < step => Acquire[i] \in held
    /\ stage = "probing" /\ step = 1 => ret = "err"
    /\ stage = "unwinding" => ret = "err"
    /\ stage = "bound" => Resources \subseteq held /\ irq_enable = TRUE

\* Files are open only on a bound device, and calls are made on open files.
FileInv ==
    /\ files # {} => stage = "bound"
    /\ \A p \in Proc : pc[p] # User => p \in files

\* A launch that will wake the sleepers is under way.
Coming == timer = TRUE \/ line = TRUE \/ \E q \in Proc : pc[q] \in 1 .. Dispatch

\* A process that waits, or is about to, finds kernel_done set or is woken;
\* nobody stays asleep when it is set.
WakeInv ==
    /\ \A p \in Proc : pc[p] \in {Check, Asleep} => kernel_done # 0 \/ Coming
    /\ \A p \in Proc : pc[p] = Asleep => kernel_done = 0

\* A call that has the device to itself: nobody else is in a call; nothing is
\* pending before its launch, and its registers are its own as far as they are
\* written; after the launch every sign of completion is its own.
Alone(p) == \A q \in Proc : q # p => pc[q] = User
Unlaunched(p) ==
    pc[p] \in 1 .. Dispatch => timer = FALSE /\ line = FALSE /\ kernel_done = 0
Written(p) ==
    pc[p] \in 1 .. Dispatch => \A i \in 1 .. NumRegs : i < pc[p] => regs[i] = p
OwnSigns(p) ==
    pc[p] \in {Check, Asleep} =>
        /\ kernel_done # 0 => p \in completed
        /\ line = TRUE => p \in completed
        /\ timer = TRUE => p \in awaited

QuietInv ==
    \A p \in Proc : p \notin disturbed /\ pc[p] # User =>
        Alone(p) /\ Unlaunched(p) /\ Written(p) /\ OwnSigns(p)

BoolInv == timer \in BOOLEAN /\ line \in BOOLEAN

DriverInv == TypeInv /\ BoolInv /\ ProbeInv /\ FileInv /\ WakeInv /\ QuietInv

\* The places of gpgpu_ioctl are different numbers.
LEMMA Places ==
    /\ NumRegs \in Nat /\ NumRegs >= 1 /\ User = 0
    /\ Dispatch = NumRegs + 1 /\ Check = NumRegs + 2 /\ Asleep = NumRegs + 3
BY DriverConstants DEF User, Dispatch, Check, Asleep

\* The resources that calls use are among those probe acquires.
LEMMA Used ==
    {"mem", "ctrl", "irq", "device"} \subseteq Resources /\ Len(Acquire) = 12
    /\ DOMAIN Acquire = 1 .. 12 /\ Resources = {Acquire[i] : i \in 1 .. 12}
BY DEF Resources, Acquire, Range

\* A file that is open keeps the device bound and everything held.
LEMMA OpenIsBound ==
    ASSUME DriverInv, NEW p \in Proc, pc[p] # User
    PROVE  files # {} /\ stage = "bound" /\ p \in files
           /\ irq_enable = TRUE /\ "irq" \in held /\ "mem" \in held /\ "ctrl" \in held
BY Used DEF DriverInv, FileInv, ProbeInv

\* Before the first probe the invariant holds.
LEMMA InitHolds == Init => DriverInv
<1>. SUFFICES ASSUME Init PROVE DriverInv
  OBVIOUS
<1>1. TypeInv
  BY Places DEF Init, ProbeInit, TypeInv
<1>0. BoolInv
  BY DEF Init, BoolInv
<1>2. ProbeInv
  BY DEF Init, ProbeInit, ProbeInv
<1>3. \A p \in Proc : pc[p] = User
  BY DEF Init
<1>4. FileInv /\ WakeInv /\ QuietInv
  BY <1>3, Places DEF Init, FileInv, WakeInv, QuietInv
<1>. QED  BY <1>0, <1>1, <1>2, <1>4 DEF DriverInv

\* Probe and remove run only when no file is open, hence during no call.
LEMMA LifecycleAlone ==
    ASSUME DriverInv, lifecycle
    PROVE  files = {} /\ \A p \in Proc : pc[p] = User
<1>1. files # {} => stage = "bound"
  BY DEF DriverInv, FileInv
<1>2. stage = "bound" => remove_start
  BY DEF lifecycle, ProbeNext, probe_start, probe_acquire, probe_fail, probe_done,
         probe_unwind, remove_release
<1>3. files = {}
  BY <1>1, <1>2 DEF lifecycle
<1>. QED  BY <1>3 DEF DriverInv, FileInv

\* Every step of probe and remove keeps ProbeInv: a probe arrives at its end
\* only with everything acquired, and a failed one does not return 0.
LEMMA LifecycleProbe ==
    ASSUME Sound, ProbeInv, ProbeNext
    PROVE  ProbeInv'
<1>1. CASE probe_start
  BY <1>1, Used DEF probe_start, ProbeInv
<1>2. CASE probe_acquire
  <2>1. step' = step + 1 /\ step \in Nat /\ stage' = "probing" /\ step \in 1 .. 12
    BY <1>2, Used DEF probe_acquire, ProbeInv
  <2>2. \A i \in DOMAIN Acquire : i < step' => Acquire[i] \in held'
    BY <1>2, <2>1, Used DEF probe_acquire, ProbeInv
  <2>. QED  BY <2>1, <2>2 DEF ProbeInv
<1>3. CASE probe_fail
  <2>1. step \in 1 .. 12 /\ Acquire[step] \in MayFail
    BY <1>3, Used DEF probe_fail
  <2>2. Acquire[step] = "mem" => step = 1
    BY <2>1 DEF Acquire
  <2>3. ret' = "err"
    BY <1>3, <2>1, <2>2 DEF probe_fail, RetAfterFailed, ProbeInv, Sound
  <2>. QED  BY <1>3, <2>3 DEF probe_fail, ProbeInv
<1>4. CASE probe_done
  <2>1. \A i \in 1 .. 12 : Acquire[i] \in held
    BY <1>4, Used DEF probe_done, ProbeInv
  <2>. QED  BY <1>4, <2>1, Used DEF probe_done, ProbeInv
<1>5. CASE probe_unwind
  BY <1>5 DEF probe_unwind, ProbeInv
<1>6. CASE remove_start
  BY <1>6 DEF remove_start, ProbeInv
<1>7. CASE remove_release
  BY <1>7 DEF remove_release, ProbeInv
<1>. QED  BY <1>1, <1>2, <1>3, <1>4, <1>5, <1>6, <1>7 DEF ProbeNext

\* Probe and remove preserve the invariant.
LEMMA LifecycleStep ==
    ASSUME Sound, DriverInv, lifecycle
    PROVE  DriverInv'
<1>1. files = {} /\ \A p \in Proc : pc[p] = User
  BY LifecycleAlone
<1>2. files' = files /\ pc' = pc /\ regs' = regs /\ timer' = timer
  BY DEF lifecycle
<1>3. ProbeInv'
  BY LifecycleProbe DEF DriverInv, lifecycle
<1>4. TypeInv'
  BY <1>2 DEF DriverInv, TypeInv
<1>5. BoolInv'
  BY <1>2 DEF DriverInv, BoolInv, lifecycle
<1>6. FileInv' /\ WakeInv' /\ QuietInv'
  BY <1>1, <1>2, Places DEF FileInv, WakeInv, QuietInv
<1>. QED  BY <1>3, <1>4, <1>5, <1>6 DEF DriverInv

\* open and release change only files; a caller has its file open until it
\* has returned.
LEMMA FileStep ==
    ASSUME Sound, DriverInv, NEW p \in Proc, open(p) \/ release(p)
    PROVE  DriverInv'
<1>1. /\ UNCHANGED <<stage, step, held, ret, irq_enable>>
      /\ UNCHANGED <<pc, kernel_done, regs, timer, line, awaited, completed, disturbed>>
  BY DEF open, release, probeVars
<1>2. TypeInv' /\ BoolInv' /\ ProbeInv' /\ WakeInv' /\ QuietInv'
  BY <1>1 DEF DriverInv, TypeInv, BoolInv, ProbeInv, WakeInv, Coming, QuietInv, Alone,
         Unlaunched, Written, OwnSigns
<1>3. FileInv'
  BY <1>1 DEF DriverInv, FileInv, open, release, Sound
<1>. QED  BY <1>2, <1>3 DEF DriverInv

\* The conjuncts of the invariant that an ioctl, the device or the handler
\* leaves as they are.
LEMMA CallKeeps ==
    ASSUME DriverInv, UNCHANGED <<probeVars, files>>,
           \A p \in Proc : pc'[p] # User => p \in files
    PROVE  ProbeInv' /\ FileInv'
<1>1. UNCHANGED <<stage, step, held, ret, irq_enable, files>>
  BY DEF probeVars
<1>2. ProbeInv'
  BY <1>1 DEF DriverInv, ProbeInv
<1>3. FileInv'
  BY <1>1 DEF DriverInv, FileInv
<1>. QED  BY <1>2, <1>3

\* ioctl_enter: whoever waits is woken by the launch that begins here.
LEMMA EnterStep ==
    ASSUME DriverInv, NEW p \in Proc, ioctl_enter(p)
    PROVE  DriverInv'
<1>1. /\ p \in files /\ pc[p] = User /\ pc' = [pc EXCEPT ![p] = 1]
      /\ kernel_done' = 0 /\ completed' = completed \ {p} /\ disturbed' = Joined(p)
      /\ UNCHANGED <<probeVars, files, regs, timer, line, awaited>>
  BY DEF ioctl_enter, Goto
<1>2. pc \in [Proc -> 0 .. Asleep] /\ pc'[p] = 1 /\ \A q \in Proc : q # p => pc'[q] = pc[q]
  BY <1>1 DEF DriverInv, TypeInv
<1>3. TypeInv'
  BY <1>1, <1>2, Places DEF DriverInv, TypeInv
<1>4. BoolInv'
  BY <1>1 DEF DriverInv, BoolInv
<1>5. ProbeInv' /\ FileInv'
  BY <1>1, <1>2, CallKeeps DEF DriverInv, FileInv
<1>6. WakeInv'
  <2>1. pc'[p] \in 1 .. Dispatch
    BY <1>2, Places
  <2>2. Coming'
    BY <2>1 DEF Coming
  <2>. QED  BY <1>1, <2>2 DEF WakeInv
<1>7. QuietInv'
  <2>. SUFFICES ASSUME NEW r \in Proc, r \notin disturbed', pc'[r] # User
                PROVE  (Alone(r) /\ Unlaunched(r) /\ Written(r) /\ OwnSigns(r))'
    BY DEF QuietInv
  <2>1. r = p
    BY <1>1, <1>2 DEF Joined, InCall
  <2>2. InCall = {} /\ ~timer /\ ~line
    BY <1>1, <2>1 DEF Joined
  <2>3. timer = FALSE /\ line = FALSE
    BY <2>2 DEF DriverInv, BoolInv
  <2>4. Alone(r)'
    BY <1>2, <2>1, <2>2 DEF Alone, InCall
  <2>5. Unlaunched(r)'
    BY <1>1, <2>3 DEF Unlaunched
  <2>6. Written(r)'
    BY <1>2, <2>1 DEF Written
  <2>7. OwnSigns(r)'
    BY <1>2, <2>1, Places DEF OwnSigns
  <2>. QED  BY <2>4, <2>5, <2>6, <2>7
<1>. QED  BY <1>3, <1>4, <1>5, <1>6, <1>7 DEF DriverInv

\* ioctl_write: the next register becomes the caller's.
LEMMA WriteStep ==
    ASSUME DriverInv, NEW p \in Proc, ioctl_write(p)
    PROVE  DriverInv'
<1>1. /\ pc[p] \in 1 .. NumRegs /\ pc' = [pc EXCEPT ![p] = pc[p] + 1]
      /\ regs' = [regs EXCEPT ![pc[p]] = p]
      /\ UNCHANGED <<probeVars, files, kernel_done, timer, line, awaited, completed,
                     disturbed>>
  BY DEF ioctl_write, Goto
<1>2. /\ pc \in [Proc -> 0 .. Asleep] /\ regs \in [1 .. NumRegs -> Proc \cup {"unset"}]
      /\ pc'[p] = pc[p] + 1 /\ \A q \in Proc : q # p => pc'[q] = pc[q]
  BY <1>1 DEF DriverInv, TypeInv
<1>3. pc[p] \in 1 .. Dispatch /\ pc'[p] \in 1 .. Dispatch /\ pc[p] # User /\ pc'[p] # User
  BY <1>1, <1>2, Places
<1>4. TypeInv'
  BY <1>1, <1>2, Places DEF TypeInv
<1>5. BoolInv'
  BY <1>1 DEF DriverInv, BoolInv
<1>6. ProbeInv' /\ FileInv'
  BY <1>1, <1>2, <1>3, CallKeeps DEF DriverInv, FileInv
<1>7. WakeInv'
  <2>1. Coming'
    BY <1>3 DEF Coming
  <2>2. \A q \in Proc : pc'[q] = Asleep => pc[q] = Asleep
    BY <1>2, <1>3, Places
  <2>. QED  BY <1>1, <2>1, <2>2 DEF DriverInv, WakeInv
<1>8. QuietInv'
  <2>. SUFFICES ASSUME NEW r \in Proc, r \notin disturbed', pc'[r] # User
                PROVE  (Alone(r) /\ Unlaunched(r) /\ Written(r) /\ OwnSigns(r))'
    BY DEF QuietInv
  <2>1. r \notin disturbed /\ pc[r] # User
    BY <1>1, <1>2, <1>3
  <2>2. Alone(r) /\ Unlaunched(r) /\ Written(r)
    BY <2>1 DEF DriverInv, QuietInv
  <2>3. r = p
    BY <1>3, <2>2 DEF Alone
  <2>4. Alone(r)'
    BY <1>2, <2>2, <2>3 DEF Alone
  <2>5. Unlaunched(r)'
    BY <1>1, <1>3, <2>2, <2>3 DEF Unlaunched
  <2>6. Written(r)'
    <3>1. \A i \in 1 .. NumRegs : i < pc'[p] => i < pc[p] \/ i = pc[p]
      BY <1>1, <1>2, Places
    <3>2. \A i \in 1 .. NumRegs : i < pc[p] => regs[i] = p
      BY <1>3, <2>2, <2>3 DEF Written
    <3>3. \A i \in 1 .. NumRegs : i < pc'[p] => regs'[i] = p
      BY <1>1, <1>2, <3>1, <3>2
    <3>. QED  BY <3>3, <2>3 DEF Written
  <2>7. OwnSigns(r)'
    BY <1>3, <2>3, Places DEF OwnSigns
  <2>. QED  BY <2>4, <2>5, <2>6, <2>7
<1>. QED  BY <1>4, <1>5, <1>6, <1>7, <1>8 DEF DriverInv

\* ioctl_dispatch: the timer takes over from the call in promising a wake-up.
LEMMA DispatchStep ==
    ASSUME DriverInv, NEW p \in Proc, ioctl_dispatch(p)
    PROVE  DriverInv'
<1>1. /\ pc[p] = Dispatch /\ pc' = [pc EXCEPT ![p] = Check]
      /\ timer' = TRUE /\ awaited' = awaited \cup {p}
      /\ UNCHANGED <<probeVars, files, kernel_done, regs, line, completed, disturbed>>
  BY DEF ioctl_dispatch, Goto
<1>2. /\ pc \in [Proc -> 0 .. Asleep] /\ pc'[p] = Check
      /\ \A q \in Proc : q # p => pc'[q] = pc[q]
  BY <1>1 DEF DriverInv, TypeInv
<1>3. pc[p] # User /\ pc'[p] # User /\ pc'[p] # Asleep /\ pc[p] \in 1 .. Dispatch
      /\ pc'[p] \notin 1 .. Dispatch
  BY <1>1, <1>2, Places
<1>4. TypeInv'
  BY <1>1, <1>2, Places DEF DriverInv, TypeInv
<1>5. BoolInv'
  BY <1>1 DEF DriverInv, BoolInv
<1>6. ProbeInv' /\ FileInv'
  BY <1>1, <1>2, <1>3, CallKeeps DEF DriverInv, FileInv
<1>7. WakeInv'
  <2>1. Coming'
    BY <1>1 DEF Coming
  <2>2. \A q \in Proc : pc'[q] = Asleep => pc[q] = Asleep
    BY <1>2, <1>3
  <2>. QED  BY <1>1, <2>1, <2>2 DEF DriverInv, WakeInv
<1>8. QuietInv'
  <2>. SUFFICES ASSUME NEW r \in Proc, r \notin disturbed', pc'[r] # User
                PROVE  (Alone(r) /\ Unlaunched(r) /\ Written(r) /\ OwnSigns(r))'
    BY DEF QuietInv
  <2>1. r \notin disturbed /\ pc[r] # User
    BY <1>1, <1>2, <1>3
  <2>2. Alone(r) /\ Unlaunched(r)
    BY <2>1 DEF DriverInv, QuietInv
  <2>3. r = p
    BY <1>3, <2>2 DEF Alone
  <2>4. Alone(r)'
    BY <1>2, <2>2, <2>3 DEF Alone
  <2>5. Unlaunched(r)' /\ Written(r)'
    BY <1>3, <2>3 DEF Unlaunched, Written
  <2>6. line = FALSE /\ kernel_done = 0
    BY <1>3, <2>2, <2>3 DEF Unlaunched
  <2>7. OwnSigns(r)'
    BY <1>1, <2>3, <2>6 DEF OwnSigns
  <2>. QED  BY <2>4, <2>5, <2>7
<1>. QED  BY <1>4, <1>5, <1>6, <1>7, <1>8 DEF DriverInv

\* ioctl_check: a caller goes to sleep only while its wake-up is coming.
LEMMA CheckStep ==
    ASSUME DriverInv, NEW p \in Proc, ioctl_check(p)
    PROVE  DriverInv'
<1>1. /\ pc[p] = Check /\ pc' = [pc EXCEPT ![p] = IF kernel_done # 0 THEN User ELSE Asleep]
      /\ UNCHANGED <<probeVars, files, kernel_done, regs, timer, line, awaited,
                     completed, disturbed>>
  BY DEF ioctl_check, Goto
<1>2. /\ pc \in [Proc -> 0 .. Asleep] /\ pc'[p] = (IF kernel_done # 0 THEN User ELSE Asleep)
      /\ \A q \in Proc : q # p => pc'[q] = pc[q]
  BY <1>1 DEF DriverInv, TypeInv
<1>3. pc[p] # User /\ pc[p] \notin 1 .. Dispatch /\ pc'[p] \notin 1 .. Dispatch
      /\ pc'[p] # Check
  BY <1>1, <1>2, Places
<1>4. TypeInv'
  BY <1>1, <1>2, Places DEF DriverInv, TypeInv
<1>5. BoolInv'
  BY <1>1 DEF DriverInv, BoolInv
<1>6. ProbeInv' /\ FileInv'
  BY <1>1, <1>2, <1>3, CallKeeps DEF DriverInv, FileInv
<1>7. WakeInv'
  <2>1. Coming => Coming'
    BY <1>1, <1>2, <1>3 DEF Coming
  <2>2. \A q \in Proc : pc'[q] \in {Check, Asleep} => pc[q] \in {Check, Asleep}
    BY <1>1, <1>2
  <2>3. \A q \in Proc : pc'[q] = Asleep => kernel_done = 0
    BY <1>1, <1>2, Places DEF DriverInv, WakeInv
  <2>. QED  BY <1>1, <2>1, <2>2, <2>3 DEF DriverInv, WakeInv
<1>8. QuietInv'
  <2>. SUFFICES ASSUME NEW r \in Proc, r \notin disturbed', pc'[r] # User
                PROVE  (Alone(r) /\ Unlaunched(r) /\ Written(r) /\ OwnSigns(r))'
    BY DEF QuietInv
  <2>1. r \notin disturbed /\ pc[r] # User
    BY <1>1, <1>2, <1>3
  <2>2. Alone(r) /\ OwnSigns(r)
    BY <2>1 DEF DriverInv, QuietInv
  <2>3. r = p
    BY <1>3, <2>2 DEF Alone
  <2>4. Alone(r)'
    BY <1>2, <2>2, <2>3 DEF Alone
  <2>5. Unlaunched(r)' /\ Written(r)'
    BY <1>3, <2>3 DEF Unlaunched, Written
  <2>6. OwnSigns(r)'
    BY <1>1, <2>2, <2>3 DEF OwnSigns
  <2>. QED  BY <2>4, <2>5, <2>6
<1>. QED  BY <1>4, <1>5, <1>6, <1>7, <1>8 DEF DriverInv

\* ioctl_signal: the signalled caller leaves, and is disturbed.
LEMMA SignalStep ==
    ASSUME DriverInv, NEW p \in Proc, ioctl_signal(p)
    PROVE  DriverInv'
<1>1. /\ pc[p] = Asleep /\ pc' = [pc EXCEPT ![p] = User]
      /\ disturbed' = disturbed \cup {p}
      /\ UNCHANGED <<probeVars, files, kernel_done, regs, timer, line, awaited,
                     completed>>
  BY DEF ioctl_signal, Goto
<1>2. /\ pc \in [Proc -> 0 .. Asleep] /\ pc'[p] = User
      /\ \A q \in Proc : q # p => pc'[q] = pc[q]
  BY <1>1 DEF DriverInv, TypeInv
<1>3. pc[p] # User /\ pc[p] \notin 1 .. Dispatch /\ pc'[p] \notin {Check, Asleep}
  BY <1>1, <1>2, Places
<1>4. TypeInv'
  BY <1>1, <1>2, Places DEF DriverInv, TypeInv
<1>5. BoolInv'
  BY <1>1 DEF DriverInv, BoolInv
<1>6. ProbeInv' /\ FileInv'
  BY <1>1, <1>2, CallKeeps DEF DriverInv, FileInv
<1>7. WakeInv'
  <2>1. Coming => Coming'
    BY <1>1, <1>2, <1>3 DEF Coming
  <2>2. \A q \in Proc : pc'[q] \in {Check, Asleep} => pc'[q] = pc[q]
    BY <1>2, <1>3
  <2>. QED  BY <1>1, <2>1, <2>2 DEF DriverInv, WakeInv
<1>8. QuietInv'
  <2>. SUFFICES ASSUME NEW r \in Proc, r \notin disturbed', pc'[r] # User
                PROVE  FALSE
    BY DEF QuietInv
  <2>1. r # p /\ r \notin disturbed /\ pc[r] # User
    BY <1>1, <1>2
  <2>2. Alone(r)
    BY <2>1 DEF DriverInv, QuietInv
  <2>. QED  BY <1>3, <2>1, <2>2 DEF Alone
<1>. QED  BY <1>4, <1>5, <1>6, <1>7, <1>8 DEF DriverInv

\* device_complete: as long as somebody waits, the interrupt is enabled and has
\* its handler, so that the expiry of the timer is not lost.
LEMMA CompleteStep ==
    ASSUME DriverInv, device_complete
    PROVE  DriverInv'
<1>1. /\ timer' = FALSE /\ completed' = completed \cup awaited
      /\ line' = (line \/ (irq_enable /\ "irq" \in held))
      /\ UNCHANGED <<probeVars, files, pc, kernel_done, regs, disturbed>>
  BY DEF device_complete
<1>2. timer = TRUE
  BY DEF device_complete, DriverInv, BoolInv
<1>3. TypeInv'
  BY <1>1 DEF DriverInv, TypeInv
<1>4. BoolInv'
  BY <1>1 DEF DriverInv, BoolInv
<1>5. ProbeInv' /\ FileInv'
  BY <1>1, CallKeeps DEF DriverInv, FileInv
<1>6. ASSUME NEW p \in Proc, pc[p] # User PROVE line' = TRUE
  <2>1. irq_enable = TRUE /\ "irq" \in held
    BY <1>6, OpenIsBound
  <2>. QED  BY <1>1, <2>1
<1>7. WakeInv'
  <2>1. ASSUME NEW p \in Proc, pc'[p] \in {Check, Asleep} PROVE Coming'
    <3>1. pc[p] # User
      BY <1>1, <2>1, Places
    <3>. QED  BY <1>6, <3>1 DEF Coming
  <2>. QED  BY <1>1, <2>1 DEF DriverInv, WakeInv
<1>8. QuietInv'
  <2>. SUFFICES ASSUME NEW r \in Proc, r \notin disturbed', pc'[r] # User
                PROVE  (Alone(r) /\ Unlaunched(r) /\ Written(r) /\ OwnSigns(r))'
    BY DEF QuietInv
  <2>1. r \notin disturbed /\ pc[r] # User
    BY <1>1
  <2>2. Alone(r) /\ Unlaunched(r) /\ OwnSigns(r)
    BY <2>1 DEF DriverInv, QuietInv
  <2>3. pc[r] \notin 1 .. Dispatch
    BY <1>2, <2>2 DEF Unlaunched
  <2>4. Alone(r)' /\ Unlaunched(r)' /\ Written(r)'
    BY <1>1, <2>2, <2>3 DEF Alone, Unlaunched, Written
  <2>5. OwnSigns(r)'
    <3>1. pc[r] \in {Check, Asleep} => r \in completed'
      BY <1>1, <1>2, <2>2 DEF OwnSigns
    <3>. QED  BY <1>1, <3>1 DEF OwnSigns
  <2>. QED  BY <2>4, <2>5
<1>. QED  BY <1>3, <1>4, <1>5, <1>7, <1>8 DEF DriverInv

\* other_device_irq: every call under way is disturbed.
LEMMA OtherStep ==
    ASSUME DriverInv, other_device_irq
    PROVE  DriverInv'
<1>1. /\ line' = TRUE /\ disturbed' = disturbed \cup InCall
      /\ UNCHANGED <<probeVars, files, pc, kernel_done, regs, timer, awaited, completed>>
  BY DEF other_device_irq
<1>2. TypeInv'
  BY <1>1 DEF DriverInv, TypeInv
<1>3. BoolInv'
  BY <1>1 DEF DriverInv, BoolInv
<1>4. ProbeInv' /\ FileInv'
  BY <1>1, CallKeeps DEF DriverInv, FileInv
<1>5. WakeInv'
  <2>1. Coming'
    BY <1>1 DEF Coming
  <2>. QED  BY <1>1, <2>1 DEF DriverInv, WakeInv
<1>6. QuietInv'
  BY <1>1 DEF QuietInv, InCall
<1>. QED  BY <1>2, <1>3, <1>4, <1>5, <1>6 DEF DriverInv

\* irq_kernel_handler: the flag is set and nobody sleeps any more.
LEMMA HandlerStep ==
    ASSUME DriverInv, irq_kernel_handler
    PROVE  DriverInv'
<1>1. /\ line' = FALSE /\ kernel_done' = 1
      /\ pc' = [p \in Proc |-> IF pc[p] = Asleep THEN Check ELSE pc[p]]
      /\ UNCHANGED <<probeVars, files, regs, timer, awaited, completed, disturbed>>
  BY DEF irq_kernel_handler
<1>2. line = TRUE
  BY DEF irq_kernel_handler, DriverInv, BoolInv
<1>3. \A p \in Proc : IF pc[p] = Asleep THEN pc'[p] = Check ELSE pc'[p] = pc[p]
  BY <1>1
<1>0. User # Asleep /\ Check # Asleep /\ Check # User /\ Check \notin 1 .. Dispatch
  BY Places
<1>4. TypeInv'
  BY <1>1, Places DEF DriverInv, TypeInv
<1>5. BoolInv'
  BY <1>1 DEF DriverInv, BoolInv
<1>6. ProbeInv' /\ FileInv'
  BY <1>0, <1>1, <1>3, CallKeeps DEF DriverInv, FileInv
<1>7. WakeInv'
  BY <1>0, <1>1, <1>3 DEF WakeInv
<1>8. QuietInv'
  <2>. SUFFICES ASSUME NEW r \in Proc, r \notin disturbed', pc'[r] # User
                PROVE  (Alone(r) /\ Unlaunched(r) /\ Written(r) /\ OwnSigns(r))'
    BY DEF QuietInv
  <2>1. r \notin disturbed /\ pc[r] # User
    BY <1>0, <1>1, <1>3
  <2>2. Alone(r) /\ Unlaunched(r) /\ OwnSigns(r)
    BY <2>1 DEF DriverInv, QuietInv
  <2>3. pc[r] \notin 1 .. Dispatch
    BY <1>2, <2>2 DEF Unlaunched
  <2>4. Alone(r)'
    BY <1>0, <1>3, <2>2 DEF Alone
  <2>5. Unlaunched(r)' /\ Written(r)'
    BY <1>0, <1>3, <2>3 DEF Unlaunched, Written
  <2>6. OwnSigns(r)'
    BY <1>0, <1>1, <1>2, <1>3, <2>2 DEF OwnSigns
  <2>. QED  BY <2>4, <2>5, <2>6
<1>. QED  BY <1>4, <1>5, <1>6, <1>7, <1>8 DEF DriverInv

\* Every step preserves the invariant.
LEMMA DriverStep ==
    ASSUME Sound, DriverInv, [Next]_vars
    PROVE  DriverInv'
<1>1. CASE lifecycle
  BY <1>1, LifecycleStep
<1>2. CASE \E p \in Proc : open(p) \/ release(p) \/ ioctl(p)
  <2>1. PICK p \in Proc : open(p) \/ release(p) \/ ioctl(p)
    BY <1>2
  <2>2. CASE open(p) \/ release(p)
    BY <2>2, FileStep
  <2>3. CASE ioctl(p)
    BY <2>3, EnterStep, WriteStep, DispatchStep, CheckStep, SignalStep DEF ioctl
  <2>. QED  BY <2>1, <2>2, <2>3
<1>3. CASE device_complete
  BY <1>3, CompleteStep
<1>4. CASE other_device_irq
  BY <1>4, OtherStep
<1>5. CASE irq_kernel_handler
  BY <1>5, HandlerStep
<1>6. CASE UNCHANGED vars
  <2>1. /\ UNCHANGED <<stage, step, held, ret, irq_enable>>
        /\ UNCHANGED <<files, pc, kernel_done, regs, timer, line, awaited, completed,
                       disturbed>>
    BY <1>6 DEF vars, probeVars, ioctlVars
  <2>. QED  BY <2>1 DEF DriverInv, TypeInv, BoolInv, ProbeInv, FileInv, WakeInv, Coming,
                        QuietInv, Alone, Unlaunched, Written, OwnSigns
<1>. QED  BY <1>1, <1>2, <1>3, <1>4, <1>5, <1>6 DEF Next

\* The invariant holds in every reachable state.
LEMMA DriverSafe == Sound => (Spec => []DriverInv)
<1>. SUFFICES ASSUME Sound PROVE Spec => []DriverInv
  OBVIOUS
<1>1. Init => DriverInv
  BY InitHolds
<1>2. DriverInv /\ [Next]_vars => DriverInv'
  BY DriverStep
<1>. QED  BY <1>1, <1>2, PTL DEF Spec

\* A process inside gpgpu_ioctl finds gpu_dev, the registers and the handler in
\* place (DeviceOutlivesCalls), however probes, failures of probes, removals
\* and the calls of other processes interleave.
THEOREM CallsFindTheDevice == Sound => (Spec => []DeviceOutlivesCalls)
<1>1. DriverInv => DeviceOutlivesCalls
  BY OpenIsBound DEF DeviceOutlivesCalls
<1>. QED  BY <1>1, DriverSafe, PTL

\* No process sleeps in gpgpu_ioctl without a wake-up on its way
\* (WakeUpComing): not when another process resets kernel_done, and not when a
\* signal, a foreign interrupt or another completion comes in between.
THEOREM NoLostWakeUp == Sound => (Spec => []WakeUpComing)
<1>1. DriverInv => WakeUpComing
  <2>. SUFFICES ASSUME DriverInv, NEW p \in Proc, pc[p] = Asleep
                PROVE  timer \/ line \/ \E q \in Proc : pc[q] \in 1 .. Dispatch
    BY DEF WakeUpComing
  <2>1. Coming
    BY DEF DriverInv, WakeInv
  <2>. QED  BY <2>1 DEF Coming
<1>. QED  BY <1>1, DriverSafe, PTL

\* A call that has the device to itself launches with its own registers
\* (QuietLaunchIntact).
THEOREM QuietRegisters == Sound => (Spec => []QuietLaunchIntact)
<1>1. DriverInv => QuietLaunchIntact
  <2>. SUFFICES ASSUME DriverInv, NEW p \in Proc, p \notin disturbed, pc[p] = Dispatch,
                       NEW i \in 1 .. NumRegs
                PROVE  regs[i] = p
    BY DEF QuietLaunchIntact
  <2>1. pc[p] # User /\ pc[p] \in 1 .. Dispatch /\ i < pc[p]
    BY Places
  <2>. QED  BY <2>1 DEF DriverInv, QuietInv, Written
<1>. QED  BY <1>1, DriverSafe, PTL

\* A call that has the device to itself returns after its own completion
\* (QuietReturnsAfterCompletion).
THEOREM QuietCompletion == Sound => (Spec => QuietReturnsAfterCompletion)
<1>. DEFINE A == \A p \in Proc \ disturbed' :
                    pc[p] \in {Check, Asleep} /\ pc'[p] = User => p \in completed
<1>1. DriverInv /\ [Next]_vars => [A]_vars
  <2>. SUFFICES ASSUME DriverInv, Next, NEW p \in Proc, p \notin disturbed',
                       pc[p] \in {Check, Asleep}, pc'[p] = User
                PROVE  p \in completed
    OBVIOUS
  <2>0. pc[p] # User /\ pc \in [Proc -> 0 .. Asleep]
    BY Places DEF DriverInv, TypeInv
  <2>1. ~lifecycle /\ ~device_complete /\ ~other_device_irq
    BY <2>0 DEF lifecycle, device_complete, other_device_irq
  <2>2. ~irq_kernel_handler
    BY <2>0, Places DEF irq_kernel_handler
  <2>3. PICK q \in Proc : open(q) \/ release(q) \/ ioctl(q)
    BY <2>1, <2>2 DEF Next
  <2>4. ~open(q) /\ ~release(q)
    BY <2>0 DEF open, release
  <2>5. ~ioctl_enter(q) /\ ~ioctl_write(q) /\ ~ioctl_dispatch(q)
    BY <2>0, Places DEF ioctl_enter, ioctl_write, ioctl_dispatch, Goto
  <2>6. ~ioctl_signal(q)
    BY <2>0 DEF ioctl_signal, Goto
  <2>7. ioctl_check(q)
    BY <2>3, <2>4, <2>5, <2>6 DEF ioctl
  <2>8. q = p /\ kernel_done # 0 /\ p \notin disturbed
    BY <2>0, <2>7, Places DEF ioctl_check, Goto
  <2>9. OwnSigns(p)
    BY <2>0, <2>8 DEF DriverInv, QuietInv
  <2>. QED  BY <2>8, <2>9 DEF OwnSigns
<1>. QED  BY <1>1, DriverSafe, PTL DEF Spec, QuietReturnsAfterCompletion
=============================================================================
