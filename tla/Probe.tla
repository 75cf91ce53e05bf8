-------------------------------- MODULE Probe --------------------------------
(***************************************************************************)
(* gpgpu_probe and gpgpu_remove of gpgpu_drv.c: the resources probe        *)
(* acquires one by one, the goto chain that unwinds a failed probe, and    *)
(* the order in which remove gives everything back.                        *)
(***************************************************************************)
EXTENDS Integers, Sequences, FiniteSets, SequencesExt

CONSTANT
    MayFail        \* resources whose acquisition may fail

\* What probe acquires, in order.  The last step enables the interrupts of
\* the device: it cannot fail.
Acquire == << "mem", "enabled", "regions", "ctrl", "vram", "doorbell",
              "devno", "cdev", "class", "device", "vectors", "irq" >>

Resources == Range(Acquire)

ASSUME ProbeConstants == MayFail \subseteq Resources

VARIABLES
    stage,         \* "unbound", "probing", "unwinding", "bound", "removing"
    step,          \* position in Acquire, Unwind or Removal
    held,          \* resources acquired and not yet released
    ret,           \* value of ret: "0", "1" (a vector count) or "err"
    irq_enable     \* the IRQ_ENABLE register of the device is set

probeVars == <<stage, step, held, ret, irq_enable>>

\* The labels of probe, from err_request_irq_kernel down to err_free: each
\* falls through to the next.
Unwind == << "irq", "vectors", "device", "class", "cdev", "devno", "doorbell",
             "vram", "ctrl", "regions", "enabled", "mem" >>

\* Fault: a failed alloc_chrdev_region jumps past the unmapping of the doorbell.
Label_Skips(r) ==
    CASE r \in {"mem", "enabled"} -> "mem"
      [] r = "regions"  -> "enabled"
      [] r = "ctrl"     -> "regions"
      [] r = "vram"     -> "ctrl"
      [] r \in {"doorbell", "devno"} -> "vram"
      [] r = "cdev"     -> "devno"
      [] r = "class"    -> "cdev"
      [] r = "device"   -> "class"
      [] r = "vectors"  -> "device"
      [] r = "irq"      -> "vectors"

\* The goto of a failed step, as the first resource its label releases.
Label(r) ==
    CASE r \in {"mem", "enabled"} -> "mem"
      [] r = "regions"  -> "enabled"
      [] r = "ctrl"     -> "regions"
      [] r = "vram"     -> "ctrl"
      [] r = "doorbell" -> "vram"
      [] r = "devno"    -> "doorbell"
      [] r = "cdev"     -> "devno"
      [] r = "class"    -> "cdev"
      [] r = "device"   -> "class"
      [] r = "vectors"  -> "device"
      [] r = "irq"      -> "vectors"

\* Fault: the vectors are freed before the handler.
Removal_Swapped == << "vectors", "irq", "device", "class", "cdev", "devno",
                      "ctrl", "vram", "doorbell", "regions", "enabled", "mem" >>

\* The calls of gpgpu_remove.
Removal == << "irq", "vectors", "device", "class", "cdev", "devno", "ctrl",
              "vram", "doorbell", "regions", "enabled", "mem" >>

\* ret after a step that succeeds, and after one that fails.  kmalloc,
\* pci_iomap, class_create and device_create return pointers; the failure paths
\* of the last two assign PTR_ERR, those of the first two assign nothing.
RetAfter(r) ==
    CASE r \in {"enabled", "regions", "devno", "cdev", "irq"} -> "0"
      [] r = "vectors" -> "1"
      [] OTHER -> ret

\* Fault: a failed class_create does not assign PTR_ERR.
RetAfterFailed_Class(r) ==
    IF r \in {"mem", "ctrl", "vram", "doorbell", "class"} THEN ret ELSE "err"

RetAfterFailed(r) ==
    IF r \in {"mem", "ctrl", "vram", "doorbell"} THEN ret ELSE "err"
-----------------------------------------------------------------------------
ProbeInit ==
    /\ stage = "unbound" /\ step = 1
    /\ held = {} /\ ret = "err" /\ irq_enable = FALSE

\* The PCI core calls probe on a device no driver owns; ret = -ENOMEM.
probe_start ==
    /\ stage = "unbound"
    /\ stage' = "probing" /\ step' = 1 /\ ret' = "err"
    /\ UNCHANGED <<held, irq_enable>>

probe_acquire ==
    /\ stage = "probing" /\ step \in DOMAIN Acquire
    /\ held' = held \cup {Acquire[step]}
    /\ ret' = RetAfter(Acquire[step])
    /\ step' = step + 1
    /\ UNCHANGED <<stage, irq_enable>>

probe_fail ==
    /\ stage = "probing" /\ step \in DOMAIN Acquire
    /\ Acquire[step] \in MayFail
    /\ ret' = RetAfterFailed(Acquire[step])
    /\ stage' = "unwinding"
    /\ step' = SelectInSeq(Unwind, LAMBDA r : r = Label(Acquire[step]))
    /\ UNCHANGED <<held, irq_enable>>

\* iowrite32(.., IRQ_ENABLE); return 0.
probe_done ==
    /\ stage = "probing" /\ step = Len(Acquire) + 1
    /\ irq_enable' = TRUE /\ stage' = "bound" /\ ret' = "0"
    /\ UNCHANGED <<step, held>>

\* One label of the unwinding, and the return after the last: the PCI core
\* takes 0 for success whatever probe released before.  kfree(NULL) is fine.
probe_unwind ==
    /\ stage = "unwinding"
    /\ held' = held \ {Unwind[step]}
    /\ stage' = IF step < Len(Unwind) THEN "unwinding"
                ELSE IF ret = "0" THEN "bound" ELSE "unbound"
    /\ step' = step + 1
    /\ UNCHANGED <<ret, irq_enable>>

\* Driver unload.  The device's IRQ_ENABLE is left as it is.
remove_start ==
    /\ stage = "bound"
    /\ stage' = "removing" /\ step' = 1
    /\ UNCHANGED <<held, ret, irq_enable>>

remove_release ==
    /\ stage = "removing"
    /\ held' = held \ {Removal[step]}
    /\ stage' = IF step < Len(Removal) THEN "removing" ELSE "unbound"
    /\ step' = step + 1
    /\ UNCHANGED <<ret, irq_enable>>

ProbeNext ==
    \/ probe_start \/ probe_acquire \/ probe_fail \/ probe_done
    \/ probe_unwind \/ remove_start \/ remove_release

ProbeSpec == ProbeInit /\ [][ProbeNext]_probeVars
-----------------------------------------------------------------------------
\* Every variable of probe and remove has its type.
ProbeTypeOK ==
    /\ stage \in {"unbound", "probing", "unwinding", "bound", "removing"}
    /\ step \in 1 .. (Len(Acquire) + 1)
    /\ held \subseteq Resources
    /\ ret \in {"0", "1", "err"}
    /\ irq_enable \in BOOLEAN

\* Every label of a failed probe, and every call of remove, releases something
\* that is held (kfree(NULL) apart), and what is held is still going to be
\* released: no double release and no leak, whichever step failed.
ReleasesWhatIsHeld ==
    /\ stage = "unwinding" =>
           held \cup {"mem"} = Range(SubSeq(Unwind, step, Len(Unwind)))
    /\ stage = "removing" => held = Range(SubSeq(Removal, step, Len(Removal)))

\* What each resource is used through: interrupts and file operations reach
\* gpu_dev and the mapped BARs, and the BARs need the claimed regions.
Needs ==
    {<<"enabled", "mem">>, <<"regions", "enabled">>, <<"ctrl", "regions">>,
     <<"vram", "regions">>, <<"doorbell", "regions">>, <<"cdev", "devno">>,
     <<"cdev", "ctrl">>, <<"cdev", "vram">>, <<"device", "class">>,
     <<"device", "cdev">>, <<"irq", "vectors">>, <<"vectors", "enabled">>,
     <<"irq", "mem">>}

\* Teardown goes from users to providers: at every step of probe, unwinding and
\* removal, whatever is held finds what it uses still held.
ProvidersOutliveUsers ==
    \A n \in Needs : n[1] \in held => n[2] \in held

\* "The probe function returns zero when the driver chooses to take ownership
\* of the device or an error code (negative number) otherwise"
\* (kernel-headers/include/linux/pci.h:909-912): the device counts as bound
\* exactly when probe kept everything.
OwnershipMatchesReturn ==
    /\ stage = "bound" => held = Resources
    /\ stage = "unbound" => held = {}
=============================================================================
