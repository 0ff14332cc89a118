-------------------------------- MODULE Boot --------------------------------
(***************************************************************************)
(* kernel_initialize (kernel/init.c) on the boot processor, from kmain's   *)
(* first line to the end: the calls in their order, the ACPI walk that     *)
(* counts the cores and finds the interrupt controllers, the per-CPU       *)
(* tables, the IDT and the interrupt routing.  init_fb ends with           *)
(* clear_screen's sti, so that everything behind it runs with interrupts   *)
(* on: the timer and the keyboard may interrupt any step once intr_init    *)
(* has armed them.                                                         *)
(*                                                                         *)
(* Memory, files, clock and screen are in modules of their own; here their *)
(* initialisation only takes its place in the order.  A read through NULL  *)
(* or through a pointer that was never stored stops the boot (dead); what  *)
(* such a step would corrupt is not modelled.                              *)
(***************************************************************************)
EXTENDS Naturals, Sequences, FiniteSets

CONSTANTS Machines,         \* firmware tables and processors to boot on
          Pins,             \* of an I/O APIC
          MAX_CPU_COUNT,
          MaxKeys           \* bound: keyboard bytes during one boot

VARIABLES m,                \* the machine
          pc,               \* the call kernel_initialize is at
          dead,
          k,                \* the kernel's globals and the CPU's registers
          data,             \* the byte in the keyboard controller: none, press, release
          irr,              \* keyboard interrupt waiting at the boot CPU's local APIC
          keys

vars == <<m, pc, dead, k, data, irr, keys>>

-----------------------------------------------------------------------------
(* What the firmware and the boot loader hand over. *)

Responses == {"framebuffer", "hhdm", "memmap", "kernel_address", "rsdp", "smp"}

\* A MADT entry; empty: its length byte is 0.
MadtEntry ==
    [type : {"LOCAL_APIC"}, empty : BOOLEAN, apic_id : Nat, flags : 0 .. 3]
    \cup [type : {"IO_APIC"}, empty : BOOLEAN, base : Nat]
    \cup [type : {"OVERRIDE"}, empty : BOOLEAN, source : Nat, interrupt : Nat]
    \cup [type : {"OTHER"}, empty : BOOLEAN]

Table ==
    [signature : {"APIC"}, entries : Seq(MadtEntry)] \cup [signature : {"FACP", "OTHER"}]

Machine ==
    [responses : SUBSET Responses,
     signature : BOOLEAN,          \* "RSD PTR "
     checksum : 0 .. 255, revision : Nat,
     tables : Seq(Table),          \* behind the RSDT
     apic_id : Nat,                \* of the boot processor
     cpus : Nat,                   \* limine's cpu_count
     wire : Nat]                   \* the pin the keyboard is wired to

ASSUME MachinesAssumption == Machines \subseteq Machine

ASSUME PinsAssumption == Pins \in Nat /\ MAX_CPU_COUNT \in Nat /\ MaxKeys \in Nat

INT_TIMER == 32
INT_KBD == 33
INT_SCHEDULER == 48
INT_SPURIOUS == 255

Masked == [vector |-> 0, dest |-> 0]

\* The loader leaves interrupts as they are until cli, and every line masked.
Reset ==
    [rflags_if |-> FALSE, madt |-> 0, table |-> 1, entry |-> 1, cpu_count |-> 0,
     lapic |-> FALSE, io_apic |-> {}, fadt |-> FALSE, gdts |-> 0, gdtr |-> FALSE,
     rsp0 |-> "zero", cpu_data |-> 0, idt |-> [v \in {} |-> ""], timer |-> FALSE,
     irq |-> 0, redtbl |-> [pin \in 0 .. Pins - 1 |-> Masked], gs |-> FALSE,
     lists |-> "null", sleeping_queue |-> FALSE, current |-> "null"]

Init ==
    /\ m \in Machines
    /\ pc = "verify_boot_environment"
    /\ dead = FALSE
    /\ k = Reset
    /\ data = "none"
    /\ irr = FALSE
    /\ keys = 0

-----------------------------------------------------------------------------
(* The calls. *)

Call(here, next, fault, result) ==
    /\ pc = here
    /\ ~dead
    /\ dead' = fault
    /\ pc' = IF fault THEN here ELSE next
    /\ k' = IF fault THEN k ELSE result
    /\ UNCHANGED <<m, data, irr, keys>>

\* kmain has read the framebuffer's response by now; hcf never returns.
verify_boot_environment ==
    Call("verify_boot_environment", "init_fb",
         ~({"framebuffer", "hhdm", "memmap"} \subseteq m.responses), k)

\* cli, then init_fb, whose clear_screen ends with sti.
init_fb == Call("init_fb", "init_mem", FALSE, [k EXCEPT !.rflags_if = TRUE])

init_mem == Call("init_mem", "acpi_init", "kernel_address" \notin m.responses, k)

\* Only revision 0 adds hhdm_offset to the table's physical address.
acpi_init ==
    LET parse == m.signature /\ m.checksum # 0 IN
    Call("acpi_init", IF parse /\ m.revision = 0 THEN "acpi_parse_dt" ELSE "init_gdt",
         "rsdp" \notin m.responses \/ (parse /\ m.revision = 2), k)

\* strcpy copies the signature, which no zero ends, and the bytes of the length
\* behind it up to the first zero, so up to three bytes behind sig[5]: at -O0 they
\* are those of the local signature, which is not read again.
acpi_parse_dt ==
    LET more == k.table <= Len(m.tables)
        signature == m.tables[k.table].signature
    IN Call("acpi_parse_dt",
            CASE ~more -> "init_gdt"
              [] more /\ signature = "APIC" -> "acpi_parse_apic"
              [] OTHER -> "acpi_parse_dt",
            FALSE,
            CASE ~more -> k
              [] more /\ signature = "APIC" ->
                    [k EXCEPT !.madt = k.table, !.entry = 1, !.lapic = TRUE, !.table = @ + 1]
              [] more /\ signature = "FACP" -> [k EXCEPT !.fadt = TRUE, !.table = @ + 1]
              [] OTHER -> [k EXCEPT !.table = @ + 1])

Entries == m.tables[k.madt].entries

\* What one entry stores; register_cpu_core has no bound of its own.
Registered(e) ==
    CASE e.type = "LOCAL_APIC" /\ e.flags > 0 -> [k EXCEPT !.cpu_count = @ + 1]
      [] e.type = "IO_APIC" -> [k EXCEPT !.io_apic = {e.base}]
      [] OTHER -> k

\* Faulty variant: no break at an entry of length 0.
acpi_parse_apic_no_break ==
    LET more == k.entry <= Len(Entries) IN
    Call("acpi_parse_apic", IF more THEN "acpi_parse_apic" ELSE "acpi_parse_dt",
         more /\ k.cpu_count = MAX_CPU_COUNT /\ Registered(Entries[k.entry]).cpu_count > MAX_CPU_COUNT,
         IF ~more THEN k ELSE
         [Registered(Entries[k.entry]) EXCEPT !.entry = IF Entries[k.entry].empty THEN @ ELSE @ + 1])

\* Faulty variant: a core that is not enabled yet is not counted.
acpi_parse_apic_enabled_only ==
    LET more == k.entry <= Len(Entries) /\ ~Entries[k.entry].empty
        skip == Entries[k.entry].type = "LOCAL_APIC" /\ Entries[k.entry].flags = 2
    IN Call("acpi_parse_apic", IF more THEN "acpi_parse_apic" ELSE "acpi_parse_dt",
            more /\ Registered(Entries[k.entry]).cpu_count > MAX_CPU_COUNT,
            IF ~more THEN k
            ELSE [(IF skip THEN k ELSE Registered(Entries[k.entry])) EXCEPT !.entry = @ + 1])

\* One turn of acpi_parse_apic's loop.
acpi_parse_apic ==
    LET more == k.entry <= Len(Entries) /\ ~Entries[k.entry].empty IN
    Call("acpi_parse_apic", IF more THEN "acpi_parse_apic" ELSE "acpi_parse_dt",
         more /\ Registered(Entries[k.entry]).cpu_count > MAX_CPU_COUNT,
         IF ~more THEN k ELSE [Registered(Entries[k.entry]) EXCEPT !.entry = @ + 1])

init_gdt == Call("init_gdt", "init_gdt_local", FALSE, [k EXCEPT !.gdts = k.cpu_count])

\* local_apic_get_id() reads through g_local_apic_address; the result indexes a
\* table of n entries.
BadIndex(n) == ~k.lapic \/ m.apic_id >= n

\* Clears the TSS; the selectors it loads reset the base of gs.
init_gdt_local ==
    Call("init_gdt_local", "tss_set_kernel_stack", BadIndex(k.gdts),
         [k EXCEPT !.gdtr = TRUE, !.rsp0 = "zero", !.gs = FALSE])

tss_set_kernel_stack ==
    Call("tss_set_kernel_stack", "init_smp_data", BadIndex(k.gdts),
         [k EXCEPT !.rsp0 = "kernel_stack"])

init_smp_data ==
    Call("init_smp_data", "idt_init", "smp" \notin m.responses, [k EXCEPT !.cpu_data = m.cpus])

-----------------------------------------------------------------------------
(* intr_init. *)

\* idt_init fills the table, idt_set_handler replaces what the kernel handles.
Handler(v) ==
    CASE v = INT_TIMER -> "pit_interrupt"
      [] v = INT_KBD -> "keyboard_interrupt"
      [] v = INT_SPURIOUS -> "spurious_interrupt"
      [] v = INT_SCHEDULER -> "scheduler_isr_asm"
      [] v = 14 -> "pagefault_interrupt"
      [] v = 13 -> "gpf_exc"
      [] v < 13 -> "generic_exeption_handler"
      [] v \in 15 .. 19 -> "exception_handlers"
      [] v \in 20 .. 31 -> "default_exception_handler"
      [] OTHER -> "default_interrupt_handler"

\* ... and pic_init leaves both controllers masked.  Its first command word clears
\* their masks, with interrupts on, until its last two writes set them again; the
\* vectors are programmed in between, and the model has no interrupt from a PIC.
idt_init ==
    Call("idt_init", "io_apic_init", FALSE, [k EXCEPT !.idt = [v \in 0 .. 255 |-> Handler(v)]])

\* local_apic_init and io_apic_init.  io_apic_in returns nothing, so the number of
\* entries that are masked is whatever the register holds.
io_apic_init ==
    \E count \in 1 .. Pins :
        Call("io_apic_init", "local_apic_timer_init", k.io_apic = {},
             [k EXCEPT !.redtbl = [pin \in DOMAIN @ |-> IF pin < count THEN Masked ELSE @[pin]]])

\* Then acpi_remap_irq(IRQ_TIMER) begins.
local_apic_timer_init ==
    Call("local_apic_timer_init", "acpi_remap_irq", FALSE,
         [k EXCEPT !.timer = TRUE, !.irq = 0, !.entry = 1])

\* io_apic_set_entry's first write: vector and mask.
SetLow(pin, vector) ==
    [k EXCEPT !.redtbl = [p \in DOMAIN @ |-> IF p = pin THEN [@[p] EXCEPT !.vector = vector]
                                             ELSE @[p]],
              !.entry = pin]

\* One turn of acpi_remap_irq's loop; what is found is the pin to programme.
acpi_remap_irq ==
    LET more == k.entry <= Len(Entries)
        e == Entries[k.entry]
        found == more /\ e.type = "OVERRIDE" /\ e.source = k.irq
        vector == IF k.irq = 0 THEN INT_TIMER ELSE INT_KBD
    IN Call("acpi_remap_irq", IF more /\ ~found THEN "acpi_remap_irq" ELSE "io_apic_set_entry",
            FALSE,
            CASE found -> SetLow(e.interrupt, vector)
              [] ~more -> SetLow(k.irq, vector)
              [] OTHER -> [k EXCEPT !.entry = IF e.empty THEN @ ELSE @ + 1])

\* Faulty variant: the destination is not written.
io_apic_set_entry_low_only ==
    Call("io_apic_set_entry", IF k.irq = 0 THEN "acpi_remap_irq" ELSE "init_syscall", FALSE,
         [k EXCEPT !.irq = 1, !.entry = 1])

\* io_apic_set_entry's second write: the destination, 0 for the timer.
io_apic_set_entry ==
    Call("io_apic_set_entry", IF k.irq = 0 THEN "acpi_remap_irq" ELSE "init_syscall", FALSE,
         [k EXCEPT !.redtbl = [p \in DOMAIN @ |->
                       IF p = k.entry THEN [@[p] EXCEPT !.dest = IF k.irq = 0 THEN 0 ELSE m.apic_id]
                       ELSE @[p]],
                   !.irq = 1, !.entry = 1])

-----------------------------------------------------------------------------
(* System calls and the thread list. *)

init_syscall ==
    Call("init_syscall", "init_multitasking", BadIndex(k.cpu_data), [k EXCEPT !.gs = TRUE])

\* cpu_task_lists is stored; its entries are not yet.
init_multitasking ==
    Call("init_multitasking", "init_task_lists", FALSE, [k EXCEPT !.lists = "raw"])

init_task_lists ==
    Call("init_task_lists", "init_sleeping_queue", FALSE, [k EXCEPT !.lists = "made"])

init_sleeping_queue ==
    Call("init_sleeping_queue", "init_bsp_main_process", BadIndex(k.cpu_count),
         [k EXCEPT !.sleeping_queue = TRUE])

init_bsp_main_process ==
    Call("init_bsp_main_process", "kbd_init", BadIndex(k.cpu_count) \/ BadIndex(k.cpu_data),
         [k EXCEPT !.current = "MAIN_THREAD"])

\* Faulty variant: the controller is not emptied.
kbd_init_missing == Call("kbd_init", "init_rtc", FALSE, k)

\* One turn of kbd_init's loop.
kbd_init ==
    IF data = "none" THEN Call("kbd_init", "init_rtc", FALSE, k)
    ELSE /\ pc = "kbd_init"
         /\ ~dead
         /\ data' = "none"
         /\ UNCHANGED <<m, pc, dead, k, irr, keys>>

init_rtc == Call("init_rtc", "done", FALSE, k)

\* reboot() at the end of kmain: by the FADT's reset register, else by the
\* keyboard controller.
reboot ==
    /\ pc = "done"
    /\ ~dead
    /\ pc' = "verify_boot_environment"
    /\ k' = Reset
    /\ data' = "none"
    /\ irr' = FALSE
    /\ keys' = 0
    /\ UNCHANGED <<m, dead>>

-----------------------------------------------------------------------------
(* Interrupts. *)

\* pit_interrupt: update_curr_thread, then update_sleeping_queue.
pit_interrupt ==
    /\ k.rflags_if /\ k.timer /\ ~dead
    /\ \/ k.lists = "null" /\ dead' = TRUE
       \/ k.lists # "null" /\ ~k.sleeping_queue /\ dead' \in BOOLEAN
       \/ k.sleeping_queue /\ dead' = FALSE
    /\ UNCHANGED <<m, pc, k, data, irr, keys>>

\* The controller has a byte and raises its line; an edge at a masked entry, or
\* one sent to another processor, is gone.
KeyByte(byte) ==
    /\ ~dead
    /\ data = "none"
    /\ keys < MaxKeys
    /\ keys' = keys + 1
    /\ data' = byte
    /\ irr' = \/ irr
              \/ /\ k.io_apic = {0}
                 /\ m.wire \in DOMAIN k.redtbl
                 /\ k.redtbl[m.wire] = [vector |-> INT_KBD, dest |-> m.apic_id]
    /\ UNCHANGED <<m, pc, dead, k>>

\* keyboard_interrupt; a pressed key reaches notify_wait_channel and schedule().
\* schedule() returns at once: before mt.c:55 there is no current thread, behind it
\* notify_wait_channel has just asked for index 1 of the two listed threads, and the
\* 1 left in %rsi is schedule()'s "from".  An empty controller repeats the last byte.
keyboard_interrupt ==
    /\ k.rflags_if /\ irr /\ ~dead
    /\ irr' = FALSE
    /\ data' = "none"
    /\ \E byte \in IF data = "none" THEN {"press", "release"} ELSE {data} :
         \/ byte = "press" /\ k.lists = "null" /\ dead' = TRUE
         \/ byte = "press" /\ k.lists = "raw" /\ dead' \in BOOLEAN
         \/ (byte = "release" \/ k.lists = "made") /\ dead' = FALSE
    /\ UNCHANGED <<m, pc, k, keys>>

-----------------------------------------------------------------------------

Kernel ==
    \/ verify_boot_environment \/ init_fb \/ init_mem \/ acpi_init \/ acpi_parse_dt
    \/ acpi_parse_apic \/ init_gdt \/ init_gdt_local \/ tss_set_kernel_stack
    \/ init_smp_data \/ idt_init \/ io_apic_init \/ local_apic_timer_init
    \/ acpi_remap_irq \/ io_apic_set_entry \/ init_syscall \/ init_multitasking
    \/ init_task_lists \/ init_sleeping_queue \/ init_bsp_main_process \/ kbd_init
    \/ init_rtc

Next ==
    \/ Kernel
    \/ reboot
    \/ pit_interrupt
    \/ keyboard_interrupt
    \/ \E byte \in {"press", "release"} : KeyByte(byte)

Spec == Init /\ [][Next]_vars

\* The processor goes on to the next instruction whenever it can.
FairSpec == Spec /\ WF_vars(Kernel)

-----------------------------------------------------------------------------
(* What the kernel expects of a machine, read off its tables. *)

Madts == {t \in DOMAIN m.tables : m.tables[t].signature = "APIC"}

\* Entries before the first one of length 0.
Sound(t) ==
    {e \in DOMAIN m.tables[t].entries : \A f \in 1 .. e : ~m.tables[t].entries[f].empty}

OfType(type) ==
    UNION {{<<t, e>> : e \in {f \in Sound(t) : m.tables[t].entries[f].type = type}} : t \in Madts}

Cores ==
    Cardinality({p \in OfType("LOCAL_APIC") : m.tables[p[1]].entries[p[2]].flags > 0})

LastMadt == m.tables[CHOOSE t \in Madts : \A u \in Madts : u <= t].entries

\* The walk for irq meets its override, or the end, before an entry of length 0.
Routable(irq) ==
    \E n \in 1 .. Len(LastMadt) + 1 :
        /\ n = Len(LastMadt) + 1 \/ (LastMadt[n].type = "OVERRIDE" /\ LastMadt[n].source = irq)
        /\ \A f \in 1 .. n - 1 : ~LastMadt[f].empty

Bootable ==
    /\ m.responses = Responses
    /\ m.signature /\ m.checksum # 0 /\ m.revision = 0
    /\ OfType("IO_APIC") # {}
    /\ m.apic_id < Cores /\ Cores <= MAX_CPU_COUNT
    /\ m.apic_id < m.cpus
    /\ Routable(0) /\ Routable(1)

\* One I/O APIC, and the keyboard wired as the firmware says.
KeyboardDescribed ==
    /\ \A p \in OfType("IO_APIC") : m.tables[p[1]].entries[p[2]].base = 0
    /\ m.wire < Pins
    /\ \/ \E n \in DOMAIN LastMadt :
             /\ LastMadt[n] = [type |-> "OVERRIDE", empty |-> FALSE, source |-> 1,
                               interrupt |-> m.wire]
             /\ \A f \in 1 .. n - 1 : LastMadt[f].type # "OVERRIDE" \/ LastMadt[f].source # 1
       \/ /\ m.wire = 1
          /\ \A n \in DOMAIN LastMadt : LastMadt[n].type # "OVERRIDE" \/ LastMadt[n].source # 1

-----------------------------------------------------------------------------

\* Between intr_init arming a source (init.c:104) and init_multitasking storing what
\* its handler reads (mt.c:62-75), with interrupts on since init_fb (init.c:93).
EarlyWindow ==
    {"acpi_remap_irq", "io_apic_set_entry", "init_syscall", "init_multitasking",
     "init_task_lists", "init_sleeping_queue"}

\* The boot stops on a machine the kernel cannot use, or because a timer or keyboard
\* interrupt came before the thread list was there (init.c:104-106); it never
\* stops for another reason, and no interrupt behind init_multitasking stops it.
StopsOnlyFor == dead => ~Bootable \/ (k.timer /\ pc \in EarlyWindow)

\* What the rest of the kernel takes for granted when kernel_initialize returns
\* (init.c:98-109): the stack for interrupts from user mode survived the set-up of
\* the TSS, gs names the CPU's data after the selectors were loaded, the vectors
\* have their handlers, and the keyboard's pin sends INT_KBD to this processor.
ReadyAfterBoot ==
    pc = "done" =>
        /\ k.gdtr /\ k.rsp0 = "kernel_stack" /\ k.gs
        /\ k.idt[INT_TIMER] = "pit_interrupt" /\ k.idt[INT_KBD] = "keyboard_interrupt"
        /\ k.idt[13] = "gpf_exc" /\ k.idt[14] = "pagefault_interrupt"
        /\ k.sleeping_queue /\ k.current = "MAIN_THREAD"
        /\ m.apic_id < k.gdts /\ m.apic_id < k.cpu_data /\ m.apic_id < k.cpu_count
        /\ KeyboardDescribed =>
             k.redtbl[m.wire] = [vector |-> INT_KBD, dest |-> m.apic_id]

\* After the boot the keyboard is never stuck: a byte in the controller has an
\* interrupt waiting for it, although a key pressed before its line was unmasked
\* raised an edge nobody saw (kbd_init, init.c:60-64, called behind intr_init).
KeyboardNotStuck ==
    pc = "done" /\ KeyboardDescribed /\ data # "none" => irr

\* A usable machine gets through the boot unless an early interrupt stops it: the
\* walks over the MADT end, the one that tests for an entry of length 0
\* (acpi.c:56) and the one that does not (acpi.c:153-166).
BootEnds == Bootable ~> (pc = "done" \/ dead)
=============================================================================
