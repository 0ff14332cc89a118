----------------------------- MODULE BootProofs -----------------------------
(***************************************************************************)
(* What Boot's runs check on a few machines, for every machine: the        *)
(* inductive invariant BInv and the theorems that follow from it.          *)
(***************************************************************************)
EXTENDS Boot, FiniteSetTheorems, TLAPS

-----------------------------------------------------------------------------
(* kernel_initialize from a given call on. *)

FromRtc == {"init_rtc", "done"}
FromKbd == {"kbd_init"} \cup FromRtc
FromMain == {"init_bsp_main_process"} \cup FromKbd
FromLists == {"init_sleeping_queue"} \cup FromMain
FromMt == {"init_multitasking", "init_task_lists"} \cup FromLists
FromSyscall == {"init_syscall"} \cup FromMt
FromRemap == {"acpi_remap_irq", "io_apic_set_entry"} \cup FromSyscall
FromTimer == {"local_apic_timer_init"} \cup FromRemap
FromIoApic == {"io_apic_init"} \cup FromTimer
FromIdt == {"idt_init"} \cup FromIoApic
FromSmp == {"init_smp_data"} \cup FromIdt
FromTss == {"tss_set_kernel_stack"} \cup FromSmp
FromLocal == {"init_gdt_local"} \cup FromTss
FromGdt == {"init_gdt"} \cup FromLocal
Parsing == {"acpi_parse_dt", "acpi_parse_apic"}
Early == {"verify_boot_environment", "init_fb", "init_mem", "acpi_init"}
Calls == Early \cup Parsing \cup FromGdt

FullIdt == [v \in 0 .. 255 |-> Handler(v)]
RedEntry == [vector : Nat, dest : Nat]
Globals ==
    [rflags_if : BOOLEAN, madt : Nat, table : Nat, entry : Nat, cpu_count : Nat,
     lapic : BOOLEAN, io_apic : SUBSET Nat, fadt : BOOLEAN, gdts : Nat, gdtr : BOOLEAN,
     rsp0 : {"zero", "kernel_stack"}, cpu_data : Nat, idt : {Reset.idt, FullIdt}, timer : BOOLEAN,
     irq : {0, 1}, redtbl : [0 .. Pins - 1 -> RedEntry], gs : BOOLEAN,
     lists : {"null", "raw", "made"}, sleeping_queue : BOOLEAN, current : {"null", "MAIN_THREAD"}]

Typed ==
    /\ m \in Machines /\ pc \in Calls /\ dead \in BOOLEAN /\ k \in Globals
    /\ data \in {"none", "press", "release"} /\ irr \in BOOLEAN /\ keys \in Nat

\* What the calls so far have set up.
SetUp ==
    /\ pc \in FromTss => k.gdtr /\ k.lapic /\ m.apic_id < k.gdts
    /\ pc \in FromSmp => k.rsp0 = "kernel_stack"
    /\ pc \in FromIoApic => k.idt = FullIdt
    /\ pc \in FromTimer => k.io_apic # {}
    /\ pc \in FromMt => k.gs /\ m.apic_id < k.cpu_data
    /\ pc \in FromLists => k.lists = "made"
    /\ pc \in FromMain => k.sleeping_queue /\ m.apic_id < k.cpu_count
    /\ pc \in FromKbd => k.current = "MAIN_THREAD"

\* Where the walk over the tables is; k.madt is the last MADT it has met.
Walk ==
    /\ k.lapic <=> k.madt # 0
    /\ k.lapic => k.madt \in Madts
    /\ pc \in Early => ~k.lapic /\ k.table = 1
    /\ pc \in Parsing => k.table # 0 /\ k.madt < k.table /\ \A t \in Madts : t < k.table => t <= k.madt
    /\ pc \in FromGdt /\ k.lapic => \A t \in Madts : t <= k.madt
    /\ pc = "acpi_parse_apic" => k.lapic /\ k.entry # 0 /\ \A f \in 1 .. k.entry - 1 : f \in Sound(k.madt)

\* The I/O APIC is one that the tables name.
IoApicNamed ==
    \A b \in k.io_apic : \E p \in OfType("IO_APIC") : m.tables[p[1]].entries[p[2]].base = b

\* acpi_remap_irq and io_apic_set_entry on their way to the keyboard's pin.
Override(n, irq) == LastMadt[n].type = "OVERRIDE" /\ LastMadt[n].source = irq

Routing ==
    /\ pc = "acpi_remap_irq" =>
         k.entry # 0 /\ \A n \in 1 .. k.entry - 1 : n \in DOMAIN LastMadt /\ ~Override(n, k.irq)
    /\ KeyboardDescribed =>
         /\ pc = "io_apic_set_entry" /\ k.irq = 1 => k.entry = m.wire /\ k.redtbl[m.wire].vector = INT_KBD
         /\ pc \in FromSyscall => k.redtbl[m.wire] = [vector |-> INT_KBD, dest |-> m.apic_id]
         /\ pc \in FromRtc /\ data # "none" => irr

BInv == Typed /\ SetUp /\ Walk /\ IoApicNamed /\ Routing

-----------------------------------------------------------------------------

USE MachinesAssumption, PinsAssumption

\* Vocabulary of the steps: the calls, and the values they store.
LEMMA TypedInit == Init => Typed
<1> SUFFICES ASSUME Init PROVE Typed
  OBVIOUS
<1>1. Reset.redtbl \in [0 .. Pins - 1 -> RedEntry]
  BY DEF Reset, RedEntry, Masked
<1>2. Reset.idt = [v \in {} |-> ""]
  BY DEF Reset
<1>3. Reset \in Globals
  BY <1>1, <1>2 DEF Reset, Globals
<1> QED BY <1>3 DEF Init, Typed, Calls, Early

\* The tables the firmware hands over have their types.
LEMMA TablesTyped ==
    ASSUME Typed
    PROVE  /\ m \in Machine /\ m.tables \in Seq(Table) /\ m.apic_id \in Nat
           /\ m.cpus \in Nat /\ m.wire \in Nat
           /\ \A t \in Madts : t \in 1 .. Len(m.tables) /\ m.tables[t].entries \in Seq(MadtEntry)
<1>1. m \in Machine
  BY DEF Typed
<1>2. m.tables \in Seq(Table) /\ m.apic_id \in Nat /\ m.cpus \in Nat /\ m.wire \in Nat
  BY <1>1 DEF Machine
<1>3. ASSUME NEW t \in Madts PROVE t \in 1 .. Len(m.tables) /\ m.tables[t].entries \in Seq(MadtEntry)
  <2>1. t \in 1 .. Len(m.tables) /\ m.tables[t] \in Table /\ m.tables[t].signature = "APIC"
    BY <1>2, <1>3 DEF Madts
  <2> QED BY <2>1 DEF Table
<1> QED BY <1>1, <1>2, <1>3

\* An entry of a MADT has the fields of its type.
LEMMA EntryTyped ==
    ASSUME Typed, NEW t \in Madts, NEW n \in DOMAIN m.tables[t].entries
    PROVE  LET e == m.tables[t].entries[n]
           IN /\ e \in MadtEntry /\ e.empty \in BOOLEAN
              /\ e.type \in {"LOCAL_APIC", "IO_APIC", "OVERRIDE", "OTHER"}
              /\ e.type = "IO_APIC" => e.base \in Nat
              /\ e.type = "OVERRIDE" => e.interrupt \in Nat
<1>1. m.tables[t].entries[n] \in MadtEntry
  BY TablesTyped
<1> QED BY <1>1 DEF MadtEntry

\* Every assignment to the globals keeps their types.
LEMMA Assignments ==
    ASSUME NEW r \in Globals
    PROVE  /\ [r EXCEPT !.rflags_if = TRUE] \in Globals
           /\ [r EXCEPT !.madt = r.table, !.entry = 1, !.lapic = TRUE, !.table = @ + 1] \in Globals
           /\ [r EXCEPT !.fadt = TRUE, !.table = @ + 1] \in Globals
           /\ [r EXCEPT !.table = @ + 1] \in Globals
           /\ [r EXCEPT !.entry = @ + 1] \in Globals
           /\ [r EXCEPT !.cpu_count = @ + 1] \in Globals
           /\ \A S \in SUBSET Nat : [r EXCEPT !.io_apic = S] \in Globals
           /\ [r EXCEPT !.gdts = r.cpu_count] \in Globals
           /\ [r EXCEPT !.gdtr = TRUE, !.rsp0 = "zero", !.gs = FALSE] \in Globals
           /\ [r EXCEPT !.rsp0 = "kernel_stack"] \in Globals
           /\ \A n \in Nat : [r EXCEPT !.cpu_data = n] \in Globals
           /\ [r EXCEPT !.idt = FullIdt] \in Globals
           /\ \A R \in [0 .. Pins - 1 -> RedEntry] : [r EXCEPT !.redtbl = R] \in Globals
           /\ \A n \in Nat : \A R \in [0 .. Pins - 1 -> RedEntry] :
                [r EXCEPT !.redtbl = R, !.entry = n] \in Globals
           /\ \A R \in [0 .. Pins - 1 -> RedEntry] :
                [r EXCEPT !.redtbl = R, !.irq = 1, !.entry = 1] \in Globals
           /\ [r EXCEPT !.timer = TRUE, !.irq = 0, !.entry = 1] \in Globals
           /\ [r EXCEPT !.gs = TRUE] \in Globals
           /\ [r EXCEPT !.lists = "raw"] \in Globals
           /\ [r EXCEPT !.lists = "made"] \in Globals
           /\ [r EXCEPT !.sleeping_queue = TRUE] \in Globals
           /\ [r EXCEPT !.current = "MAIN_THREAD"] \in Globals
<1>1. r.table \in Nat /\ r.entry \in Nat /\ r.cpu_count \in Nat
  BY DEF Globals
<1>2. 1 \in Nat /\ r.table + 1 \in Nat /\ r.entry + 1 \in Nat /\ r.cpu_count + 1 \in Nat
  BY <1>1
<1>3. [r EXCEPT !.rflags_if = TRUE] \in Globals
  BY <1>1, <1>2, Zenon DEF Globals
<1>4. [r EXCEPT !.madt = r.table, !.entry = 1, !.lapic = TRUE, !.table = @ + 1] \in Globals
  BY <1>1, <1>2, Zenon DEF Globals
<1>5. [r EXCEPT !.fadt = TRUE, !.table = @ + 1] \in Globals
  BY <1>1, <1>2, Zenon DEF Globals
<1>6. [r EXCEPT !.table = @ + 1] \in Globals
  BY <1>1, <1>2, Zenon DEF Globals
<1>7. [r EXCEPT !.entry = @ + 1] \in Globals
  BY <1>1, <1>2, Zenon DEF Globals
<1>8. [r EXCEPT !.cpu_count = @ + 1] \in Globals
  BY <1>1, <1>2, Zenon DEF Globals
<1>9. \A S \in SUBSET Nat : [r EXCEPT !.io_apic = S] \in Globals
  BY <1>1, <1>2, Zenon DEF Globals
<1>10. [r EXCEPT !.gdts = r.cpu_count] \in Globals
  BY <1>1, <1>2, Zenon DEF Globals
<1>11. [r EXCEPT !.gdtr = TRUE, !.rsp0 = "zero", !.gs = FALSE] \in Globals
  BY <1>1, <1>2, Zenon DEF Globals
<1>12. [r EXCEPT !.rsp0 = "kernel_stack"] \in Globals
  BY <1>1, <1>2, Zenon DEF Globals
<1>13. \A n \in Nat : [r EXCEPT !.cpu_data = n] \in Globals
  BY <1>1, <1>2, Zenon DEF Globals
<1>14. [r EXCEPT !.idt = FullIdt] \in Globals
  BY <1>1, <1>2, Zenon DEF Globals
<1>15. \A R \in [0 .. Pins - 1 -> RedEntry] : [r EXCEPT !.redtbl = R] \in Globals
  BY <1>1, <1>2, Zenon DEF Globals
<1>16. \A n \in Nat : \A R \in [0 .. Pins - 1 -> RedEntry] : [r EXCEPT !.redtbl = R, !.entry = n] \in Globals
  BY <1>1, <1>2, Zenon DEF Globals
<1>17. \A R \in [0 .. Pins - 1 -> RedEntry] : [r EXCEPT !.redtbl = R, !.irq = 1, !.entry = 1] \in Globals
  BY <1>1, <1>2, Zenon DEF Globals
<1>18. [r EXCEPT !.timer = TRUE, !.irq = 0, !.entry = 1] \in Globals
  BY <1>1, <1>2, Zenon DEF Globals
<1>19. [r EXCEPT !.gs = TRUE] \in Globals
  BY <1>1, <1>2, Zenon DEF Globals
<1>20. [r EXCEPT !.lists = "raw"] \in Globals
  BY <1>1, <1>2, Zenon DEF Globals
<1>21. [r EXCEPT !.lists = "made"] \in Globals
  BY <1>1, <1>2, Zenon DEF Globals
<1>22. [r EXCEPT !.sleeping_queue = TRUE] \in Globals
  BY <1>1, <1>2, Zenon DEF Globals
<1>23. [r EXCEPT !.current = "MAIN_THREAD"] \in Globals
  BY <1>1, <1>2, Zenon DEF Globals
<1> QED BY <1>3, <1>4, <1>5, <1>6, <1>7, <1>8, <1>9, <1>10, <1>11, <1>12, <1>13,
           <1>14, <1>15, <1>16, <1>17, <1>18, <1>19, <1>20, <1>21, <1>22, <1>23

\* A machine keeps its tables.
LEMMA SameMachine ==
    ASSUME m' = m
    PROVE  /\ Madts' = Madts /\ LastMadt' = LastMadt
           /\ \A t : Sound(t)' = Sound(t)
           /\ \A type : OfType(type)' = OfType(type)
           /\ \A n, irq : Override(n, irq)' = Override(n, irq)
           /\ KeyboardDescribed' = KeyboardDescribed
<1>1. Madts' = Madts
  BY DEF Madts
<1>2. ASSUME NEW t PROVE Sound(t)' = Sound(t)
  BY DEF Sound
<1>3. LastMadt' = LastMadt
  BY <1>1 DEF LastMadt
<1>4. ASSUME NEW type PROVE OfType(type)' = OfType(type)
  BY <1>1, <1>2 DEF OfType
<1>5. ASSUME NEW n, NEW irq PROVE Override(n, irq)' = Override(n, irq)
  BY <1>3 DEF Override
<1>6. KeyboardDescribed' = KeyboardDescribed
  BY <1>3, <1>4 DEF KeyboardDescribed
<1> QED BY <1>1, <1>2, <1>3, <1>4, <1>5, <1>6

\* A step of Call that does not fault.
Goes(next, result) ==
    /\ pc' = next
    /\ k' = result
    /\ dead' = FALSE
    /\ UNCHANGED <<m, data, irr, keys>>

\* A call that faults changes nothing but dead.
LEMMA Stopped ==
    ASSUME BInv, dead' \in BOOLEAN, UNCHANGED <<m, pc, k, data, irr, keys>>
    PROVE  BInv'
<1>1. Typed' /\ SetUp'
  BY DEF BInv, Typed, SetUp
<1>2. Walk'
  BY SameMachine DEF BInv, Walk
<1>3. IoApicNamed'
  BY SameMachine DEF BInv, IoApicNamed
<1>4. Routing'
  BY SameMachine DEF BInv, Routing, Override
<1> QED BY <1>1, <1>2, <1>3, <1>4 DEF BInv

\* A call goes on to the next one, or stops the boot and keeps the invariant.
LEMMA CallCases ==
    ASSUME BInv, NEW here, NEW STATE next, NEW STATE fault, fault \in BOOLEAN,
           NEW STATE result, Call(here, next, fault, result)
    PROVE  pc = here /\ ~dead /\ ((~fault /\ Goes(next, result)) \/ (fault /\ BInv'))
<1>1. CASE fault
  BY <1>1, Stopped DEF Call
<1>2. CASE ~fault
  BY <1>2, Zenon DEF Call, Goes
<1> QED BY <1>1, <1>2 DEF Call

\* Where the calls up to init_gdt stand in the order.
LEMMA Phases ==
    /\ \A p \in Early : p \notin Parsing /\ p \notin FromGdt
    /\ \A p \in Parsing : p \notin Early /\ p \notin FromGdt
    /\ \A p \in FromGdt : p \notin Early /\ p \notin Parsing
    /\ {"verify_boot_environment", "init_fb", "init_mem", "acpi_init"} \subseteq Early
    /\ {"acpi_parse_dt", "acpi_parse_apic"} \subseteq Parsing
    /\ "init_gdt" \in FromGdt
BY DEF Early, Parsing, FromGdt, FromLocal, FromTss, FromSmp, FromIdt, FromIoApic, FromTimer,
       FromRemap, FromSyscall, FromMt, FromLists, FromMain, FromKbd, FromRtc

\* Until init_gdt nothing is set up.
LEMMA Before ==
    ASSUME pc' \in Early \cup Parsing \cup {"init_gdt"}
    PROVE  SetUp' /\ Routing'
<1>1. pc' \notin FromTss /\ pc' # "acpi_remap_irq" /\ pc' # "io_apic_set_entry"
  BY DEF Early, Parsing, FromTss, FromSmp, FromIdt, FromIoApic, FromTimer,
         FromRemap, FromSyscall, FromMt, FromLists, FromMain, FromKbd, FromRtc
<1> QED BY <1>1 DEF SetUp, Routing, FromTss, FromSmp, FromIdt, FromIoApic, FromTimer,
            FromRemap, FromSyscall, FromMt, FromLists, FromMain, FromKbd

\* The calls before the walk over the tables.
LEMMA EarlySteps ==
    ASSUME BInv, verify_boot_environment \/ init_fb \/ init_mem \/ acpi_init
    PROVE  BInv'
<1>1. BInv' \/ (pc \in Early /\ \E next \in Early \cup {"acpi_parse_dt", "init_gdt"} :
                  Goes(next, k) \/ Goes(next, [k EXCEPT !.rflags_if = TRUE]))
  <2>1. CASE verify_boot_environment
    BY <2>1, CallCases, Phases DEF verify_boot_environment
  <2>2. CASE init_fb
    BY <2>2, CallCases, Phases DEF init_fb
  <2>3. CASE init_mem
    BY <2>3, CallCases, Phases DEF init_mem
  <2>4. CASE acpi_init
    BY <2>4, CallCases, Phases DEF acpi_init
  <2> QED BY <2>1, <2>2, <2>3, <2>4
<1>2. ASSUME NEW next \in Early \cup {"acpi_parse_dt", "init_gdt"}, pc \in Early,
             Goes(next, k) \/ Goes(next, [k EXCEPT !.rflags_if = TRUE])
      PROVE  BInv'
  <2>1. k' \in Globals /\ k'.lapic = k.lapic /\ k'.madt = k.madt
        /\ k'.table = k.table /\ k'.io_apic = k.io_apic
    <3>1. k \in Globals
      BY DEF BInv, Typed
    <3>2. [k EXCEPT !.rflags_if = TRUE] \in Globals
      BY <3>1, Assignments, Zenon
    <3> QED BY <1>2, <3>1, <3>2, ZenonT(40) DEF Goes, Globals
  <2>2. Typed'
    BY <1>2, <2>1, Phases DEF BInv, Typed, Goes, Calls
  <2>3. SetUp' /\ Routing'
    BY <1>2, Phases, Before DEF Goes
  <2>4. Walk'
    <3>1. m' = m /\ k.table = 1 /\ ~k.lapic /\ k.madt = 0 /\ pc' \in Early \cup {"acpi_parse_dt", "init_gdt"}
      BY <1>2 DEF Goes, BInv, Walk
    <3>2. \A t \in Madts : ~(t < 1)
      BY TablesTyped DEF BInv
    <3>3. pc' \notin Parsing \/ pc' = "acpi_parse_dt"
      BY <3>1, Phases
    <3> QED BY <2>1, <3>1, <3>2, <3>3, Phases, SameMachine DEF Walk
  <2>5. IoApicNamed'
    BY <1>2, <2>1, SameMachine DEF Goes, BInv, IoApicNamed
  <2> QED BY <2>2, <2>3, <2>4, <2>5 DEF BInv
<1> QED BY <1>1, <1>2

\* What a turn of acpi_parse_dt does.
LEMMA ParseDtCases ==
    ASSUME acpi_parse_dt
    PROVE  /\ m' = m /\ UNCHANGED <<data, irr, keys>> /\ dead' = FALSE
           /\ \/ ~(k.table <= Len(m.tables)) /\ pc' = "init_gdt" /\ k' = k
              \/ /\ k.table <= Len(m.tables) /\ m.tables[k.table].signature = "APIC"
                 /\ pc' = "acpi_parse_apic"
                 /\ k' = [k EXCEPT !.madt = k.table, !.entry = 1, !.lapic = TRUE, !.table = @ + 1]
              \/ /\ k.table <= Len(m.tables) /\ ~(m.tables[k.table].signature = "APIC")
                 /\ pc' = "acpi_parse_dt"
                 /\ (k' = [k EXCEPT !.fadt = TRUE, !.table = @ + 1] \/ k' = [k EXCEPT !.table = @ + 1])
<1> DEFINE more == k.table <= Len(m.tables)
           signature == m.tables[k.table].signature
<1>1. CASE ~more
  BY <1>1 DEF acpi_parse_dt, Call
<1>2. CASE more /\ signature = "APIC"
  BY <1>2 DEF acpi_parse_dt, Call
<1>3. CASE more /\ signature # "APIC" /\ signature = "FACP"
  BY <1>3 DEF acpi_parse_dt, Call
<1>4. CASE more /\ signature # "APIC" /\ signature # "FACP"
  BY <1>4 DEF acpi_parse_dt, Call
<1> QED BY <1>1, <1>2, <1>3, <1>4

\* acpi_parse_dt takes the next table, or is done with them.
LEMMA ParseDt == ASSUME BInv, acpi_parse_dt PROVE BInv'
<1> DEFINE more == k.table <= Len(m.tables)
           apic == m.tables[k.table].signature = "APIC"
           next == [k EXCEPT !.madt = k.table, !.entry = 1, !.lapic = TRUE, !.table = @ + 1]
<1>1. k \in Globals /\ m.tables \in Seq(Table) /\ Walk /\ IoApicNamed /\ pc = "acpi_parse_dt"
  BY TablesTyped DEF BInv, Typed, acpi_parse_dt, Call
<1>2. /\ m' = m /\ UNCHANGED <<data, irr, keys>> /\ dead' = FALSE
      /\ \/ ~more /\ pc' = "init_gdt" /\ k' = k
         \/ more /\ apic /\ pc' = "acpi_parse_apic" /\ k' = next
         \/ more /\ ~apic /\ pc' = "acpi_parse_dt"
            /\ (k' = [k EXCEPT !.fadt = TRUE, !.table = @ + 1] \/ k' = [k EXCEPT !.table = @ + 1])
  BY ParseDtCases
<1>3. k' \in Globals
  BY <1>1, <1>2, Assignments
<1>4. /\ k.table \in Nat /\ k.table # 0 /\ k.madt \in Nat /\ k.madt < k.table
      /\ \A t \in Madts : t \in 1 .. Len(m.tables) /\ (t < k.table => t <= k.madt)
  <2>1. k.table # 0 /\ k.madt < k.table /\ \A t \in Madts : t < k.table => t <= k.madt
    BY <1>1, Phases DEF Walk
  <2> QED BY <1>1, <2>1, TablesTyped DEF BInv, Globals
<1>5. Typed' /\ SetUp' /\ Routing'
  BY <1>2, <1>3, Phases, Before DEF BInv, Typed, Calls
<1>6. k'.io_apic = k.io_apic
  BY <1>1, <1>2 DEF Globals
<1>7. IoApicNamed'
  BY <1>1, <1>2, <1>6, SameMachine DEF IoApicNamed
<1>8. Walk'
  <2>1. CASE ~more /\ pc' = "init_gdt" /\ k' = k
    BY <1>1, <1>2, <1>4, <2>1, Phases, SameMachine DEF Walk
  <2>2. CASE more /\ apic /\ pc' = "acpi_parse_apic" /\ k' = next
    <3>1. k'.madt = k.table /\ k'.entry = 1 /\ k'.lapic /\ k'.table = k.table + 1
      BY <1>1, <2>2 DEF Globals
    <3>2. k.table \in Madts
      BY <1>1, <1>4, <2>2 DEF Madts
    <3> QED BY <1>2, <1>4, <2>2, <3>1, <3>2, Phases, SameMachine DEF Walk
  <2>3. CASE more /\ ~apic /\ pc' = "acpi_parse_dt"
    <3>1. k'.madt = k.madt /\ k'.lapic = k.lapic /\ k'.table = k.table + 1
      BY <1>1, <1>2, <2>3 DEF Globals
    <3>2. k.table \notin Madts
      BY <2>3 DEF Madts
    <3> QED BY <1>1, <1>2, <1>4, <2>3, <3>1, <3>2, Phases, SameMachine DEF Walk
  <2> QED BY <1>2, <2>1, <2>2, <2>3
<1> QED BY <1>5, <1>7, <1>8 DEF BInv

\* acpi_parse_apic registers an entry behind sound ones, or is done with the table.
LEMMA ParseApic == ASSUME BInv, acpi_parse_apic PROVE BInv'
<1> PICK list : list = m.tables[k.madt].entries
  OBVIOUS
<1> PICK e : e = list[k.entry]
  OBVIOUS
<1> PICK r : r = Registered(e)
  OBVIOUS
<1> DEFINE more == k.entry <= Len(list) /\ ~e.empty
<1>1. k \in Globals /\ Walk /\ IoApicNamed /\ pc = "acpi_parse_apic" /\ k.madt \in Madts
      /\ k.entry \in Nat \ {0} /\ list \in Seq(MadtEntry)
  BY TablesTyped DEF BInv, Typed, acpi_parse_apic, Call, Walk, Globals
<1>2. \/ BInv'
      \/ ~more /\ Goes("acpi_parse_dt", k)
      \/ more /\ Goes("acpi_parse_apic", [r EXCEPT !.entry = @ + 1])
  BY CallCases, ZenonT(40) DEF acpi_parse_apic, Entries
<1>3. more => k.entry \in Sound(k.madt) /\ e.type \in {"LOCAL_APIC", "IO_APIC", "OVERRIDE", "OTHER"}
              /\ (e.type = "IO_APIC" => e.base \in Nat)
  <2>1. ASSUME more PROVE k.entry \in DOMAIN list
    BY <1>1, <2>1
  <2>2. ASSUME more PROVE \A f \in 1 .. k.entry : ~list[f].empty
    <3>1. \A f \in 1 .. k.entry - 1 : f \in Sound(k.madt)
      BY <1>1 DEF Walk
    <3>2. ASSUME NEW f \in Sound(k.madt) PROVE f \in Nat \ {0} /\ \A g \in 1 .. f : ~list[g].empty
      <4>1. f \in DOMAIN list /\ \A g \in 1 .. f : ~list[g].empty
        BY Zenon DEF Sound
      <4>2. DOMAIN list = 1 .. Len(list)
        BY <1>1
      <4> QED BY <4>1, <4>2
    <3>3. ASSUME NEW f \in 1 .. k.entry PROVE ~list[f].empty
      <4>1. CASE f = k.entry
        BY <2>2, <4>1
      <4>2. CASE f # k.entry
        <5>1. f \in 1 .. k.entry - 1 /\ f \in 1 .. f
          <6>1. k.entry \in Nat
            BY <1>1
          <6> QED BY ONLY <4>2, <6>1, f \in 1 .. k.entry
        <5> QED BY <3>1, <3>2, <5>1
      <4> QED BY <4>1, <4>2
    <3> QED BY <3>3
  <2> QED BY <1>1, <2>1, <2>2, EntryTyped DEF Sound, BInv
<1>4. more => r \in Globals /\ r.madt = k.madt /\ r.lapic = k.lapic /\ r.table = k.table /\ r.entry = k.entry
              /\ r.io_apic = IF e.type = "IO_APIC" THEN {e.base} ELSE k.io_apic
  <2>1. more => r \in Globals
    <3>1. CASE e.type = "LOCAL_APIC" /\ e.flags > 0
      BY <1>1, <3>1, Assignments, Zenon DEF Registered
    <3>2. CASE e.type = "IO_APIC"
      BY <1>1, <1>3, <3>2, Assignments, ZenonT(40) DEF Registered
    <3> QED BY <1>1, <3>1, <3>2 DEF Registered
  <2> QED BY <1>1, <2>1, ZenonT(40) DEF Registered, Globals
<1>5. ASSUME ~more, Goes("acpi_parse_dt", k) PROVE BInv'
  <2>1. Typed' /\ SetUp' /\ Routing'
    BY <1>5, Phases, Before DEF Goes, BInv, Typed, Calls
  <2>2. m' = m /\ k' = k /\ pc' = "acpi_parse_dt"
    BY <1>5 DEF Goes
  <2>3. Walk'
    BY <1>1, <2>2, Phases, SameMachine DEF Walk
  <2>4. IoApicNamed'
    <3>1. k'.io_apic = k.io_apic /\ OfType("IO_APIC")' = OfType("IO_APIC")
      BY <2>2, SameMachine, Zenon
    <3>2. \A b \in k.io_apic : \E p \in OfType("IO_APIC") : m.tables[p[1]].entries[p[2]].base = b
      BY <1>1, Zenon DEF IoApicNamed
    <3> QED BY <2>2, <3>1, <3>2, Zenon DEF IoApicNamed
  <2> QED BY <2>1, <2>3, <2>4 DEF BInv
<1>6. ASSUME more, Goes("acpi_parse_apic", [r EXCEPT !.entry = @ + 1]) PROVE BInv'
  <2>1. k' \in Globals
    BY <1>4, <1>6, Assignments, ZenonT(40) DEF Goes
  <2>2. k'.madt = k.madt /\ k'.lapic = k.lapic /\ k'.table = k.table /\ k'.entry = k.entry + 1
        /\ k'.io_apic = r.io_apic
    BY <1>4, <1>6, ZenonT(40) DEF Goes, Globals
  <2>3. Typed' /\ SetUp' /\ Routing'
    BY <1>6, <2>1, Phases, Before, ZenonT(40) DEF Goes, BInv, Typed, Calls
  <2>4. Walk'
    <3>1. k.entry \in Sound(k.madt)
      BY <1>3, <1>6
    <3>2. \A f \in 1 .. k.entry : f \in Sound(k.madt)
      BY <1>1, <3>1 DEF Walk
    <3>3. k.entry + 1 \in Nat \ {0} /\ (k.entry + 1) - 1 = k.entry
      <4>1. k.entry \in Nat
        BY <1>1
      <4> QED BY ONLY <4>1
    <3> HIDE DEF more
    <3>4. m' = m /\ pc' = "acpi_parse_apic"
      BY <1>6 DEF Goes
    <3>5. /\ k.lapic /\ k.madt # 0 /\ k.madt \in Madts /\ k.table # 0 /\ k.madt < k.table
          /\ \A t \in Madts : t < k.table => t <= k.madt
      BY <1>1, Phases DEF Walk
    <3>6. Madts' = Madts /\ \A t : Sound(t)' = Sound(t)
      BY <3>4, SameMachine, Zenon
    <3>7. pc' \notin Early /\ pc' \notin FromGdt
      BY <3>4, Phases, Zenon
    <3>8. k'.entry - 1 = k.entry /\ k'.entry # 0
      BY ONLY <2>2, <3>3
    <3>9. (\A f \in 1 .. k.entry - 1 : f \in Sound(k.madt))'
      <4>1. Sound(k.madt)' = Sound(k.madt)
        BY <2>2, <3>6, Zenon
      <4> QED BY <3>2, <3>8, <4>1, Zenon
    <3> QED BY <2>2, <3>5, <3>6, <3>7, <3>8, <3>9, Zenon DEF Walk
  <2>5. IoApicNamed'
    <3>1. CASE e.type = "IO_APIC"
      <4>1. <<k.madt, k.entry>> \in OfType("IO_APIC")
        <5>1. k.entry \in {f \in Sound(k.madt) : m.tables[k.madt].entries[f].type = "IO_APIC"}
          BY <1>3, <1>6, <3>1, ZenonT(40)
        <5> QED BY <1>1, <5>1, SMTT(40) DEF OfType
      <4>2. \E p \in OfType("IO_APIC") : m.tables[p[1]].entries[p[2]].base = e.base
        <5>1. PICK p : p = <<k.madt, k.entry>>
          BY Zenon
        <5>2. p \in OfType("IO_APIC")
          BY ONLY <4>1, <5>1, Zenon
        <5>3. p[1] = k.madt /\ p[2] = k.entry
          BY ONLY <5>1
        <5>4. m.tables[k.madt].entries[k.entry] = e
          OBVIOUS
        <5>5. m.tables[p[1]].entries[p[2]].base = e.base
          BY ONLY <5>3, <5>4
        <5> QED BY ONLY <5>2, <5>5, Zenon
      <4>3. k'.io_apic = {e.base}
        BY <1>4, <1>6, <2>2, <3>1, ZenonT(40)
      <4> QED BY <1>6, <4>2, <4>3, SameMachine DEF Goes, IoApicNamed
    <3>2. CASE e.type # "IO_APIC"
      <4>1. k'.io_apic = k.io_apic
        BY <1>4, <1>6, <2>2, <3>2
      <4> QED BY <1>1, <1>6, <4>1, SameMachine, ZenonT(40) DEF Goes, IoApicNamed
    <3> QED BY <3>1, <3>2, SMTT(40)
  <2> QED BY <2>3, <2>4, <2>5 DEF BInv
<1> QED BY <1>2, <1>5, <1>6

\* Behind the walk over the tables nothing changes what it found.
LEMMA Later ==
    ASSUME BInv, m' = m, pc \in FromGdt, pc' \in FromGdt, k' \in Globals, dead' \in BOOLEAN,
           data' \in {"none", "press", "release"}, irr' \in BOOLEAN, keys' \in Nat,
           k'.madt = k.madt, k'.lapic = k.lapic, k'.io_apic = k.io_apic
    PROVE  Typed' /\ Walk' /\ IoApicNamed'
<1>1. Typed'
  BY DEF BInv, Typed, Calls
<1>2. Walk'
  BY Phases, SameMachine DEF BInv, Walk
<1>3. IoApicNamed'
  BY SameMachine DEF BInv, IoApicNamed
<1> QED BY <1>1, <1>2, <1>3

\* A call behind the walk keeps the invariant when it keeps SetUp and Routing.
LEMMA Advance ==
    ASSUME BInv, pc \in FromGdt, NEW next \in FromGdt, NEW STATE result, result \in Globals, Goes(next, result),
           result.madt = k.madt, result.lapic = k.lapic, result.io_apic = k.io_apic, SetUp', Routing'
    PROVE  BInv'
<1>1. k' = result /\ pc' = next /\ dead' = FALSE /\ UNCHANGED <<m, data, irr, keys>>
  BY DEF Goes
<1>2. k' \in Globals /\ k'.madt = k.madt /\ k'.lapic = k.lapic /\ k'.io_apic = k.io_apic
  BY <1>1
<1>3. data' \in {"none", "press", "release"} /\ irr' \in BOOLEAN /\ keys' \in Nat /\ dead' \in BOOLEAN
  BY <1>1 DEF BInv, Typed
<1>4. Typed' /\ Walk' /\ IoApicNamed'
  BY <1>1, <1>2, <1>3, Later
<1> QED BY <1>4 DEF BInv

\* init_gdt to idt_init: each call sets up its own table.
LEMMA TableSteps ==
    ASSUME BInv, init_gdt \/ init_gdt_local \/ tss_set_kernel_stack \/ init_smp_data \/ idt_init
    PROVE  BInv'
<1> USE DEF FromGdt, FromLocal, FromTss, FromSmp, FromIdt, FromIoApic, FromTimer,
        FromRemap, FromSyscall, FromMt, FromLists, FromMain, FromKbd, FromRtc
<1>1. k \in Globals /\ SetUp /\ m.cpus \in Nat /\ m.apic_id \in Nat
  BY TablesTyped DEF BInv, Typed
<1>0. BadIndex(k.gdts) \in BOOLEAN
  BY DEF BadIndex
<1>2. CASE init_gdt
  <2>1. pc = "init_gdt" /\ (BInv' \/ (Goes("init_gdt_local", [k EXCEPT !.gdts = k.cpu_count])))
    BY <1>2, CallCases DEF init_gdt
  <2>2. SUFFICES ASSUME Goes("init_gdt_local", [k EXCEPT !.gdts = k.cpu_count]) PROVE BInv'
    BY <2>1
  <2>3. [k EXCEPT !.gdts = k.cpu_count] \in Globals
    BY <1>1, Assignments
  <2>4. SetUp'
    BY <1>1, <2>1, <2>2 DEF Goes, SetUp, Globals
  <2>5. Routing'
    BY <2>2 DEF Goes, Routing
  <2> QED BY <1>1, <2>1, <2>2, <2>3, <2>4, <2>5, Advance DEF Globals
<1>3. CASE init_gdt_local
  <2>1. pc = "init_gdt_local"
        /\ (BInv' \/ (~BadIndex(k.gdts) /\ Goes("tss_set_kernel_stack", [k EXCEPT !.gdtr = TRUE, !.rsp0 = "zero", !.gs = FALSE])))
    BY <1>0, <1>3, CallCases DEF init_gdt_local
  <2>2. SUFFICES ASSUME ~BadIndex(k.gdts),
                      Goes("tss_set_kernel_stack", [k EXCEPT !.gdtr = TRUE, !.rsp0 = "zero", !.gs = FALSE])
               PROVE  BInv'
    BY <2>1
  <2>3. [k EXCEPT !.gdtr = TRUE, !.rsp0 = "zero", !.gs = FALSE] \in Globals
    BY <1>1, Assignments
  <2>4. SetUp'
    <3>1. k.lapic /\ m.apic_id < k.gdts
      BY <1>1, <2>2 DEF BadIndex, Globals
    <3>2. k'.gdtr /\ k'.lapic /\ k'.gdts = k.gdts /\ m' = m /\ pc' = "tss_set_kernel_stack"
      BY <1>1, <2>2, <3>1 DEF Goes, Globals
    <3> QED BY <3>1, <3>2 DEF SetUp
  <2>5. Routing'
    BY <2>2 DEF Goes, Routing
  <2> QED BY <1>1, <2>1, <2>2, <2>3, <2>4, <2>5, Advance DEF Globals
<1>4. CASE tss_set_kernel_stack
  <2>1. pc = "tss_set_kernel_stack"
        /\ (BInv' \/ (Goes("init_smp_data", [k EXCEPT !.rsp0 = "kernel_stack"])))
    BY <1>0, <1>4, CallCases DEF tss_set_kernel_stack
  <2>2. SUFFICES ASSUME Goes("init_smp_data", [k EXCEPT !.rsp0 = "kernel_stack"]) PROVE BInv'
    BY <2>1
  <2>3. [k EXCEPT !.rsp0 = "kernel_stack"] \in Globals
    BY <1>1, Assignments
  <2>4. SetUp'
    BY <1>1, <2>1, <2>2 DEF Goes, SetUp, Globals
  <2>5. Routing'
    BY <2>2 DEF Goes, Routing
  <2> QED BY <1>1, <2>1, <2>2, <2>3, <2>4, <2>5, Advance DEF Globals
<1>5. CASE init_smp_data
  <2>1. pc = "init_smp_data" /\ (BInv' \/ (Goes("idt_init", [k EXCEPT !.cpu_data = m.cpus])))
    BY <1>5, CallCases DEF init_smp_data
  <2>2. SUFFICES ASSUME Goes("idt_init", [k EXCEPT !.cpu_data = m.cpus]) PROVE BInv'
    BY <2>1
  <2>3. [k EXCEPT !.cpu_data = m.cpus] \in Globals
    BY <1>1, Assignments
  <2>4. SetUp'
    BY <1>1, <2>1, <2>2 DEF Goes, SetUp, Globals
  <2>5. Routing'
    BY <2>2 DEF Goes, Routing
  <2> QED BY <1>1, <2>1, <2>2, <2>3, <2>4, <2>5, Advance, ZenonT(40) DEF Globals
<1>6. CASE idt_init
  <2>1. pc = "idt_init" /\ (BInv' \/ (Goes("io_apic_init", [k EXCEPT !.idt = FullIdt])))
    BY <1>6, CallCases, ZenonT(40) DEF idt_init, FullIdt
  <2>2. SUFFICES ASSUME Goes("io_apic_init", [k EXCEPT !.idt = FullIdt]) PROVE BInv'
    BY <2>1
  <2>3. [k EXCEPT !.idt = FullIdt] \in Globals
    BY <1>1, Assignments
  <2>4. SetUp'
    BY <1>1, <2>1, <2>2 DEF Goes, SetUp, Globals
  <2>5. Routing'
    BY <2>2 DEF Goes, Routing
  <2> QED BY <1>1, <2>1, <2>2, <2>3, <2>4, <2>5, Advance DEF Globals
<1> QED BY <1>2, <1>3, <1>4, <1>5, <1>6

\* From init_gdt_local on, acpi_remap_irq reads the last MADT.
LEMMA LastIsMadt ==
    ASSUME BInv, pc \in FromGdt, k.lapic
    PROVE  Entries = LastMadt /\ LastMadt \in Seq(MadtEntry)
<1>1. k.madt \in Madts /\ \A t \in Madts : t <= k.madt
  BY DEF BInv, Walk
<1>2. \A t \in Madts : t \in Nat /\ m.tables[t].entries \in Seq(MadtEntry)
  BY TablesTyped DEF BInv
<1>3. ASSUME NEW t \in Madts, \A u \in Madts : u <= t PROVE t = k.madt
  BY <1>1, <1>2, <1>3
<1>4. k.madt = CHOOSE t \in Madts : \A u \in Madts : u <= t
  BY <1>1, <1>3
<1> QED BY <1>1, <1>2, <1>4 DEF Entries, LastMadt

\* The first override of the keyboard's line names its pin; without one the pin
\* is the line.
LEMMA FirstOverride ==
    ASSUME KeyboardDescribed, LastMadt \in Seq(MadtEntry), NEW n \in Nat \ {0},
           \A f \in 1 .. n - 1 : f \in DOMAIN LastMadt /\ ~Override(f, 1)
    PROVE  /\ n \in DOMAIN LastMadt /\ Override(n, 1) => LastMadt[n].interrupt = m.wire
           /\ n > Len(LastMadt) => m.wire = 1
<1> DEFINE Here(i) == /\ LastMadt[i] = [type |-> "OVERRIDE", empty |-> FALSE, source |-> 1,
                                        interrupt |-> m.wire]
                      /\ \A f \in 1 .. i - 1 : LastMadt[f].type # "OVERRIDE" \/ LastMadt[f].source # 1
<1>1. CASE \E i \in DOMAIN LastMadt : Here(i)
  <2>1. PICK i \in DOMAIN LastMadt : Here(i)
    BY <1>1
  <2>2. i \in 1 .. Len(LastMadt) /\ Override(i, 1) /\ LastMadt[i].interrupt = m.wire
    BY <2>1 DEF Override
  <2>3. \A f \in 1 .. i - 1 : ~Override(f, 1)
    BY <2>1 DEF Override
  <2>4. ~(i < n)
    BY <2>2
  <2>5. n <= Len(LastMadt)
    BY <2>2, <2>4
  <2>6. n \in DOMAIN LastMadt /\ Override(n, 1) => n = i
    BY <2>2, <2>3, <2>4
  <2> HIDE DEF Here
  <2> QED BY <2>2, <2>5, <2>6
<1>2. CASE m.wire = 1 /\ \A i \in DOMAIN LastMadt : LastMadt[i].type # "OVERRIDE" \/ LastMadt[i].source # 1
  BY <1>2 DEF Override
<1> QED BY <1>1, <1>2 DEF KeyboardDescribed

\* What io_apic_init and io_apic_set_entry write stays a redirection table.
LEMMA Redirections ==
    ASSUME k \in Globals, m.apic_id \in Nat, NEW STATE pin, NEW STATE vector, vector \in Nat, NEW count
    PROVE  /\ [p \in DOMAIN k.redtbl |-> IF p < count THEN Masked ELSE k.redtbl[p]]
                 \in [0 .. Pins - 1 -> RedEntry]
           /\ [p \in DOMAIN k.redtbl |-> IF p = pin THEN [k.redtbl[p] EXCEPT !.vector = vector]
                                         ELSE k.redtbl[p]] \in [0 .. Pins - 1 -> RedEntry]
<1>1. k.redtbl \in [0 .. Pins - 1 -> RedEntry] /\ DOMAIN k.redtbl = 0 .. Pins - 1 /\ Masked \in RedEntry
  BY DEF Globals, Masked, RedEntry
<1>2. \A x \in RedEntry : [x EXCEPT !.vector = vector] \in RedEntry
  BY ZenonT(60) DEF RedEntry
<1> QED BY <1>1, <1>2

\* local_apic_init to the start of acpi_remap_irq.
LEMMA ApicSteps == ASSUME BInv, io_apic_init \/ local_apic_timer_init PROVE BInv'
<1> USE DEF FromGdt, FromLocal, FromTss, FromSmp, FromIdt, FromIoApic, FromTimer,
        FromRemap, FromSyscall, FromMt, FromLists, FromMain, FromKbd, FromRtc
<1>1. k \in Globals /\ SetUp
  BY DEF BInv, Typed
<1>2. CASE io_apic_init
  <2> DEFINE result(count) ==
          [k EXCEPT !.redtbl = [pin \in DOMAIN @ |-> IF pin < count THEN Masked ELSE @[pin]]]
  <2>1. PICK count \in 1 .. Pins : Call("io_apic_init", "local_apic_timer_init", k.io_apic = {}, result(count))
    BY <1>2 DEF io_apic_init
  <2>2. pc = "io_apic_init" /\ (BInv' \/ (k.io_apic # {} /\ Goes("local_apic_timer_init", result(count))))
    BY <2>1, CallCases
  <2>3. SUFFICES ASSUME k.io_apic # {}, Goes("local_apic_timer_init", result(count)) PROVE BInv'
    BY <2>2
  <2>4. result(count) \in Globals
    <3>1. m.apic_id \in Nat /\ 0 \in Nat
      BY TablesTyped DEF BInv
    <3>2. [p \in DOMAIN k.redtbl |-> IF p < count THEN Masked ELSE k.redtbl[p]]
             \in [0 .. Pins - 1 -> RedEntry]
      BY <1>1, <3>1, Redirections, ZenonT(40)
    <3> QED BY <1>1, <3>2, Assignments
  <2>5. SetUp'
    BY <1>1, <2>2, <2>3 DEF Goes, SetUp, Globals
  <2>6. Routing'
    BY <2>3 DEF Goes, Routing
  <2>7. result(count).madt = k.madt /\ result(count).lapic = k.lapic /\ result(count).io_apic = k.io_apic
    BY <1>1 DEF Globals
  <2> HIDE DEF result
  <2> QED BY <2>2, <2>3, <2>4, <2>5, <2>6, <2>7, Advance
<1>3. CASE local_apic_timer_init
  <2> DEFINE result == [k EXCEPT !.timer = TRUE, !.irq = 0, !.entry = 1]
  <2>1. pc = "local_apic_timer_init" /\ (BInv' \/ Goes("acpi_remap_irq", result))
    BY <1>3, CallCases DEF local_apic_timer_init
  <2>2. SUFFICES ASSUME Goes("acpi_remap_irq", result) PROVE BInv'
    BY <2>1
  <2>3. result \in Globals
    BY <1>1, Assignments
  <2>4. SetUp'
    BY <1>1, <2>1, <2>2 DEF Goes, SetUp, Globals
  <2>5. k'.entry = 1 /\ pc' = "acpi_remap_irq"
    BY <1>1, <2>2 DEF Goes, Globals
  <2>6. Routing'
    BY <2>5 DEF Routing
  <2>7. result.madt = k.madt /\ result.lapic = k.lapic /\ result.io_apic = k.io_apic
    BY <1>1 DEF Globals
  <2> HIDE DEF result
  <2> QED BY <2>1, <2>2, <2>3, <2>4, <2>6, <2>7, Advance
<1> QED BY <1>2, <1>3

\* acpi_remap_irq looks at an entry, or has found the pin and writes its vector.
LEMMA RemapStep == ASSUME BInv, acpi_remap_irq PROVE BInv'
<1> USE DEF FromGdt, FromLocal, FromTss, FromSmp, FromIdt, FromIoApic, FromTimer,
        FromRemap, FromSyscall, FromMt, FromLists, FromMain, FromKbd, FromRtc
<1>1. k \in Globals /\ SetUp /\ m.apic_id \in Nat /\ m.wire \in Nat /\ pc = "acpi_remap_irq" /\ m' = m
  BY TablesTyped DEF BInv, Typed, acpi_remap_irq, Call
<1>2. /\ k.entry \in Nat \ {0} /\ k.irq \in {0, 1} /\ k.lapic
      /\ \A n \in 1 .. k.entry - 1 : n \in DOMAIN LastMadt /\ ~Override(n, k.irq)
  BY <1>1 DEF BInv, Routing, SetUp, Globals
<1>3. Entries = LastMadt /\ LastMadt \in Seq(MadtEntry)
  BY <1>1, <1>2, LastIsMadt
<1> DEFINE vector == IF k.irq = 0 THEN INT_TIMER ELSE INT_KBD
           on == [k EXCEPT !.entry = @ + 1]
<1>4. \/ /\ k.entry <= Len(LastMadt) /\ Override(k.entry, k.irq)
         /\ Goes("io_apic_set_entry", SetLow(LastMadt[k.entry].interrupt, vector))
      \/ k.entry > Len(LastMadt) /\ Goes("io_apic_set_entry", SetLow(k.irq, vector))
      \/ /\ k.entry <= Len(LastMadt) /\ ~Override(k.entry, k.irq)
         /\ Goes("acpi_remap_irq", on) \/ Goes("acpi_remap_irq", k)
  <2>1. Goes(IF k.entry <= Len(LastMadt) /\ ~Override(k.entry, k.irq)
             THEN "acpi_remap_irq" ELSE "io_apic_set_entry",
             CASE k.entry <= Len(LastMadt) /\ Override(k.entry, k.irq) ->
                     SetLow(LastMadt[k.entry].interrupt, vector)
               [] ~(k.entry <= Len(LastMadt)) -> SetLow(k.irq, vector)
               [] OTHER -> [k EXCEPT !.entry = IF LastMadt[k.entry].empty THEN @ ELSE @ + 1])
    BY <1>3 DEF acpi_remap_irq, Call, Goes, Override
  <2>2. [k EXCEPT !.entry = k.entry] = k
    BY <1>1 DEF Globals
  <2> QED BY <1>1, <1>2, <1>3, <2>1, <2>2
<1>5. vector \in Nat /\ (k.irq = 1 => vector = INT_KBD)
  BY <1>2 DEF INT_TIMER, INT_KBD
<1> HIDE DEF vector
<1>6. ASSUME NEW pin \in Nat, Goes("io_apic_set_entry", SetLow(pin, vector)),
             KeyboardDescribed /\ k.irq = 1 => pin = m.wire
      PROVE  BInv'
  <2> DEFINE low == [p \in DOMAIN k.redtbl |-> IF p = pin THEN [k.redtbl[p] EXCEPT !.vector = vector]
                                               ELSE k.redtbl[p]]
             result == [k EXCEPT !.redtbl = low, !.entry = pin]
  <2>1. Goes("io_apic_set_entry", result)
    BY <1>6 DEF SetLow
  <2>2. low \in [0 .. Pins - 1 -> RedEntry]
    BY <1>1, <1>5, Redirections, ZenonT(40)
  <2>3. \A p \in 0 .. Pins - 1 : p = pin => low[p].vector = vector
    BY <1>1, SMTT(40) DEF Globals, RedEntry
  <2> HIDE DEF low
  <2>4. result \in Globals
    BY <1>1, <2>2, Assignments
  <2>5. /\ k'.redtbl = low /\ k'.entry = pin /\ k'.irq = k.irq /\ pc' = "io_apic_set_entry"
        /\ m' = m
    BY <1>1, <2>1 DEF Goes, Globals
  <2>6. SetUp'
    BY <1>1, <2>1 DEF Goes, SetUp, Globals
  <2>7. Routing'
    <3>1. ASSUME KeyboardDescribed, k.irq = 1 PROVE pin = m.wire /\ low[m.wire].vector = INT_KBD
      <4>1. m.wire \in 0 .. Pins - 1
        BY <1>1, <3>1 DEF KeyboardDescribed
      <4> QED BY <1>5, <1>6, <2>3, <3>1, <4>1
    <3> QED BY <2>5, <3>1, SameMachine DEF Routing
  <2>8. result.madt = k.madt /\ result.lapic = k.lapic /\ result.io_apic = k.io_apic
    BY <1>1 DEF Globals
  <2> HIDE DEF result
  <2> QED BY <1>1, <2>1, <2>4, <2>6, <2>7, <2>8, Advance
<1>7. CASE /\ k.entry <= Len(LastMadt) /\ Override(k.entry, k.irq)
           /\ Goes("io_apic_set_entry", SetLow(LastMadt[k.entry].interrupt, vector))
  <2>1. k.entry \in DOMAIN LastMadt
    BY <1>2, <1>3, <1>7, SMTT(40)
  <2>2. LastMadt[k.entry].interrupt \in Nat
    BY <1>1, <1>2, <1>3, <1>7, <2>1, EntryTyped DEF BInv, Walk, Entries, Override
  <2>3. KeyboardDescribed /\ k.irq = 1 => LastMadt[k.entry].interrupt = m.wire
    BY <1>2, <1>3, <1>7, <2>1, FirstOverride
  <2> QED BY <1>6, <1>7, <2>2, <2>3
<1>8. CASE k.entry > Len(LastMadt) /\ Goes("io_apic_set_entry", SetLow(k.irq, vector))
  <2>1. KeyboardDescribed /\ k.irq = 1 => k.irq = m.wire
    BY <1>2, <1>3, <1>8, FirstOverride
  <2> QED BY <1>2, <1>6, <1>8, <2>1
<1>9. CASE /\ k.entry <= Len(LastMadt) /\ ~Override(k.entry, k.irq)
           /\ Goes("acpi_remap_irq", on) \/ Goes("acpi_remap_irq", k)
  <2>1. PICK result \in {on, k} : Goes("acpi_remap_irq", result)
    BY <1>9
  <2>2. result \in Globals
    <3>1. on \in Globals
      BY <1>1, Assignments, Zenon
    <3> QED BY <1>1, <2>1, <3>1, Zenon
  <2>3. result.madt = k.madt /\ result.lapic = k.lapic /\ result.io_apic = k.io_apic
    BY <1>1 DEF Globals
  <2>4. SetUp'
    <3>1. /\ k'.gdtr = k.gdtr /\ k'.lapic = k.lapic /\ k'.gdts = k.gdts /\ k'.rsp0 = k.rsp0
          /\ k'.idt = k.idt /\ k'.io_apic = k.io_apic /\ pc' = pc
      BY <1>1, <2>1 DEF Goes, Globals
    <3> QED BY <1>1, <3>1 DEF SetUp
  <2>5. k'.entry \in {k.entry, k.entry + 1} /\ k'.irq = k.irq /\ pc' = "acpi_remap_irq"
    BY <1>1, <2>1 DEF Goes, Globals
  <2>6. \A n \in 1 .. k.entry : n \in DOMAIN LastMadt /\ ~Override(n, k.irq)
    BY <1>2, <1>3, <1>9
  <2>7. k'.entry # 0 /\ \A n \in 1 .. k'.entry - 1 : n \in 1 .. k.entry
    BY <1>2, <2>5
  <2>8. Routing'
    BY <1>1, <2>5, <2>6, <2>7, SameMachine DEF Routing
  <2> QED BY <1>1, <2>1, <2>2, <2>3, <2>4, <2>8, Advance
<1> QED BY <1>4, <1>7, <1>8, <1>9

\* io_apic_set_entry's second write ends the walk for one line.
LEMMA SetEntryStep == ASSUME BInv, io_apic_set_entry PROVE BInv'
<1> USE DEF FromGdt, FromLocal, FromTss, FromSmp, FromIdt, FromIoApic, FromTimer,
        FromRemap, FromSyscall, FromMt, FromLists, FromMain, FromKbd, FromRtc
<1>1. k \in Globals /\ SetUp /\ m.apic_id \in Nat /\ m.wire \in Nat
      /\ pc = "io_apic_set_entry" /\ k.irq \in {0, 1}
  BY TablesTyped, SMTT(40) DEF BInv, Typed, io_apic_set_entry, Call, Globals
<1> DEFINE dest == IF k.irq = 0 THEN 0 ELSE m.apic_id
           high == [p \in DOMAIN k.redtbl |-> IF p = k.entry THEN [k.redtbl[p] EXCEPT !.dest = dest]
                                              ELSE k.redtbl[p]]
           result == [k EXCEPT !.redtbl = high, !.irq = 1, !.entry = 1]
<1>2. PICK next \in {"acpi_remap_irq", "init_syscall"} :
         Goes(next, result) /\ (next = "init_syscall" => k.irq = 1)
  BY <1>1 DEF io_apic_set_entry, Call, Goes
<1>3. dest \in Nat /\ (k.irq = 1 => dest = m.apic_id)
  BY <1>1
<1> HIDE DEF dest
<1>4. high \in [0 .. Pins - 1 -> RedEntry]
  <2>1. k.redtbl \in [0 .. Pins - 1 -> RedEntry]
    BY <1>1 DEF Globals
  <2>2. \A x \in RedEntry : [x EXCEPT !.dest = dest] \in RedEntry
    BY <1>3, ZenonT(60) DEF RedEntry
  <2> QED BY <2>1, <2>2
<1>5. \A p \in 0 .. Pins - 1 : p = k.entry /\ k.redtbl[p].vector = INT_KBD =>
                                 high[p] = [vector |-> INT_KBD, dest |-> dest]
  BY <1>1, SMTT(40) DEF Globals, RedEntry
<1> HIDE DEF high
<1>6. result \in Globals
  BY <1>1, <1>4, Assignments
<1>7. k'.redtbl = high /\ k'.entry = 1 /\ pc' = next /\ m' = m
  BY <1>1, <1>2 DEF Goes, Globals
<1>8. SetUp'
  BY <1>1, <1>2 DEF Goes, SetUp, Globals
<1>9. Routing'
  <2>1. ASSUME KeyboardDescribed, next = "init_syscall"
        PROVE  high[m.wire] = [vector |-> INT_KBD, dest |-> m.apic_id]
    <3>1. m.wire \in 0 .. Pins - 1
      BY <1>1, <2>1 DEF KeyboardDescribed
    <3>2. k.entry = m.wire /\ k.redtbl[m.wire].vector = INT_KBD
      BY <1>1, <1>2, <2>1 DEF BInv, Routing
    <3> QED BY <1>2, <1>3, <1>5, <2>1, <3>1, <3>2
  <2> QED BY <1>7, <2>1, SameMachine DEF Routing
<1>10. result.madt = k.madt /\ result.lapic = k.lapic /\ result.io_apic = k.io_apic
  BY <1>1 DEF Globals
<1> HIDE DEF result
<1> QED BY <1>1, <1>2, <1>6, <1>8, <1>9, <1>10, Advance

\* init_syscall to init_bsp_main_process.
LEMMA ThreadSteps ==
    ASSUME BInv,
           \/ init_syscall \/ init_multitasking \/ init_task_lists
           \/ init_sleeping_queue \/ init_bsp_main_process
    PROVE  BInv'
<1> USE DEF FromGdt, FromLocal, FromTss, FromSmp, FromIdt, FromIoApic, FromTimer,
        FromRemap, FromSyscall, FromMt, FromLists, FromMain, FromKbd, FromRtc
<1>1. k \in Globals /\ SetUp /\ Routing /\ m.apic_id \in Nat
  BY TablesTyped DEF BInv, Typed
<1>0. \A n : BadIndex(n) \in BOOLEAN
  BY DEF BadIndex
<1>2. CASE init_syscall
  <2>1. pc = "init_syscall"
        /\ (BInv' \/ (~(BadIndex(k.cpu_data)) /\ Goes("init_multitasking", [k EXCEPT !.gs = TRUE])))
    BY <1>0, <1>2, CallCases DEF init_syscall
  <2>2. SUFFICES ASSUME ~(BadIndex(k.cpu_data)),
                      Goes("init_multitasking", [k EXCEPT !.gs = TRUE])
               PROVE  BInv'
    BY <2>1
  <2>3. [k EXCEPT !.gs = TRUE] \in Globals
    BY <1>1, Assignments, Zenon
  <2>4. SetUp'
    BY <1>1, <2>1, <2>2 DEF Goes, SetUp, Globals, BadIndex
  <2>5. k'.redtbl = k.redtbl /\ pc' = "init_multitasking" /\ m' = m
    BY <1>1, <2>2 DEF Goes, Globals
  <2>6. Routing'
    BY <1>1, <2>1, <2>5, SameMachine DEF Routing
  <2> QED BY <1>1, <2>1, <2>2, <2>3, <2>4, <2>6, Advance DEF Globals
<1>3. CASE init_multitasking
  <2>1. pc = "init_multitasking" /\ (BInv' \/ (Goes("init_task_lists", [k EXCEPT !.lists = "raw"])))
    BY <1>0, <1>3, CallCases, Zenon DEF init_multitasking
  <2>2. SUFFICES ASSUME Goes("init_task_lists", [k EXCEPT !.lists = "raw"]) PROVE BInv'
    BY <2>1
  <2>3. [k EXCEPT !.lists = "raw"] \in Globals
    BY <1>1, Assignments, Zenon
  <2>4. SetUp'
    BY <1>1, <2>1, <2>2 DEF Goes, SetUp, Globals
  <2>5. k'.redtbl = k.redtbl /\ pc' = "init_task_lists" /\ m' = m
    BY <1>1, <2>2 DEF Goes, Globals
  <2>6. Routing'
    BY <1>1, <2>1, <2>5, SameMachine DEF Routing
  <2> QED BY <1>1, <2>1, <2>2, <2>3, <2>4, <2>6, Advance DEF Globals
<1>4. CASE init_task_lists
  <2>1. pc = "init_task_lists" /\ (BInv' \/ (Goes("init_sleeping_queue", [k EXCEPT !.lists = "made"])))
    BY <1>0, <1>4, CallCases, Zenon DEF init_task_lists
  <2>2. SUFFICES ASSUME Goes("init_sleeping_queue", [k EXCEPT !.lists = "made"]) PROVE BInv'
    BY <2>1
  <2>3. [k EXCEPT !.lists = "made"] \in Globals
    BY <1>1, Assignments, Zenon
  <2>4. SetUp'
    BY <1>1, <2>1, <2>2 DEF Goes, SetUp, Globals
  <2>5. k'.redtbl = k.redtbl /\ pc' = "init_sleeping_queue" /\ m' = m
    BY <1>1, <2>2 DEF Goes, Globals
  <2>6. Routing'
    BY <1>1, <2>1, <2>5, SameMachine DEF Routing
  <2> QED BY <1>1, <2>1, <2>2, <2>3, <2>4, <2>6, Advance DEF Globals
<1>5. CASE init_sleeping_queue
  <2>1. pc = "init_sleeping_queue"
        /\ (BInv' \/ (~(BadIndex(k.cpu_count)) /\ Goes("init_bsp_main_process", [k EXCEPT !.sleeping_queue = TRUE])))
    BY <1>0, <1>5, CallCases DEF init_sleeping_queue
  <2>2. SUFFICES ASSUME ~(BadIndex(k.cpu_count)),
                      Goes("init_bsp_main_process", [k EXCEPT !.sleeping_queue = TRUE])
               PROVE  BInv'
    BY <2>1
  <2>3. [k EXCEPT !.sleeping_queue = TRUE] \in Globals
    BY <1>1, Assignments, Zenon
  <2>4. SetUp'
    BY <1>1, <2>1, <2>2 DEF Goes, SetUp, Globals, BadIndex
  <2>5. k'.redtbl = k.redtbl /\ pc' = "init_bsp_main_process" /\ m' = m
    BY <1>1, <2>2 DEF Goes, Globals
  <2>6. Routing'
    BY <1>1, <2>1, <2>5, SameMachine DEF Routing
  <2> QED BY <1>1, <2>1, <2>2, <2>3, <2>4, <2>6, Advance DEF Globals
<1>6. CASE init_bsp_main_process
  <2>1. pc = "init_bsp_main_process"
        /\ (BInv' \/ (~(BadIndex(k.cpu_count) \/ BadIndex(k.cpu_data)) /\ Goes("kbd_init", [k EXCEPT !.current = "MAIN_THREAD"])))
    BY <1>0, <1>6, CallCases DEF init_bsp_main_process
  <2>2. SUFFICES ASSUME ~(BadIndex(k.cpu_count) \/ BadIndex(k.cpu_data)),
                      Goes("kbd_init", [k EXCEPT !.current = "MAIN_THREAD"])
               PROVE  BInv'
    BY <2>1
  <2>3. [k EXCEPT !.current = "MAIN_THREAD"] \in Globals
    BY <1>1, Assignments, Zenon
  <2>4. SetUp'
    BY <1>1, <2>1, <2>2 DEF Goes, SetUp, Globals, BadIndex
  <2>5. k'.redtbl = k.redtbl /\ pc' = "kbd_init" /\ m' = m
    BY <1>1, <2>2 DEF Goes, Globals
  <2>6. Routing'
    BY <1>1, <2>1, <2>5, SameMachine DEF Routing
  <2> QED BY <1>1, <2>1, <2>2, <2>3, <2>4, <2>6, Advance DEF Globals
<1> QED BY <1>2, <1>3, <1>4, <1>5, <1>6

\* kbd_init leaves its loop with the controller empty, and init_rtc changes nothing.
LEMMA LastSteps == ASSUME BInv, kbd_init \/ init_rtc PROVE BInv'
<1> USE DEF FromGdt, FromLocal, FromTss, FromSmp, FromIdt, FromIoApic, FromTimer,
        FromRemap, FromSyscall, FromMt, FromLists, FromMain, FromKbd, FromRtc
<1>1. k \in Globals /\ SetUp /\ Routing
  BY DEF BInv, Typed
<1>2. ASSUME NEW next \in FromRtc, pc \in FromKbd, Goes(next, k), pc = "kbd_init" => data = "none" PROVE BInv'
  <2>1. k' = k /\ pc' = next /\ m' = m /\ data' = data /\ irr' = irr
    BY <1>2 DEF Goes
  <2>2. SetUp'
    BY <1>1, <1>2, <2>1 DEF SetUp
  <2>3. Routing'
    BY <1>1, <1>2, <2>1, SameMachine DEF Routing
  <2> QED BY <1>1, <1>2, <2>2, <2>3, Advance
<1>3. CASE init_rtc
  <2>1. pc = "init_rtc" /\ Goes("done", k)
    BY <1>3 DEF init_rtc, Call, Goes
  <2> QED BY <1>2, <2>1
<1>4. CASE kbd_init /\ data = "none"
  <2>1. pc = "kbd_init" /\ Goes("init_rtc", k)
    BY <1>4 DEF kbd_init, Call, Goes
  <2> QED BY <1>2, <1>4, <2>1
<1>5. CASE kbd_init /\ data # "none"
  <2>1. pc = "kbd_init" /\ pc' = pc /\ k' = k /\ m' = m /\ data' = "none" /\ UNCHANGED <<dead, irr, keys>>
    BY <1>5 DEF kbd_init
  <2>2. SetUp'
    BY <1>1, <2>1 DEF SetUp
  <2>3. Routing'
    BY <1>1, <2>1, SameMachine DEF Routing
  <2>4. Typed' /\ Walk' /\ IoApicNamed'
    BY <1>1, <2>1, Later DEF BInv, Typed
  <2> QED BY <2>2, <2>3, <2>4 DEF BInv
<1> QED BY <1>3, <1>4, <1>5

\* The timer's handler changes nothing of the boot's but whether it goes on.
LEMMA PitStep == ASSUME BInv, pit_interrupt PROVE BInv'
<1>1. dead' \in BOOLEAN /\ UNCHANGED <<m, pc, k, data, irr, keys>>
  BY DEF pit_interrupt
<1> QED BY <1>1, Stopped

\* A step of the keyboard: the boot stands still, and after kbd_init a byte in the
\* controller has its interrupt.
LEMMA KeyboardSteps ==
    ASSUME BInv, m' = m, pc' = pc, k' = k, dead' \in BOOLEAN, data' \in {"none", "press", "release"},
           irr' \in BOOLEAN, keys' \in Nat,
           KeyboardDescribed /\ pc \in FromRtc /\ data' # "none" => irr'
    PROVE  BInv'
<1>1. Typed' /\ SetUp'
  BY DEF BInv, Typed, SetUp
<1>2. Walk'
  BY SameMachine DEF BInv, Walk
<1>3. IoApicNamed'
  BY SameMachine DEF BInv, IoApicNamed
<1>4. Routing'
  <2>1. LastMadt' = LastMadt /\ KeyboardDescribed' = KeyboardDescribed
        /\ \A n, irq : Override(n, irq)' = Override(n, irq)
    BY SameMachine, Zenon
  <2>2. Routing
    BY DEF BInv
  <2> QED BY <2>1, <2>2 DEF Routing
<1> QED BY <1>1, <1>2, <1>3, <1>4 DEF BInv

\* keyboard_interrupt empties the controller.
LEMMA HandlerStep == ASSUME BInv, keyboard_interrupt PROVE BInv'
<1>1. /\ m' = m /\ pc' = pc /\ k' = k /\ keys' = keys /\ irr' = FALSE /\ data' = "none"
      /\ dead' \in BOOLEAN
  BY DEF keyboard_interrupt
<1> QED BY <1>1, KeyboardSteps DEF BInv, Typed

\* A new byte: after kbd_init its line is unmasked and sent to this processor.
LEMMA ByteStep == ASSUME BInv, NEW byte \in {"press", "release"}, KeyByte(byte) PROVE BInv'
<1> USE DEF FromTimer, FromRemap, FromSyscall, FromMt, FromLists, FromMain, FromKbd, FromRtc
<1>1. /\ m' = m /\ pc' = pc /\ k' = k /\ dead' = dead /\ keys' = keys + 1 /\ data' = byte
      /\ irr' = (irr \/ (/\ k.io_apic = {0}
                         /\ m.wire \in DOMAIN k.redtbl
                         /\ k.redtbl[m.wire] = [vector |-> INT_KBD, dest |-> m.apic_id]))
  BY DEF KeyByte
<1>2. ASSUME KeyboardDescribed, pc \in FromRtc
      PROVE  /\ k.io_apic = {0} /\ m.wire \in DOMAIN k.redtbl
             /\ k.redtbl[m.wire] = [vector |-> INT_KBD, dest |-> m.apic_id]
  <2>1. k.io_apic # {} /\ k.redtbl[m.wire] = [vector |-> INT_KBD, dest |-> m.apic_id]
    BY <1>2 DEF BInv, SetUp, Routing
  <2>2. \A b \in k.io_apic : b = 0
    BY <1>2 DEF BInv, IoApicNamed, KeyboardDescribed
  <2>3. m.wire \in DOMAIN k.redtbl
    BY <1>2, TablesTyped DEF BInv, Typed, Globals, KeyboardDescribed
  <2> QED BY <2>1, <2>2, <2>3
<1>3. dead \in BOOLEAN /\ keys \in Nat
  BY DEF BInv, Typed
<1>4. KeyboardDescribed /\ pc \in FromRtc => irr'
  BY <1>1, <1>2, Zenon
<1>5. irr' \in BOOLEAN
  BY <1>1
<1> QED BY <1>1, <1>3, <1>4, <1>5, KeyboardSteps

\* The kernel starts, and starts again, with nothing set up.
LEMMA Start ==
    ASSUME Typed, pc = "verify_boot_environment", k = Reset
    PROVE  BInv
<1>1. pc \in Early /\ pc \notin Parsing /\ pc \notin FromGdt /\ pc # "acpi_parse_apic"
  BY Phases
<1>2. k.lapic = FALSE /\ k.madt = 0 /\ k.table = 1 /\ k.io_apic = {}
  BY DEF Reset
<1>3. SetUp /\ Routing
  BY DEF SetUp, Routing, FromTss, FromSmp, FromIdt, FromIoApic, FromTimer, FromRemap, FromSyscall,
         FromMt, FromLists, FromMain, FromKbd, FromRtc
<1>4. Walk
  BY <1>1, <1>2 DEF Walk
<1>5. IoApicNamed
  BY <1>2 DEF IoApicNamed
<1> QED BY <1>3, <1>4, <1>5 DEF BInv

\* reboot() leads back to the state before the first call.
LEMMA Reboot == ASSUME BInv, reboot PROVE BInv'
<1>1. /\ pc' = "verify_boot_environment" /\ k' = Reset /\ data' = "none" /\ irr' = FALSE /\ keys' = 0
      /\ m' = m /\ dead' = dead
  BY DEF reboot
<1>2. Reset' = Reset
  BY DEF Reset, Masked
<1>3. Typed'
  <2>1. Reset \in Globals
    <3>1. Reset.redtbl \in [0 .. Pins - 1 -> RedEntry]
      BY DEF Reset, RedEntry, Masked
    <3>2. Reset.idt = [v \in {} |-> ""]
      BY DEF Reset
    <3> QED BY <3>1, <3>2 DEF Reset, Globals
  <2> QED BY <1>1, <2>1, Phases DEF BInv, Typed, Calls
<1>4. pc' \in Early /\ pc' \notin Parsing /\ pc' \notin FromGdt /\ pc' # "acpi_parse_apic"
  BY <1>1, Phases
<1>5. k'.lapic = FALSE /\ k'.madt = 0 /\ k'.table = 1 /\ k'.io_apic = {}
  BY <1>1 DEF Reset
<1>6. SetUp' /\ Routing'
  BY <1>4, Before
<1>7. Walk'
  BY <1>4, <1>5 DEF Walk
<1>8. IoApicNamed'
  BY <1>5 DEF IoApicNamed
<1> QED BY <1>3, <1>6, <1>7, <1>8 DEF BInv

\* Every step of the boot, of the devices and of the interrupts keeps BInv.
LEMMA Inductive == BInv /\ [Next]_vars => BInv'
<1> SUFFICES ASSUME BInv, [Next]_vars PROVE BInv'
  OBVIOUS
<1>1. CASE Kernel
  BY <1>1, EarlySteps, ParseDt, ParseApic, TableSteps, ApicSteps, RemapStep, SetEntryStep, ThreadSteps,
     LastSteps DEF Kernel
<1>2. CASE reboot
  BY <1>2, Reboot
<1>3. CASE pit_interrupt
  BY <1>3, PitStep
<1>4. CASE keyboard_interrupt
  BY <1>4, HandlerStep
<1>5. CASE \E byte \in {"press", "release"} : KeyByte(byte)
  BY <1>5, ByteStep
<1>6. CASE UNCHANGED vars
  <2>1. dead' \in BOOLEAN /\ UNCHANGED <<m, pc, k, data, irr, keys>>
    BY <1>6 DEF vars, BInv, Typed
  <2> QED BY <2>1, Stopped
<1> QED BY <1>1, <1>2, <1>3, <1>4, <1>5, <1>6 DEF Next

\* The boot never leaves BInv, on any machine.
THEOREM BootInvariant == Spec => []BInv
<1>1. Init => BInv
  BY TypedInit, Start DEF Init
<1> QED BY <1>1, Inductive, PTL DEF Spec

-----------------------------------------------------------------------------

\* On every machine, with any tables, interrupts at any moment and after any number
\* of reboots: kernel_initialize returns only with the TSS, gs, the vectors, the
\* thread list and the keyboard's redirection entry as the kernel uses them.
THEOREM BootReady == Spec => []ReadyAfterBoot
<1>1. BInv => ReadyAfterBoot
  <2> SUFFICES ASSUME BInv, pc = "done" PROVE ReadyAfterBoot
    BY DEF ReadyAfterBoot
  <2>1. pc \in FromTss /\ pc \in FromSmp /\ pc \in FromIoApic /\ pc \in FromMt /\ pc \in FromMain
        /\ pc \in FromKbd /\ pc \in FromSyscall
    BY DEF FromTss, FromSmp, FromIdt, FromIoApic, FromTimer, FromRemap, FromSyscall, FromMt, FromLists,
           FromMain, FromKbd, FromRtc
  <2>2. /\ FullIdt[INT_TIMER] = "pit_interrupt" /\ FullIdt[INT_KBD] = "keyboard_interrupt"
        /\ FullIdt[13] = "gpf_exc" /\ FullIdt[14] = "pagefault_interrupt"
    BY DEF FullIdt, Handler, INT_TIMER, INT_KBD, INT_SPURIOUS, INT_SCHEDULER
  <2> QED BY <2>1, <2>2 DEF ReadyAfterBoot, BInv, SetUp, Routing
<1> QED BY <1>1, BootInvariant, PTL

\* On every machine whose tables name the keyboard's pin, no byte is left in the
\* controller without its interrupt once the boot is over, whenever keys were
\* pressed: kbd_init behind intr_init is enough.
THEOREM KeyboardAlive == Spec => []KeyboardNotStuck
<1>1. BInv => KeyboardNotStuck
  BY DEF BInv, Routing, KeyboardNotStuck, FromRtc
<1> QED BY <1>1, BootInvariant, PTL

-----------------------------------------------------------------------------
(* Why the boot stops, for every machine: StopsOnlyFor, from the invariant *)
(* SInv, which counts the cores along the walk over the tables.            *)

\* The cores that register_cpu_core is to count.
Counted == {p \in OfType("LOCAL_APIC") : m.tables[p[1]].entries[p[2]].flags > 0}

\* The walk is behind this entry.
Passed(p) ==
    \/ p[1] < k.madt
    \/ p[1] = k.madt /\ (pc = "acpi_parse_apic" => p[2] < k.entry)

\* What the walk has found is what it has passed.
Found ==
    /\ k.cpu_count = Cardinality({p \in Counted : Passed(p)})
    /\ \A p \in OfType("IO_APIC") : Passed(p) => k.io_apic # {}
    /\ pc \in FromGdt /\ Bootable => k.lapic

\* The tables indexed by the local APIC's number have a place for every core.
Sized ==
    /\ pc \in FromLocal => k.gdts = k.cpu_count
    /\ pc \in FromIdt => k.cpu_data = m.cpus

\* No interrupt comes before intr_init has armed its source.
Armed ==
    /\ k.timer <=> pc \in FromRemap
    /\ irr => k.timer
    /\ ~k.timer => \A p \in DOMAIN k.redtbl : k.redtbl[p].vector = 0

SInv == BInv /\ Found /\ Sized /\ Armed /\ StopsOnlyFor

-----------------------------------------------------------------------------

USE MachinesAssumption, PinsAssumption

\* An entry of OfType is a sound entry of a MADT, and the other way round.
LEMMA Pairs ==
    ASSUME Typed, NEW type
    PROVE  /\ \A p \in OfType(type) :
                /\ p = <<p[1], p[2]>> /\ p[1] \in Madts /\ p[2] \in Sound(p[1])
                /\ m.tables[p[1]].entries[p[2]].type = type
                /\ p[1] \in Nat \ {0} /\ p[2] \in Nat \ {0}
           /\ \A t \in Madts : \A e \in Sound(t) :
                m.tables[t].entries[e].type = type => <<t, e>> \in OfType(type)
<1>1. ASSUME NEW p \in OfType(type)
      PROVE  /\ p = <<p[1], p[2]>> /\ p[1] \in Madts /\ p[2] \in Sound(p[1])
             /\ m.tables[p[1]].entries[p[2]].type = type
             /\ p[1] \in Nat \ {0} /\ p[2] \in Nat \ {0}
  <2>1. PICK t \in Madts : p \in {<<t, e>> : e \in {f \in Sound(t) : m.tables[t].entries[f].type = type}}
    BY <1>1 DEF OfType
  <2>2. PICK e \in Sound(t) : p = <<t, e>> /\ m.tables[t].entries[e].type = type
    BY <2>1
  <2>3. t \in Nat \ {0} /\ m.tables[t].entries \in Seq(MadtEntry)
    BY TablesTyped
  <2>4. e \in Nat \ {0}
    BY <2>2, <2>3 DEF Sound
  <2> QED BY <2>2, <2>3, <2>4
<1>2. ASSUME NEW t \in Madts, NEW e \in Sound(t), m.tables[t].entries[e].type = type
      PROVE  <<t, e>> \in OfType(type)
  BY <1>2 DEF OfType
<1> QED BY <1>1, <1>2

\* The tables name finitely many cores.
LEMMA FiniteCores == ASSUME Typed PROVE IsFiniteSet(Counted)
<1> DEFINE Entry(t) == {f \in Sound(t) : m.tables[t].entries[f].type = "LOCAL_APIC"}
           Pair(t) == {<<t, e>> : e \in Entry(t)}
           All == {Pair(t) : t \in Madts}
<1>1. IsFiniteSet(Madts)
  <2>1. m.tables \in Seq(Table) /\ Len(m.tables) \in Nat
    BY TablesTyped
  <2>2. IsFiniteSet(1 .. Len(m.tables))
    BY <2>1, FS_Interval
  <2>3. Madts \in SUBSET (1 .. Len(m.tables))
    BY <2>1 DEF Madts
  <2> QED BY <2>2, <2>3, FS_Subset
<1>2. IsFiniteSet(All)
  <2> DEFINE f == [t \in Madts |-> Pair(t)]
  <2>1. f \in Surjection(Madts, All)
    BY DEF Surjection
  <2> QED BY <1>1, <2>1, FS_Surjection
<1>3. ASSUME NEW t \in Madts PROVE IsFiniteSet(Pair(t))
  <2>1. m.tables[t].entries \in Seq(MadtEntry) /\ Len(m.tables[t].entries) \in Nat
    BY <1>3, TablesTyped
  <2>2. IsFiniteSet(1 .. Len(m.tables[t].entries))
    BY <2>1, FS_Interval
  <2>3. Entry(t) \in SUBSET (1 .. Len(m.tables[t].entries))
    BY <2>1 DEF Sound
  <2>4. IsFiniteSet(Entry(t))
    BY <2>2, <2>3, FS_Subset
  <2> DEFINE f == [e \in Entry(t) |-> <<t, e>>]
  <2>5. f \in Surjection(Entry(t), Pair(t))
    BY DEF Surjection
  <2> QED BY <2>4, <2>5, FS_Surjection
<1>4. IsFiniteSet(UNION All)
  BY <1>2, <1>3, FS_UNION
<1>5. Counted \in SUBSET (UNION All)
  BY DEF Counted, OfType
<1> QED BY <1>4, <1>5, FS_Subset

\* Any set of them is no larger than Cores.
LEMMA CoreBound ==
    ASSUME Typed, NEW STATE S, S \subseteq Counted
    PROVE  /\ IsFiniteSet(S) /\ Cardinality(S) \in Nat /\ Cores \in Nat
           /\ Cardinality(S) <= Cores
<1>1. Cores = Cardinality(Counted)
  BY DEF Cores, Counted
<1>2. IsFiniteSet(Counted) /\ S \in SUBSET Counted
  BY FiniteCores
<1>3. IsFiniteSet(S) /\ Cardinality(S) <= Cardinality(Counted)
  BY <1>2, FS_Subset
<1> QED BY <1>1, <1>2, <1>3, FS_CardinalityType

\* A machine keeps what it promises.
LEMMA SamePromise ==
    ASSUME m' = m
    PROVE  Counted' = Counted /\ (Bootable' <=> Bootable) /\ OfType("IO_APIC")' = OfType("IO_APIC")
<1>1. OfType("IO_APIC")' = OfType("IO_APIC") /\ OfType("LOCAL_APIC")' = OfType("LOCAL_APIC")
      /\ LastMadt' = LastMadt
  BY SameMachine
<1>2. Counted' = Counted /\ Cores' = Cores
  BY <1>1 DEF Counted, Cores
<1>3. \A irq : Routable(irq)' = Routable(irq)
  BY <1>1 DEF Routable
<1> QED BY <1>1, <1>2, <1>3 DEF Bootable

\* A step that only stops the boot, for a reason StopsOnlyFor names.
LEMMA Halted ==
    ASSUME SInv, dead' \in BOOLEAN, UNCHANGED <<m, pc, k, data, irr, keys>>,
           dead' => ~Bootable \/ (k.timer /\ pc \in EarlyWindow)
    PROVE  SInv'
<1>1. BInv'
  BY Stopped DEF SInv
<1>2. \A p : Passed(p)' <=> Passed(p)
  BY DEF Passed
<1>3. {p \in Counted : Passed(p)}' = {p \in Counted : Passed(p)}
  BY <1>2, SamePromise
<1>4. Found'
  BY <1>2, <1>3, SamePromise DEF SInv, Found
<1>5. Sized' /\ Armed'
  BY DEF SInv, Sized, Armed
<1>6. StopsOnlyFor'
  BY SamePromise DEF StopsOnlyFor, EarlyWindow
<1> QED BY <1>1, <1>4, <1>5, <1>6 DEF SInv

\* acpi_parse_dt goes to the next table: what was passed stays passed, and no more.
LEMMA FoundDt == ASSUME SInv, acpi_parse_dt PROVE SInv'
<1> DEFINE more == k.table <= Len(m.tables)
           apic == m.tables[k.table].signature = "APIC"
           next == [k EXCEPT !.madt = k.table, !.entry = 1, !.lapic = TRUE, !.table = @ + 1]
           Behind == {p \in Counted : Passed(p)}
<1>0. BInv'
  BY ParseDt DEF SInv
<1>1. /\ k \in Globals /\ Typed /\ Walk /\ pc = "acpi_parse_dt" /\ Found /\ Armed
      /\ m.tables \in Seq(Table) /\ k.table \in Nat /\ k.madt \in Nat
  BY TablesTyped DEF SInv, BInv, Typed, acpi_parse_dt, Call, Globals
<1>2. /\ m' = m /\ UNCHANGED <<data, irr, keys>> /\ dead' = FALSE
      /\ \/ ~more /\ pc' = "init_gdt" /\ k' = k
         \/ more /\ apic /\ pc' = "acpi_parse_apic" /\ k' = next
         \/ more /\ ~apic /\ pc' = "acpi_parse_dt"
            /\ (k' = [k EXCEPT !.fadt = TRUE, !.table = @ + 1] \/ k' = [k EXCEPT !.table = @ + 1])
  BY ParseDtCases
<1>3. k.table # 0 /\ k.madt < k.table /\ \A t \in Madts : t \in Nat \ {0} /\ (t < k.table => t <= k.madt)
  BY <1>1, TablesTyped, Phases DEF Walk
<1>4. /\ k'.cpu_count = k.cpu_count /\ k'.io_apic = k.io_apic /\ k'.timer = k.timer /\ k'.redtbl = k.redtbl
      /\ k'.madt = IF pc' = "acpi_parse_apic" THEN k.table ELSE k.madt
      /\ pc' = "acpi_parse_apic" => k'.entry = 1
  BY <1>1, <1>2, ZenonT(40) DEF Globals
<1>5. \A p \in Counted \cup OfType("IO_APIC") : p[1] \in Madts /\ p[1] \in Nat \ {0} /\ p[2] \in Nat \ {0}
  BY <1>1, Pairs DEF Counted
<1>6. \A p \in Counted \cup OfType("IO_APIC") : Passed(p)' <=> Passed(p)
  BY <1>1, <1>2, <1>3, <1>4, <1>5 DEF Passed
<1>7. Behind' = Behind
  BY <1>2, <1>6, SamePromise
<1>8. pc' \in FromGdt /\ Bootable => k'.lapic
  <2>1. ASSUME pc' \in FromGdt, Bootable PROVE k.lapic /\ k' = k
    <3>1. ~more /\ k' = k
      BY <1>2, <2>1, Phases
    <3>2. PICK p : p \in OfType("IO_APIC")
      BY <2>1 DEF Bootable
    <3>3. p[1] \in Madts /\ p[1] \in Nat \ {0} /\ p[1] <= Len(m.tables)
      BY <1>1, <1>5, <3>2, TablesTyped
    <3>4. k.madt # 0
      BY <1>1, <1>3, <3>1, <3>3
    <3> QED BY <1>1, <3>1, <3>4 DEF Walk
  <2> QED BY <2>1
<1>9. Found'
  <2>1. k'.cpu_count = Cardinality(Behind')
    BY <1>1, <1>4, <1>7 DEF Found
  <2>2. \A p \in OfType("IO_APIC")' : Passed(p)' => k'.io_apic # {}
    BY <1>1, <1>2, <1>4, <1>6, SamePromise DEF Found
  <2> QED BY <1>2, <1>8, <2>1, <2>2, SamePromise DEF Found
<1>10. pc' \notin FromLocal /\ pc' \notin FromIdt /\ pc' \notin FromRemap /\ pc \notin FromRemap
  BY <1>1, <1>2 DEF FromLocal, FromTss, FromSmp, FromIdt, FromIoApic, FromTimer, FromRemap, FromSyscall,
     FromMt, FromLists, FromMain, FromKbd, FromRtc
<1>11. Sized' /\ Armed' /\ StopsOnlyFor'
  BY <1>1, <1>2, <1>4, <1>10 DEF Sized, Armed, StopsOnlyFor
<1> QED BY <1>0, <1>9, <1>11 DEF SInv

\* acpi_parse_apic passes one entry, and counts it if it is a core; the count stays
\* within Cores.
LEMMA FoundApic == ASSUME SInv, acpi_parse_apic PROVE SInv'
<1> PICK list : list = m.tables[k.madt].entries
  OBVIOUS
<1> PICK e : e = list[k.entry]
  OBVIOUS
<1> DEFINE more == k.entry <= Len(list) /\ ~e.empty
           core == e.type = "LOCAL_APIC" /\ e.flags > 0
           here == <<k.madt, k.entry>>
           Behind == {p \in Counted : Passed(p)}
<1>1. /\ k \in Globals /\ Typed /\ Walk /\ pc = "acpi_parse_apic" /\ Found /\ Armed /\ k.madt \in Madts
      /\ k.entry \in Nat \ {0} /\ k.madt \in Nat /\ k.cpu_count \in Nat /\ list \in Seq(MadtEntry)
      /\ MAX_CPU_COUNT \in Nat /\ m.tables[k.madt].entries = list
  BY TablesTyped DEF SInv, BInv, Typed, acpi_parse_apic, Call, Walk, Globals
<1>2. k.cpu_count = Cardinality(Behind) /\ IsFiniteSet(Behind)
  <2>1. Behind \subseteq Counted
    OBVIOUS
  <2> QED BY <1>1, <2>1, CoreBound DEF Found
<1>3. more => k.entry \in Sound(k.madt)
  <2>1. ASSUME more PROVE k.entry \in DOMAIN list /\ ~list[k.entry].empty
    BY <1>1, <2>1
  <2>2. ASSUME NEW f \in 1 .. k.entry - 1 PROVE ~list[f].empty
    <3>1. f \in Sound(k.madt) /\ f \in 1 .. f
      BY <1>1, <2>2 DEF Walk
    <3> QED BY <1>1, <3>1 DEF Sound
  <2>3. 1 .. k.entry = (1 .. k.entry - 1) \cup {k.entry}
    BY <1>1, SMTT(40)
  <2> HIDE DEF more
  <2> QED BY <1>1, <2>1, <2>2, <2>3 DEF Sound
<1>4. /\ more /\ core => here \in Counted
      /\ more /\ ~core => here \notin Counted
  <2>1. more /\ e.type = "LOCAL_APIC" => here \in OfType("LOCAL_APIC")
    <3>1. Typed /\ k.madt \in Madts /\ m.tables[k.madt].entries[k.entry] = e
      BY <1>1
    <3> QED BY ONLY <1>3, <3>1, Pairs DEF here
  <2>2. here \in OfType("LOCAL_APIC") => e.type = "LOCAL_APIC"
    <3>1. Typed /\ m.tables[k.madt].entries[k.entry] = e
      BY <1>1
    <3>2. here[1] = k.madt /\ here[2] = k.entry
      OBVIOUS
    <3> HIDE DEF here
    <3>3. here \in OfType("LOCAL_APIC") => m.tables[here[1]].entries[here[2]].type = "LOCAL_APIC"
      BY ONLY <3>1, Pairs
    <3> QED BY ONLY <3>1, <3>2, <3>3
  <2> QED BY <1>1, <2>1, <2>2, ZenonT(40) DEF Counted
<1>5. here \notin Behind
  BY <1>1 DEF Passed
<1>6. Cardinality(Behind \cup {here}) = k.cpu_count + 1
  BY <1>2, <1>5, FS_AddElement
<1>7. more /\ Bootable => k.cpu_count <= MAX_CPU_COUNT /\ (core => k.cpu_count + 1 <= MAX_CPU_COUNT)
  <2>1. ASSUME Bootable PROVE Cardinality(Behind) <= Cores /\ Cores \in Nat /\ Cores <= MAX_CPU_COUNT
    <3>1. Behind \subseteq Counted
      OBVIOUS
    <3>2. Cardinality(Behind) <= Cores /\ Cores \in Nat
      BY <1>1, <3>1, CoreBound, SMTT(40)
    <3>3. Cores <= MAX_CPU_COUNT
      BY <2>1 DEF Bootable
    <3> QED BY <3>2, <3>3
  <2>2. ASSUME Bootable, more, core PROVE Cardinality(Behind \cup {here}) <= Cores
    <3>1. Behind \cup {here} \subseteq Counted
      BY <1>4, <2>2, ZenonT(40)
    <3> QED BY <1>1, <3>1, CoreBound
  <2> HIDE DEF Behind, here, core, more
  <2> QED BY <1>1, <1>2, <1>6, <2>1, <2>2
<1>8. /\ Registered(e).cpu_count = IF core THEN k.cpu_count + 1 ELSE k.cpu_count
      /\ Registered(e).io_apic = IF e.type = "IO_APIC" THEN {e.base} ELSE k.io_apic
      /\ Registered(e).madt = k.madt /\ Registered(e).entry = k.entry
      /\ Registered(e).timer = k.timer /\ Registered(e).redtbl = k.redtbl
  BY <1>1 DEF Registered, Globals
<1>9. more /\ Bootable => ~(Registered(e).cpu_count > MAX_CPU_COUNT)
  <2> HIDE DEF Behind, here, more
  <2>1. CASE core
    <3>1. Registered(e).cpu_count = k.cpu_count + 1
      BY <1>8, <2>1
    <3>2. k.cpu_count \in Nat /\ MAX_CPU_COUNT \in Nat
      BY <1>1
    <3> QED BY ONLY <1>7, <2>1, <3>1, <3>2
  <2>2. CASE ~core
    <3>1. Registered(e).cpu_count = k.cpu_count
      BY <1>8, <2>2
    <3>2. k.cpu_count \in Nat /\ MAX_CPU_COUNT \in Nat
      BY <1>1
    <3> QED BY ONLY <1>7, <3>1, <3>2
  <2> QED BY <2>1, <2>2
<1>10. CASE dead'
  <2>1. more /\ Registered(e).cpu_count > MAX_CPU_COUNT
    BY <1>10, ZenonT(40) DEF acpi_parse_apic, Call, Entries
  <2>2. UNCHANGED <<m, pc, k, data, irr, keys>>
    BY <1>1, <1>10, ZenonT(40) DEF acpi_parse_apic, Call, Entries
  <2>3. ~Bootable /\ dead' \in BOOLEAN
    BY <1>9, <1>10, <2>1, Zenon
  <2> QED BY <2>2, <2>3, Halted
<1>11. BInv'
  BY ParseApic, SMTT(40) DEF SInv
<1>12. \A p \in Counted \cup OfType("IO_APIC") :
          /\ p = <<p[1], p[2]>> /\ p[1] \in Madts /\ p[2] \in Sound(p[1])
          /\ p[1] \in Nat \ {0} /\ p[2] \in Nat \ {0}
  BY <1>1, Pairs DEF Counted
<1>13. \/ dead'
       \/ /\ ~dead' /\ m' = m /\ UNCHANGED <<data, irr, keys>>
          /\ ~more /\ pc' = "acpi_parse_dt" /\ k' = k
       \/ /\ ~dead' /\ m' = m /\ UNCHANGED <<data, irr, keys>>
          /\ more /\ pc' = "acpi_parse_apic" /\ k' = [Registered(e) EXCEPT !.entry = @ + 1]
  BY ZenonT(40) DEF acpi_parse_apic, Call, Entries
<1>14. ASSUME ~dead', m' = m, irr' = irr, pc' \in {"acpi_parse_dt", "acpi_parse_apic"},
              k'.timer = k.timer, k'.redtbl = k.redtbl, Found'
       PROVE  SInv'
  <2>1. pc' \notin FromLocal /\ pc' \notin FromIdt /\ pc' \notin FromRemap /\ pc \notin FromRemap
    BY <1>1, <1>14 DEF FromLocal, FromTss, FromSmp, FromIdt, FromIoApic, FromTimer, FromRemap, FromSyscall,
       FromMt, FromLists, FromMain, FromKbd, FromRtc
  <2>2. Sized' /\ Armed' /\ StopsOnlyFor'
    BY <1>1, <1>14, <2>1 DEF Sized, Armed, StopsOnlyFor
  <2> QED BY <1>11, <1>14, <2>2 DEF SInv
<1>15. CASE /\ ~dead' /\ m' = m /\ UNCHANGED <<data, irr, keys>>
            /\ ~more /\ pc' = "acpi_parse_dt" /\ k' = k
  <2>1. ASSUME NEW p \in Counted \cup OfType("IO_APIC"), p[1] = k.madt PROVE p[2] < k.entry
    <3>1. p[2] \in Sound(k.madt) /\ p[2] \in Nat
      BY <1>12, <2>1
    <3>2. p[2] \in 1 .. Len(list) /\ \A f \in 1 .. p[2] : ~list[f].empty
      <4>1. p[2] \in DOMAIN m.tables[k.madt].entries
            /\ \A f \in 1 .. p[2] : ~m.tables[k.madt].entries[f].empty
        BY <3>1, Zenon DEF Sound
      <4>2. list = m.tables[k.madt].entries /\ DOMAIN list = 1 .. Len(list)
        BY <1>1
      <4> QED BY ONLY <4>1, <4>2
    <3>3. CASE k.entry <= p[2]
      <4>1. k.entry \in 1 .. p[2] /\ k.entry <= Len(list)
        <5>1. k.entry \in Nat \ {0} /\ Len(list) \in Nat
          BY <1>1
        <5> QED BY ONLY <5>1, <3>1, <3>2, <3>3
      <4> QED BY <1>15, <3>2, <4>1
    <3> QED BY <1>1, <3>1, <3>3
  <2>2. \A p \in Counted \cup OfType("IO_APIC") : Passed(p)' <=> Passed(p)
    BY <1>1, <1>15, <2>1 DEF Passed
  <2>3. Behind' = Behind
    BY <1>15, <2>2, SamePromise
  <2>4. pc' \notin FromGdt
    BY <1>15, Phases
  <2> HIDE DEF more
  <2>5. Found'
    BY <1>1, <1>15, <2>2, <2>3, <2>4, SamePromise DEF Found
  <2> QED BY <1>14, <1>15, <2>5
<1>16. CASE /\ ~dead' /\ m' = m /\ UNCHANGED <<data, irr, keys>>
            /\ more /\ pc' = "acpi_parse_apic" /\ k' = [Registered(e) EXCEPT !.entry = @ + 1]
  <2>1. /\ k'.cpu_count = IF core THEN k.cpu_count + 1 ELSE k.cpu_count
        /\ k'.io_apic = IF e.type = "IO_APIC" THEN {e.base} ELSE k.io_apic
        /\ k'.madt = k.madt /\ k'.entry = k.entry + 1
        /\ k'.timer = k.timer /\ k'.redtbl = k.redtbl
    BY <1>1, <1>16 DEF Registered, Globals
  <2>2. \A p \in Counted \cup OfType("IO_APIC") : Passed(p)' <=> Passed(p) \/ p = here
    <3> SUFFICES ASSUME NEW p \in Counted \cup OfType("IO_APIC")
                 PROVE  Passed(p)' <=> Passed(p) \/ p = here
      OBVIOUS
    <3>1. p = <<p[1], p[2]>> /\ p[1] \in Nat /\ p[2] \in Nat
      BY <1>12
    <3>2. p = here <=> p[1] = k.madt /\ p[2] = k.entry
      BY <3>1, SMTT(40)
    <3>3. Passed(p)' <=> p[1] < k.madt \/ (p[1] = k.madt /\ p[2] < k.entry + 1)
      BY <1>16, <2>1 DEF Passed
    <3>4. Passed(p) <=> p[1] < k.madt \/ (p[1] = k.madt /\ p[2] < k.entry)
      BY <1>1, SMTT(40) DEF Passed
    <3> HIDE DEF here, more
    <3> QED BY <1>1, <3>1, <3>2, <3>3, <3>4
  <2>3. Behind' = {p \in Counted : Passed(p) \/ p = here}
    <3>1. m' = m
      BY <1>16
    <3> QED BY ONLY <2>2, <3>1, SamePromise DEF Behind
  <2>4. Behind' = IF core THEN Behind \cup {here} ELSE Behind
    BY <1>4, <1>16, <2>3, ZenonT(40)
  <2>5. k'.cpu_count = Cardinality(Behind')
    <3> HIDE DEF Behind, here, core
    <3> QED BY <1>2, <1>6, <2>1, <2>4
  <2>6. ASSUME NEW p \in OfType("IO_APIC"), Passed(p)' PROVE k'.io_apic # {}
    <3>1. CASE Passed(p)
      BY <1>1, <2>1, <3>1 DEF Found
    <3>2. CASE p = here
      <4>1. e.type = "IO_APIC"
        <5>1. Typed /\ m.tables[k.madt].entries[k.entry] = e /\ here[1] = k.madt /\ here[2] = k.entry
          BY <1>1
        <5>2. here \in OfType("IO_APIC")
          BY <2>6, <3>2
        <5> QED BY ONLY <5>1, <5>2, Pairs
      <4> QED BY <2>1, <4>1, ZenonT(40)
    <3> QED BY <2>2, <2>6, <3>1, <3>2, SMTT(40)
  <2>7. pc' \notin FromGdt
    <3>1. pc' = "acpi_parse_apic"
      BY <1>16
    <3> QED BY ONLY <3>1, Phases
  <2> HIDE DEF more
  <2>8. Found'
    BY <1>16, <2>5, <2>6, <2>7, SamePromise DEF Found
  <2> QED BY <1>14, <1>16, <2>1, <2>8, ZenonT(40)
<1> QED BY <1>10, <1>13, <1>15, <1>16

\* Behind the walk, on a usable machine, every index into a per-CPU table is good.
LEMMA Usable ==
    ASSUME SInv, pc \in FromGdt, Bootable
    PROVE  /\ k.io_apic # {} /\ ~BadIndex(k.cpu_count)
           /\ pc \in FromLocal => ~BadIndex(k.gdts)
           /\ pc \in FromIdt => ~BadIndex(k.cpu_data)
<1> DEFINE Behind == {p \in Counted : Passed(p)}
<1>1. Typed /\ Walk /\ Found /\ Sized /\ pc # "acpi_parse_apic" /\ k.lapic /\ k.madt \in Nat
  <2>1. Typed /\ Walk /\ Found /\ Sized
    BY DEF SInv, BInv
  <2>2. pc # "acpi_parse_apic"
    BY Phases, Zenon
  <2>3. k.lapic /\ k \in Globals
    BY <2>1, Zenon DEF Found, Typed
  <2>4. k.madt \in Nat
    BY <2>3, Zenon DEF Globals
  <2> QED BY <2>1, <2>2, <2>3, <2>4
<1>2. \A p \in Counted \cup OfType("IO_APIC") : p[1] \in Madts /\ p[1] \in Nat
  BY <1>1, Pairs DEF Counted
<1>3. \A p \in Counted \cup OfType("IO_APIC") : Passed(p)
  BY <1>1, <1>2 DEF Walk, Passed
<1>4. Behind = Counted
  BY <1>3, SMTT(40)
<1>5. k.cpu_count = Cores
  BY <1>1, <1>4 DEF Found, Cores, Counted
<1>6. k.io_apic # {}
  BY <1>1, <1>3 DEF Found, Bootable
<1>7. m.apic_id < k.cpu_count /\ m.apic_id < m.cpus
      /\ m.apic_id \in Nat /\ m.cpus \in Nat /\ k.cpu_count \in Nat
  BY <1>1, <1>5, TablesTyped DEF Bootable, Typed, Globals
<1> QED BY <1>1, <1>6, <1>7 DEF BadIndex, Sized

\* A call that can stop only an unusable machine.
LEMMA CallEnds ==
    ASSUME SInv, NEW here, NEW STATE next, NEW STATE fault, fault \in BOOLEAN, NEW STATE result,
           Call(here, next, fault, result), pc = here => (fault => ~Bootable)
    PROVE  pc = here /\ (SInv' \/ (~fault /\ Goes(next, result)))
<1>1. CASE fault
  <2>1. dead' \in BOOLEAN /\ UNCHANGED <<m, pc, k, data, irr, keys>> /\ ~Bootable /\ pc = here
    BY <1>1 DEF Call
  <2> QED BY <2>1, Halted
<1>2. CASE ~fault
  BY <1>2, Zenon DEF Call, Goes
<1> QED BY <1>1, <1>2

\* A call that leaves alone what the walk has found.
LEMMA Onward ==
    ASSUME SInv, BInv', NEW next, NEW STATE result, Goes(next, result),
           pc # "acpi_parse_apic", next # "acpi_parse_apic",
           next \in FromGdt /\ Bootable => pc \in FromGdt,
           result.madt = k.madt, result.cpu_count = k.cpu_count, result.io_apic = k.io_apic,
           result.lapic = k.lapic, Sized', Armed'
    PROVE  SInv'
<1>1. k' = result /\ pc' = next /\ dead' = FALSE /\ m' = m
  BY DEF Goes
<1>2. \A p : Passed(p)' <=> Passed(p)
  BY <1>1 DEF Passed
<1>3. {p \in Counted : Passed(p)}' = {p \in Counted : Passed(p)}
  BY <1>1, <1>2, SamePromise
<1>4. Found'
  BY <1>1, <1>2, <1>3, SamePromise DEF SInv, Found
<1>5. StopsOnlyFor'
  BY <1>1 DEF StopsOnlyFor
<1> QED BY <1>4, <1>5 DEF SInv

\* The calls before the walk need only the loader's responses.
LEMMA StopsEarly ==
    ASSUME SInv, verify_boot_environment \/ init_fb \/ init_mem
    PROVE  SInv'
<1> USE DEF FromGdt, FromLocal, FromTss, FromSmp, FromIdt, FromIoApic, FromTimer,
        FromRemap, FromSyscall, FromMt, FromLists, FromMain, FromKbd, FromRtc
<1>0. \A n : BadIndex(n) \in BOOLEAN
  BY DEF BadIndex
<1>1. k \in Globals /\ Sized /\ Armed
  BY DEF SInv, BInv, Typed
<1>2. BInv'
  BY EarlySteps, TableSteps, ApicSteps, ThreadSteps, LastSteps DEF SInv
<1>3. CASE verify_boot_environment
  <2>1. pc = "verify_boot_environment" =>
           (~({"framebuffer", "hhdm", "memmap"} \subseteq m.responses) => ~Bootable)
    BY <1>1, Usable DEF Bootable, Responses
  <2>2. pc = "verify_boot_environment" /\ (SInv' \/ Goes("init_fb", k))
    BY <1>0, <1>3, <2>1, CallEnds, Zenon DEF verify_boot_environment
  <2>3. SUFFICES ASSUME Goes("init_fb", k) PROVE SInv'
    BY <2>2
  <2>4. Sized' /\ Armed'
    BY <1>1, <2>2, <2>3 DEF Goes, Sized, Armed, Globals
  <2> QED BY <1>1, <1>2, <2>2, <2>3, <2>4, Onward DEF Globals
<1>4. CASE init_fb
  <2>1. pc = "init_fb" => (FALSE => ~Bootable)
    BY <1>1, Usable DEF Bootable, Responses
  <2>2. pc = "init_fb" /\ (SInv' \/ Goes("init_mem", [k EXCEPT !.rflags_if = TRUE]))
    BY <1>0, <1>4, <2>1, CallEnds, Zenon DEF init_fb
  <2>3. SUFFICES ASSUME Goes("init_mem", [k EXCEPT !.rflags_if = TRUE]) PROVE SInv'
    BY <2>2
  <2>4. Sized' /\ Armed'
    BY <1>1, <2>2, <2>3 DEF Goes, Sized, Armed, Globals
  <2> QED BY <1>1, <1>2, <2>2, <2>3, <2>4, Onward DEF Globals
<1>5. CASE init_mem
  <2>1. pc = "init_mem" => (("kernel_address" \notin m.responses) => ~Bootable)
    BY <1>1, Usable DEF Bootable, Responses
  <2>2. pc = "init_mem" /\ (SInv' \/ Goes("acpi_init", k))
    BY <1>0, <1>5, <2>1, CallEnds, Zenon DEF init_mem
  <2>3. SUFFICES ASSUME Goes("acpi_init", k) PROVE SInv'
    BY <2>2
  <2>4. Sized' /\ Armed'
    BY <1>1, <2>2, <2>3 DEF Goes, Sized, Armed, Globals
  <2> QED BY <1>1, <1>2, <2>2, <2>3, <2>4, Onward DEF Globals
<1> QED BY <1>3, <1>4, <1>5

\* init_gdt to the timer: the tables are as large as the walk counted.
LEMMA StopsTables ==
    ASSUME SInv,
           \/ init_gdt \/ init_gdt_local \/ tss_set_kernel_stack
           \/ init_smp_data \/ idt_init \/ local_apic_timer_init
    PROVE  SInv'
<1> USE DEF FromGdt, FromLocal, FromTss, FromSmp, FromIdt, FromIoApic, FromTimer,
        FromRemap, FromSyscall, FromMt, FromLists, FromMain, FromKbd, FromRtc
<1>0. \A n : BadIndex(n) \in BOOLEAN
  BY DEF BadIndex
<1>1. k \in Globals /\ Sized /\ Armed
  BY DEF SInv, BInv, Typed
<1>2. BInv'
  BY EarlySteps, TableSteps, ApicSteps, ThreadSteps, LastSteps DEF SInv
<1>3. CASE init_gdt
  <2>1. pc = "init_gdt" => (FALSE => ~Bootable)
    BY <1>1, Usable DEF Bootable, Responses
  <2>2. pc = "init_gdt" /\ (SInv' \/ Goes("init_gdt_local", [k EXCEPT !.gdts = k.cpu_count]))
    BY <1>0, <1>3, <2>1, CallEnds, Zenon DEF init_gdt
  <2>3. SUFFICES ASSUME Goes("init_gdt_local", [k EXCEPT !.gdts = k.cpu_count]) PROVE SInv'
    BY <2>2
  <2>4. Sized' /\ Armed'
    BY <1>1, <2>2, <2>3 DEF Goes, Sized, Armed, Globals
  <2> QED BY <1>1, <1>2, <2>2, <2>3, <2>4, Onward DEF Globals
<1>4. CASE init_gdt_local
  <2>1. pc = "init_gdt_local" => (BadIndex(k.gdts) => ~Bootable)
    BY <1>1, Usable DEF Bootable, Responses
  <2>2. pc = "init_gdt_local"
        /\ (SInv' \/ Goes("tss_set_kernel_stack", [k EXCEPT !.gdtr = TRUE, !.rsp0 = "zero", !.gs = FALSE]))
    BY <1>0, <1>4, <2>1, CallEnds DEF init_gdt_local
  <2>3. SUFFICES ASSUME Goes("tss_set_kernel_stack", [k EXCEPT !.gdtr = TRUE, !.rsp0 = "zero", !.gs = FALSE])
               PROVE  SInv'
    BY <2>2
  <2>4. Sized' /\ Armed'
    BY <1>1, <2>2, <2>3 DEF Goes, Sized, Armed, Globals
  <2> QED BY <1>1, <1>2, <2>2, <2>3, <2>4, Onward DEF Globals
<1>5. CASE tss_set_kernel_stack
  <2>1. pc = "tss_set_kernel_stack" => (BadIndex(k.gdts) => ~Bootable)
    BY <1>1, Usable DEF Bootable, Responses
  <2>2. pc = "tss_set_kernel_stack"
        /\ (SInv' \/ Goes("init_smp_data", [k EXCEPT !.rsp0 = "kernel_stack"]))
    BY <1>0, <1>5, <2>1, CallEnds, Zenon DEF tss_set_kernel_stack
  <2>3. SUFFICES ASSUME Goes("init_smp_data", [k EXCEPT !.rsp0 = "kernel_stack"]) PROVE SInv'
    BY <2>2
  <2>4. Sized' /\ Armed'
    BY <1>1, <2>2, <2>3 DEF Goes, Sized, Armed, Globals
  <2> QED BY <1>1, <1>2, <2>2, <2>3, <2>4, Onward DEF Globals
<1>6. CASE init_smp_data
  <2>1. pc = "init_smp_data" => (("smp" \notin m.responses) => ~Bootable)
    BY <1>1, Usable DEF Bootable, Responses
  <2>2. pc = "init_smp_data" /\ (SInv' \/ Goes("idt_init", [k EXCEPT !.cpu_data = m.cpus]))
    BY <1>0, <1>6, <2>1, CallEnds, Zenon DEF init_smp_data
  <2>3. SUFFICES ASSUME Goes("idt_init", [k EXCEPT !.cpu_data = m.cpus]) PROVE SInv'
    BY <2>2
  <2>4. Sized' /\ Armed'
    BY <1>1, <2>2, <2>3 DEF Goes, Sized, Armed, Globals
  <2> QED BY <1>1, <1>2, <2>2, <2>3, <2>4, Onward DEF Globals
<1>7. CASE idt_init
  <2>1. pc = "idt_init" => (FALSE => ~Bootable)
    BY <1>1, Usable DEF Bootable, Responses
  <2>2. pc = "idt_init" /\ (SInv' \/ Goes("io_apic_init", [k EXCEPT !.idt = FullIdt]))
    BY <1>0, <1>7, <2>1, CallEnds, Zenon DEF idt_init, FullIdt
  <2>3. SUFFICES ASSUME Goes("io_apic_init", [k EXCEPT !.idt = FullIdt]) PROVE SInv'
    BY <2>2
  <2>4. Sized' /\ Armed'
    BY <1>1, <2>2, <2>3 DEF Goes, Sized, Armed, Globals
  <2> QED BY <1>1, <1>2, <2>2, <2>3, <2>4, Onward DEF Globals
<1>8. CASE local_apic_timer_init
  <2>1. pc = "local_apic_timer_init" => (FALSE => ~Bootable)
    BY <1>1, Usable DEF Bootable, Responses
  <2>2. pc = "local_apic_timer_init"
        /\ (SInv' \/ Goes("acpi_remap_irq", [k EXCEPT !.timer = TRUE, !.irq = 0, !.entry = 1]))
    BY <1>0, <1>8, <2>1, CallEnds, Zenon DEF local_apic_timer_init
  <2>3. SUFFICES ASSUME Goes("acpi_remap_irq", [k EXCEPT !.timer = TRUE, !.irq = 0, !.entry = 1])
               PROVE  SInv'
    BY <2>2
  <2>4. Sized' /\ Armed'
    BY <1>1, <2>2, <2>3 DEF Goes, Sized, Armed, Globals
  <2> QED BY <1>1, <1>2, <2>2, <2>3, <2>4, Onward DEF Globals
<1> QED BY <1>3, <1>4, <1>5, <1>6, <1>7, <1>8

\* init_syscall to init_rtc.
LEMMA StopsThreads ==
    ASSUME SInv,
           \/ init_syscall \/ init_multitasking \/ init_task_lists
           \/ init_sleeping_queue \/ init_bsp_main_process \/ init_rtc
    PROVE  SInv'
<1> USE DEF FromGdt, FromLocal, FromTss, FromSmp, FromIdt, FromIoApic, FromTimer,
        FromRemap, FromSyscall, FromMt, FromLists, FromMain, FromKbd, FromRtc
<1>0. \A n : BadIndex(n) \in BOOLEAN
  BY DEF BadIndex
<1>1. k \in Globals /\ Sized /\ Armed
  BY DEF SInv, BInv, Typed
<1>2. BInv'
  BY EarlySteps, TableSteps, ApicSteps, ThreadSteps, LastSteps DEF SInv
<1>3. CASE init_syscall
  <2>1. pc = "init_syscall" => (BadIndex(k.cpu_data) => ~Bootable)
    BY <1>1, Usable DEF Bootable, Responses
  <2>2. pc = "init_syscall" /\ (SInv' \/ Goes("init_multitasking", [k EXCEPT !.gs = TRUE]))
    BY <1>0, <1>3, <2>1, CallEnds, Zenon DEF init_syscall
  <2>3. SUFFICES ASSUME Goes("init_multitasking", [k EXCEPT !.gs = TRUE]) PROVE SInv'
    BY <2>2
  <2>4. Sized' /\ Armed'
    BY <1>1, <2>2, <2>3 DEF Goes, Sized, Armed, Globals
  <2> QED BY <1>1, <1>2, <2>2, <2>3, <2>4, Onward DEF Globals
<1>4. CASE init_multitasking
  <2>1. pc = "init_multitasking" => (FALSE => ~Bootable)
    BY <1>1, Usable DEF Bootable, Responses
  <2>2. pc = "init_multitasking" /\ (SInv' \/ Goes("init_task_lists", [k EXCEPT !.lists = "raw"]))
    BY <1>0, <1>4, <2>1, CallEnds, Zenon DEF init_multitasking
  <2>3. SUFFICES ASSUME Goes("init_task_lists", [k EXCEPT !.lists = "raw"]) PROVE SInv'
    BY <2>2
  <2>4. Sized' /\ Armed'
    BY <1>1, <2>2, <2>3 DEF Goes, Sized, Armed, Globals
  <2> QED BY <1>1, <1>2, <2>2, <2>3, <2>4, Onward DEF Globals
<1>5. CASE init_task_lists
  <2>1. pc = "init_task_lists" => (FALSE => ~Bootable)
    BY <1>1, Usable DEF Bootable, Responses
  <2>2. pc = "init_task_lists" /\ (SInv' \/ Goes("init_sleeping_queue", [k EXCEPT !.lists = "made"]))
    BY <1>0, <1>5, <2>1, CallEnds, Zenon DEF init_task_lists
  <2>3. SUFFICES ASSUME Goes("init_sleeping_queue", [k EXCEPT !.lists = "made"]) PROVE SInv'
    BY <2>2
  <2>4. Sized' /\ Armed'
    BY <1>1, <2>2, <2>3 DEF Goes, Sized, Armed, Globals
  <2> QED BY <1>1, <1>2, <2>2, <2>3, <2>4, Onward DEF Globals
<1>6. CASE init_sleeping_queue
  <2>1. pc = "init_sleeping_queue" => (BadIndex(k.cpu_count) => ~Bootable)
    BY <1>1, Usable DEF Bootable, Responses
  <2>2. pc = "init_sleeping_queue"
        /\ (SInv' \/ Goes("init_bsp_main_process", [k EXCEPT !.sleeping_queue = TRUE]))
    BY <1>0, <1>6, <2>1, CallEnds, Zenon DEF init_sleeping_queue
  <2>3. SUFFICES ASSUME Goes("init_bsp_main_process", [k EXCEPT !.sleeping_queue = TRUE]) PROVE SInv'
    BY <2>2
  <2>4. Sized' /\ Armed'
    BY <1>1, <2>2, <2>3 DEF Goes, Sized, Armed, Globals
  <2> QED BY <1>1, <1>2, <2>2, <2>3, <2>4, Onward DEF Globals
<1>7. CASE init_bsp_main_process
  <2>1. pc = "init_bsp_main_process" => ((BadIndex(k.cpu_count) \/ BadIndex(k.cpu_data)) => ~Bootable)
    BY <1>1, Usable DEF Bootable, Responses
  <2>2. pc = "init_bsp_main_process" /\ (SInv' \/ Goes("kbd_init", [k EXCEPT !.current = "MAIN_THREAD"]))
    BY <1>0, <1>7, <2>1, CallEnds, Zenon DEF init_bsp_main_process
  <2>3. SUFFICES ASSUME Goes("kbd_init", [k EXCEPT !.current = "MAIN_THREAD"]) PROVE SInv'
    BY <2>2
  <2>4. Sized' /\ Armed'
    BY <1>1, <2>2, <2>3 DEF Goes, Sized, Armed, Globals
  <2> QED BY <1>1, <1>2, <2>2, <2>3, <2>4, Onward DEF Globals
<1>8. CASE init_rtc
  <2>1. pc = "init_rtc" => (FALSE => ~Bootable)
    BY <1>1, Usable DEF Bootable, Responses
  <2>2. pc = "init_rtc" /\ (SInv' \/ Goes("done", k))
    BY <1>0, <1>8, <2>1, CallEnds, Zenon DEF init_rtc
  <2>3. SUFFICES ASSUME Goes("done", k) PROVE SInv'
    BY <2>2
  <2>4. Sized' /\ Armed'
    BY <1>1, <2>2, <2>3 DEF Goes, Sized, Armed, Globals
  <2> QED BY <1>1, <1>2, <2>2, <2>3, <2>4, Onward DEF Globals
<1> QED BY <1>3, <1>4, <1>5, <1>6, <1>7, <1>8


\* acpi_init takes a usable machine to the walk.
LEMMA StopsAcpi == ASSUME SInv, acpi_init PROVE SInv'
<1> DEFINE parse == m.signature /\ m.checksum # 0
           next == IF parse /\ m.revision = 0 THEN "acpi_parse_dt" ELSE "init_gdt"
           fault == "rsdp" \notin m.responses \/ (parse /\ m.revision = 2)
<1>1. k \in Globals /\ Sized /\ Armed
  BY DEF SInv, BInv, Typed
<1>2. BInv'
  BY EarlySteps DEF SInv
<1>3. fault => ~Bootable
  BY DEF Bootable, Responses
<1>4. fault \in BOOLEAN /\ Call("acpi_init", next, fault, k)
  BY DEF acpi_init
<1>5. next \in {"acpi_parse_dt", "init_gdt"} /\ (next = "init_gdt" => ~Bootable)
  BY DEF Bootable
<1> HIDE DEF next, fault
<1>6. pc = "acpi_init" /\ (SInv' \/ Goes(next, k))
  BY <1>3, <1>4, CallEnds
<1>7. SUFFICES ASSUME Goes(next, k) PROVE SInv'
  BY <1>6
<1>8. pc' = next /\ k' = k /\ m' = m /\ irr' = irr
  BY <1>7 DEF Goes
<1>9. pc' \notin FromLocal /\ pc' \notin FromIdt /\ pc' \notin FromRemap /\ pc \notin FromRemap
  BY <1>5, <1>6, <1>8 DEF FromGdt, FromLocal, FromTss, FromSmp, FromIdt, FromIoApic, FromTimer,
        FromRemap, FromSyscall, FromMt, FromLists, FromMain, FromKbd, FromRtc
<1>10. Sized' /\ Armed'
  BY <1>1, <1>8, <1>9 DEF Sized, Armed
<1>11. PICK n \in {"acpi_parse_dt", "init_gdt"} : n = next
  BY <1>5
<1>12. n \in FromGdt /\ Bootable => pc \in FromGdt
  BY <1>5, <1>11, Phases
<1> QED BY <1>2, <1>6, <1>7, <1>10, <1>11, <1>12, Onward

\* io_apic_init needs an I/O APIC, and masks more lines.
LEMMA StopsIoApic == ASSUME SInv, io_apic_init PROVE SInv'
<1> USE DEF FromGdt, FromLocal, FromTss, FromSmp, FromIdt, FromIoApic, FromTimer,
        FromRemap, FromSyscall, FromMt, FromLists, FromMain, FromKbd, FromRtc
<1> DEFINE result(count) ==
          [k EXCEPT !.redtbl = [pin \in DOMAIN @ |-> IF pin < count THEN Masked ELSE @[pin]]]
<1>1. k \in Globals /\ Sized /\ Armed
  BY DEF SInv, BInv, Typed
<1>2. BInv'
  BY ApicSteps DEF SInv
<1>3. PICK count \in 1 .. Pins : Call("io_apic_init", "local_apic_timer_init", k.io_apic = {}, result(count))
  BY DEF io_apic_init
<1>4. pc = "io_apic_init" => (k.io_apic = {} => ~Bootable)
  BY Usable
<1>5. pc = "io_apic_init" /\ (SInv' \/ Goes("local_apic_timer_init", result(count)))
  BY <1>3, <1>4, CallEnds
<1>6. SUFFICES ASSUME Goes("local_apic_timer_init", result(count)) PROVE SInv'
  BY <1>5
<1>7. /\ k'.timer = k.timer /\ k'.gdts = k.gdts /\ k'.cpu_count = k.cpu_count /\ k'.cpu_data = k.cpu_data
      /\ k'.redtbl = [pin \in DOMAIN k.redtbl |-> IF pin < count THEN Masked ELSE k.redtbl[pin]]
      /\ pc' = "local_apic_timer_init" /\ m' = m /\ irr' = irr
  BY <1>1, <1>6 DEF Goes, Globals
<1>8. Sized'
  BY <1>1, <1>5, <1>7 DEF Sized
<1>9. Masked.vector = 0
  BY DEF Masked
<1>10. Armed'
  BY <1>1, <1>5, <1>7, <1>9 DEF Armed
<1>11. /\ result(count).madt = k.madt /\ result(count).cpu_count = k.cpu_count
       /\ result(count).io_apic = k.io_apic /\ result(count).lapic = k.lapic
  BY <1>1 DEF Globals
<1> HIDE DEF result
<1> QED BY <1>2, <1>5, <1>6, <1>8, <1>10, <1>11, Onward

\* acpi_remap_irq and io_apic_set_entry leave all but the routing alone.
LEMMA StopsRouting == ASSUME SInv, acpi_remap_irq \/ io_apic_set_entry PROVE SInv'
<1> USE DEF FromGdt, FromLocal, FromTss, FromSmp, FromIdt, FromIoApic, FromTimer,
        FromRemap, FromSyscall, FromMt, FromLists, FromMain, FromKbd, FromRtc
<1>1. k \in Globals /\ Sized /\ Armed
  BY DEF SInv, BInv, Typed
<1>2. BInv'
  BY RemapStep, SetEntryStep DEF SInv
<1>3. /\ pc \in {"acpi_remap_irq", "io_apic_set_entry"} /\ m' = m /\ irr' = irr /\ dead' = FALSE
      /\ pc' \in {"acpi_remap_irq", "io_apic_set_entry", "init_syscall"}
  BY DEF acpi_remap_irq, io_apic_set_entry, Call
<1>4. /\ k'.timer = k.timer /\ k'.gdts = k.gdts /\ k'.cpu_count = k.cpu_count /\ k'.cpu_data = k.cpu_data
      /\ k'.madt = k.madt /\ k'.io_apic = k.io_apic /\ k'.lapic = k.lapic
  <2>1. CASE acpi_remap_irq
    BY <1>1, <2>1 DEF acpi_remap_irq, Call, SetLow, Globals
  <2>2. CASE io_apic_set_entry
    BY <1>1, <2>2 DEF io_apic_set_entry, Call, Globals
  <2> QED BY <2>1, <2>2
<1>5. Sized' /\ Armed'
  BY <1>1, <1>3, <1>4 DEF Sized, Armed
<1>6. \A p : Passed(p)' <=> Passed(p)
  BY <1>3, <1>4 DEF Passed
<1>7. {p \in Counted : Passed(p)}' = {p \in Counted : Passed(p)}
  BY <1>3, <1>6, SamePromise
<1>8. Found'
  BY <1>3, <1>4, <1>6, <1>7, SamePromise DEF SInv, Found
<1>9. StopsOnlyFor'
  BY <1>3 DEF StopsOnlyFor
<1> QED BY <1>2, <1>5, <1>8, <1>9 DEF SInv

\* The keyboard, its handler and kbd_init's loop: an interrupt waits only when the
\* lines are programmed, and stops the boot only before the thread list is there.
LEMMA StopsDevice ==
    ASSUME SInv, BInv', m' = m, pc' = pc, k' = k, dead' \in BOOLEAN, irr' => k.timer,
           dead' => k.timer /\ pc \in EarlyWindow
    PROVE  SInv'
<1>1. \A p : Passed(p)' <=> Passed(p)
  BY DEF Passed
<1>2. {p \in Counted : Passed(p)}' = {p \in Counted : Passed(p)}
  BY <1>1, SamePromise
<1>3. Found'
  BY <1>1, <1>2, SamePromise DEF SInv, Found
<1>4. Sized' /\ Armed'
  BY DEF SInv, Sized, Armed
<1>5. StopsOnlyFor'
  BY DEF StopsOnlyFor, EarlyWindow
<1> QED BY <1>3, <1>4, <1>5 DEF SInv

\* An interrupt that finds no thread list comes in the window.
LEMMA Window ==
    ASSUME SInv
    PROVE  /\ k.timer /\ k.lists # "made" => pc \in EarlyWindow
           /\ k.timer /\ ~k.sleeping_queue => pc \in EarlyWindow
<1>1. Armed /\ SetUp
  BY DEF SInv, BInv
<1> QED BY <1>1 DEF Armed, SetUp, EarlyWindow, FromRemap, FromSyscall, FromMt, FromLists, FromMain

\* The interrupts and the keyboard's bytes stop the boot in the window only.
LEMMA StopsInterrupts ==
    ASSUME SInv, \/ pit_interrupt \/ keyboard_interrupt \/ (kbd_init /\ data # "none")
                 \/ \E byte \in {"press", "release"} : KeyByte(byte)
    PROVE  SInv'
<1>1. k \in Globals /\ Armed /\ dead \in BOOLEAN
  BY DEF SInv, BInv, Typed
<1>2. BInv'
  BY PitStep, HandlerStep, LastSteps, ByteStep DEF SInv
<1>3. CASE pit_interrupt
  <2>1. /\ m' = m /\ pc' = pc /\ k' = k /\ irr' = irr /\ k.timer /\ dead' \in BOOLEAN
        /\ dead' => k.lists = "null" \/ ~k.sleeping_queue
    BY <1>3 DEF pit_interrupt
  <2> QED BY <1>1, <1>2, <2>1, Window, StopsDevice DEF Armed
<1>4. CASE keyboard_interrupt
  <2>1. /\ m' = m /\ pc' = pc /\ k' = k /\ irr' = FALSE /\ k.timer /\ dead' \in BOOLEAN
        /\ dead' => k.lists # "made"
    BY <1>1, <1>4 DEF keyboard_interrupt, Armed
  <2> QED BY <1>2, <2>1, Window, StopsDevice
<1>5. CASE kbd_init /\ data # "none"
  <2>1. m' = m /\ pc' = pc /\ k' = k /\ irr' = irr /\ dead' = FALSE
    BY <1>1, <1>5 DEF kbd_init
  <2> QED BY <1>1, <1>2, <2>1, StopsDevice DEF Armed
<1>6. CASE \E byte \in {"press", "release"} : KeyByte(byte)
  <2>1. /\ m' = m /\ pc' = pc /\ k' = k /\ dead' = FALSE
        /\ irr' => irr \/ (m.wire \in DOMAIN k.redtbl
                           /\ k.redtbl[m.wire] = [vector |-> INT_KBD, dest |-> m.apic_id])
    BY <1>1, <1>6 DEF KeyByte
  <2>2. irr' => k.timer
    BY <1>1, <2>1 DEF Armed, INT_KBD
  <2> QED BY <1>2, <2>1, <2>2, StopsDevice
<1> QED BY <1>3, <1>4, <1>5, <1>6

\* kbd_init goes on when the controller is empty.
LEMMA StopsKbd == ASSUME SInv, kbd_init, data = "none" PROVE SInv'
<1> USE DEF FromGdt, FromLocal, FromTss, FromSmp, FromIdt, FromIoApic, FromTimer,
        FromRemap, FromSyscall, FromMt, FromLists, FromMain, FromKbd, FromRtc
<1>1. k \in Globals /\ Sized /\ Armed
  BY DEF SInv, BInv, Typed
<1>2. BInv'
  BY LastSteps DEF SInv
<1>3. pc = "kbd_init" /\ Goes("init_rtc", k)
  BY DEF kbd_init, Call, Goes
<1>4. Sized' /\ Armed'
  BY <1>1, <1>3 DEF Goes, Sized, Armed
<1> QED BY <1>2, <1>3, <1>4, Onward

\* Before the first call nothing is passed, counted or armed.
LEMMA StopsStart ==
    ASSUME BInv, pc = "verify_boot_environment", k = Reset, ~irr, ~dead
    PROVE  SInv
<1>1. pc \notin FromGdt /\ pc \notin FromLocal /\ pc \notin FromIdt /\ pc \notin FromRemap
  BY DEF FromGdt, FromLocal, FromTss, FromSmp, FromIdt, FromIoApic, FromTimer,
        FromRemap, FromSyscall, FromMt, FromLists, FromMain, FromKbd, FromRtc
<1>2. /\ k.cpu_count = 0 /\ k.madt = 0 /\ k.timer = FALSE
      /\ \A p \in DOMAIN k.redtbl : k.redtbl[p].vector = 0
  BY DEF Reset, Masked
<1>3. \A p \in Counted \cup OfType("IO_APIC") : ~Passed(p)
  <2>1. \A p \in Counted \cup OfType("IO_APIC") : p[1] \in Nat \ {0}
    BY Pairs DEF BInv, Counted
  <2> QED BY <1>2, <2>1, SMTT(40) DEF Passed
<1>4. {p \in Counted : Passed(p)} = {}
  BY <1>3
<1>5. Found
  BY <1>1, <1>2, <1>3, <1>4, FS_EmptySet, ZenonT(40) DEF Found
<1> QED BY <1>1, <1>2, <1>5 DEF SInv, Sized, Armed, StopsOnlyFor

\* reboot() starts again with nothing passed.
LEMMA StopsReboot == ASSUME SInv, reboot PROVE SInv'
<1>1. BInv'
  BY Reboot DEF SInv
<1>2. pc' = "verify_boot_environment" /\ k' = Reset /\ irr' = FALSE /\ dead' = FALSE /\ m' = m
  BY DEF SInv, BInv, Typed, reboot
<1>3. pc' \notin FromGdt /\ pc' \notin FromLocal /\ pc' \notin FromIdt /\ pc' \notin FromRemap
  BY <1>2 DEF FromGdt, FromLocal, FromTss, FromSmp, FromIdt, FromIoApic, FromTimer,
        FromRemap, FromSyscall, FromMt, FromLists, FromMain, FromKbd, FromRtc
<1>4. /\ k'.cpu_count = 0 /\ k'.madt = 0 /\ k'.timer = FALSE
      /\ \A p \in DOMAIN k'.redtbl : k'.redtbl[p].vector = 0
  BY <1>2 DEF Reset, Masked
<1>5. \A p \in Counted' \cup OfType("IO_APIC")' : ~Passed(p)'
  <2>1. \A p \in Counted \cup OfType("IO_APIC") : p[1] \in Nat \ {0}
    BY Pairs DEF SInv, BInv, Counted
  <2> QED BY <1>2, <1>4, <2>1, SamePromise DEF Passed
<1>6. {p \in Counted : Passed(p)}' = {}
  BY <1>5
<1>7. Found'
  BY <1>3, <1>4, <1>5, <1>6, FS_EmptySet DEF Found
<1> QED BY <1>1, <1>2, <1>3, <1>4, <1>7 DEF SInv, Sized, Armed, StopsOnlyFor

\* Every step of the boot, of the devices and of the interrupts keeps SInv.
LEMMA StopsInductive == SInv /\ [Next]_vars => SInv'
<1> SUFFICES ASSUME SInv, [Next]_vars PROVE SInv'
  OBVIOUS
<1>1. CASE Kernel
  BY <1>1, StopsEarly, StopsAcpi, FoundDt, FoundApic, StopsTables, StopsIoApic, StopsRouting, StopsThreads,
     StopsKbd, StopsInterrupts DEF Kernel
<1>2. CASE reboot
  BY <1>2, StopsReboot
<1>3. CASE pit_interrupt \/ keyboard_interrupt \/ \E byte \in {"press", "release"} : KeyByte(byte)
  BY <1>3, StopsInterrupts
<1>4. CASE UNCHANGED vars
  <2>1. dead' \in BOOLEAN /\ UNCHANGED <<m, pc, k, data, irr, keys>> /\ dead' = dead
    BY <1>4 DEF vars, SInv, BInv, Typed
  <2> QED BY <2>1, Halted DEF SInv, StopsOnlyFor
<1> QED BY <1>1, <1>2, <1>3, <1>4 DEF Next

\* On every machine, with any tables, any number of cores and any reboots: the boot
\* stops only when the machine lacks something it needs, or when a timer or keyboard
\* interrupt finds no thread list between intr_init and init_multitasking's last
\* store (init.c:104-106, mt.c:62-75).
THEOREM BootStops == Spec => []StopsOnlyFor
<1>1. Init => SInv
  BY TypedInit, Start, StopsStart DEF Init
<1>2. SInv => StopsOnlyFor
  BY DEF SInv
<1> QED BY <1>1, <1>2, StopsInductive, PTL DEF Spec
=============================================================================
