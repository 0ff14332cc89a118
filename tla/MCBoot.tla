------------------------------- MODULE MCBoot -------------------------------
(* Machines that differ from a plain one in one respect each. *)
EXTENDS Boot

Lapic(id, f) == [type |-> "LOCAL_APIC", empty |-> FALSE, apic_id |-> id, flags |-> f]
IoApic(b) == [type |-> "IO_APIC", empty |-> FALSE, base |-> b]
Override(s, i) == [type |-> "OVERRIDE", empty |-> FALSE, source |-> s, interrupt |-> i]
Other == [type |-> "OTHER", empty |-> FALSE]
Zero == [type |-> "OTHER", empty |-> TRUE]
Madt(entries) == [signature |-> "APIC", entries |-> entries]

Plain ==
    [responses |-> Responses, signature |-> TRUE, checksum |-> 7, revision |-> 0,
     tables |-> <<[signature |-> "FACP"],
                  Madt(<<Lapic(0, 1), Lapic(1, 2), Other, IoApic(0), Override(0, 2)>>)>>,
     apic_id |-> 0, cpus |-> 2, wire |-> 1]

With(entries) == [Plain EXCEPT !.tables = <<[signature |-> "OTHER"], Madt(entries)>>]

MCMachines ==
    {Plain,
     [Plain EXCEPT !.apic_id = 1],
     [Plain EXCEPT !.apic_id = 2, !.cpus = 3],
     [Plain EXCEPT !.cpus = 0],
     [Plain EXCEPT !.tables = @ \o <<Madt(<<Override(1, 3)>>)>>, !.wire = 3],
     [With(<<Lapic(0, 1), IoApic(0), Override(1, 3), Override(0, 2), Zero, Lapic(1, 1)>>)
         EXCEPT !.wire = 3],
     [With(<<Lapic(0, 0), Lapic(1, 1), Lapic(0, 1), IoApic(0), Override(0, 1), Override(1, 0)>>)
         EXCEPT !.wire = 0, !.apic_id = 1],
     With(<<Lapic(0, 1), IoApic(0), Zero>>),
     With(<<Lapic(0, 1), Override(0, 2)>>),
     With(<<Lapic(0, 1), IoApic(0), IoApic(24)>>),
     With(<<Lapic(0, 1), Lapic(1, 1), Lapic(2, 1), Lapic(3, 1), IoApic(0)>>),
     [Plain EXCEPT !.revision = 2], [Plain EXCEPT !.revision = 1],
     [Plain EXCEPT !.checksum = 0], [Plain EXCEPT !.signature = FALSE]}
    \cup {[Plain EXCEPT !.responses = @ \ {r}] : r \in Responses}
=============================================================================
