----------------------------- MODULE MCInstall -----------------------------
(* Instances of Install: MBR disks, GPT disks with logical blocks of one and *)
(* two sectors, ISO images with a GPT; whole, odd or broken; with every      *)
(* place a transient or a lasting I/O error can strike.                      *)
EXTENDS Install, TLC

Part(i, flag, type, start, count) ==
    (TABLE + i * ENTRY :> flag) @@ (TABLE + i * ENTRY + 1 :> 0) @@ (TABLE + i * ENTRY + 2 :> type)
    @@ (TABLE + i * ENTRY + 3 :> 0) @@ (TABLE + i * ENTRY + 4 :> start) @@ (TABLE + i * ENTRY + 5 :> count)

Blank(size, marks) == [c \in 0..(size - 1) |-> IF c \in DOMAIN marks THEN marks[c] ELSE 2000 + c]

Mbr(p, q, marks) == Blank(160, marks @@ p @@ q)
NoPart == Part(1, 0, 0, 0, 0)
Plain == Part(0, 128, 12, 5, 2)

At(loc, seq) == [c \in loc..(loc + Len(seq) - 1) |-> seq[c - loc + 1]]
Gpt(lb, lbas, entry_lba, entries, marks) ==
    LET header == <<EFI_PART, lbas - 1, entry_lba, Len(entries) \div 4, 4>> IN
    Blank(lb * lbas, marks @@ At(lb, header) @@ At(lb * (lbas - 1), header) @@ At(2 * lb, entries)
                    @@ Part(0, 0, 238, 1, lbas - 1) @@ NoPart)

Efi == <<EFI_SYSTEM, 1, 5, 6>>
Boot == <<BIOS_BOOT, 2, 7, 9>>
Empty == <<0, 0, 0, 0>>

D(image, data) == [image |-> image, data |-> data, min_block |-> 1, lb |-> 0, parts |-> <<>>]
G(lb, lbas, entry_lba, entries, marks, data) ==
    [D(Gpt(lb, lbas, entry_lba, entries, marks), data) EXCEPT
         !.lb = lb,
         !.parts = [i \in 1..(Len(entries) \div 4) |-> [start |-> entries[4 * i - 1], end |-> entries[4 * i]]]]
NoMarks == [c \in {} |-> 0]

MbrDisks ==
    << D(Mbr(Plain, NoPart, NoMarks), 100..139),
       D(Mbr(Part(0, 0, 7, 5, 1), Part(1, 129, 12, 6, 1), NoMarks), 100..139),
       D(Mbr(Part(0, 1, 7, 5, 1), NoPart, NoMarks), 100..119),
       D(Mbr(Part(0, 0, 0, 0, 0), Part(1, 0, 12, 2, 4), NoMarks), 40..119),
       D(Mbr(Plain, NoPart, OEM :> NTFS), 100..139),
       D(Mbr(Plain, NoPart, OEM :> FAT32_NAME), 100..139),
       D(Mbr(Plain, NoPart, FAT16 :> FAT), 100..139),
       D(Mbr(Plain, NoPart, (FAT32 :> FAT) @@ (EXT :> EXT_MAGIC)), 100..139) >>

\* The last one has a partition of data that is large enough for stage 2.
GptDisks ==
    << G(20, 12, 2, Efi \o Empty \o Boot, NoMarks, 100..139),
       G(20, 12, 2, Efi \o Boot, ISO :> CD001, 100..139),
       G(20, 12, 2, Efi \o Empty \o Boot, (140 + OEM :> NTFS) @@ (140 + EXT :> EXT_MAGIC), 100..139),
       G(20, 12, 2, Efi \o <<BIOS_BOOT, 2, 7, 8>>, NoMarks, 100..139),
       G(20, 12, 2, Efi \o <<BIOS_BOOT, 2, 8, 7>>, NoMarks, 100..139),
       G(20, 12, 2, Efi, 220 :> 0, 100..139),
       G(20, 12, 2147483647, Efi \o Boot, ISO :> CD001, 100..139),
       G(40, 8, 2, <<EFI_SYSTEM, 1, 5, 5>> \o <<BIOS_BOOT, 2, 3, 4>>, NoMarks, 200..239),
       G(20, 14, 2, Efi \o <<BASIC_DATA, 3, 7, 9>> \o <<BIOS_BOOT, 2, 10, 12>>, NoMarks, 100..199) >>

\* The last two have data where the conversion wipes more than the GPTs: in the last
\* SECONDARY blocks, as blocks of two sectors allow, and below MIN_LBA.
IsoDisks ==
    << G(20, 11, 2, Efi \o Empty \o <<BASIC_DATA, 2, 7, 7>>, ISO :> CD001, 100..159),
       G(20, 11, 2, <<BASIC_DATA, 2, 4, 7>>, ISO :> CD001, 80..159),
       G(20, 11, 2, <<BASIC_DATA, 1, 16450559, 16450560, EFI_SYSTEM, 1, 70000, 16450558>>, ISO :> CD001, {}),
       G(20, 11, 2, <<BASIC_DATA, 1, 5, 20000001>>, ISO :> CD001, 100..159),
       G(20, 11, 2, <<BASIC_DATA, 1, 7, 5>>, ISO :> CD001, {}),
       G(20, 11, 2, Efi \o Efi \o Efi, ISO :> CD001, 100..139),
       G(40, 11, 2, <<BASIC_DATA, 1, 5, 8>>, ISO :> CD001, 200..359),
       G(20, 11, 2, <<BASIC_DATA, 1, 3, 7>>, ISO :> CD001, 60..159) >>

\* Every disk with small and with large physical blocks.
Small == MbrDisks \o GptDisks \o IsoDisks
MCDisks == Small \o [i \in 1..Len(Small) |-> [Small[i] EXCEPT !.min_block = 40]]
Both(S) == S \cup {i + Len(Small) : i \in S}

MCguesses == <<20, 40>>
MClb == <<20, 40>>

Fault(f, n, also, kind) == [from |-> f, to |-> f + n - 1, also |-> also, kind |-> kind]
NoFault == Fault(1, 0, 0, "seek")
Faults(last) == {Fault(f, 1, 0, k) : f \in 1..last, k \in {"seek", "short"}}
                \cup {Fault(f, 1000, 0, "short") : f \in 1..last}
                \cup {Fault(f, 1, f + n, "short") : f \in 1..last, n \in {1, 3}}

Opt(f, g, p, u) == [force |-> f, gpt2mbr_allowed |-> g, part_ndx |-> p, uninstall_file |-> u]
Usual == Opt(FALSE, TRUE, NONE, TRUE)
Force == Opt(TRUE, TRUE, NONE, TRUE)
Cases(disks, options, faults) ==
    {[disk |-> MCDisks[d], fault |-> f, force |-> o.force, gpt2mbr_allowed |-> o.gpt2mbr_allowed,
      part_ndx |-> o.part_ndx, uninstall_file |-> o.uninstall_file] : d \in disks, o \in options, f \in faults}

Large(i) == i + Len(Small)
Gpts == 9..17
Isos == 18..25

MCRuns ==
    Cases(Both(1..8 \cup Isos), {Opt(f, g, NONE, u) : f, g, u \in BOOLEAN}, {NoFault})
    \cup Cases(Both(Gpts), {Opt(f, g, p, TRUE) : f, g \in BOOLEAN, p \in {NONE, 0, 1, 2, 3, 4}}, {NoFault})
    \cup Cases({1, 8, Large(1), Large(8), 11}, {Force}, Faults(55))
    \cup Cases({9, Large(9)}, {Usual}, Faults(45))
    \cup Cases({18}, {Usual}, Faults(112))
    \cup Cases({19, 25}, {Usual}, Faults(36))
=============================================================================
