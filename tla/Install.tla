------------------------------ MODULE Install ------------------------------
(***************************************************************************)
(* `limine bios-install`, which the build runs on the disk image: it       *)
(* writes the BIOS boot stages to a device, undoes its work when it fails, *)
(* and with --uninstall puts back what an earlier installation replaced.   *)
(*                                                                         *)
(* A cell stands for one field of the device (a sector has SECTOR cells,   *)
(* laid out below) and holds an integer.  The process is the record s: the *)
(* one-block write-back cache, the journal of replaced cells, and the      *)
(* locals of bios_install.  Every fread and fwrite of a block is numbered, *)
(* and the run says which numbers fail, and how.                           *)
(***************************************************************************)
EXTENDS Integers, Sequences, FiniteSets, SequencesExt

CONSTANTS Runs,               \* disk (image, data in partitions but the BIOS boot one,
                              \* least transfer, size of a logical block and partitions
                              \* of a GPT), options and I/O faults of each installation
          guesses, lb_guesses, \* physical and logical block sizes to try
          STAGE2,             \* length of bootloader_img after its first sector
          MIN_LBA,            \* lowest start of an MBR partition (63)
          MIN_PART,           \* least size of a BIOS boot partition (32768)
          PRIMARY, SECONDARY, \* sectors of the two GPTs (34 and 33)
          UNINSTALL_DATA_MAX, UINT32_MAX, UINT64_MAX

VARIABLES run, stage, s, stage2_loc, file

vars == <<run, stage, s, stage2_loc, file>>

-----------------------------------------------------------------------------
(* The fields of a boot sector, of a partition table entry, of a GPT header *)
(* and entry, and the marks found in them.                                  *)
SECTOR == 20
OEM == 1
FAT16 == 2
FAT32 == 3
TIME == 4
LOC == 5
DISK_ID == 6
TABLE == 7
ENTRY == 6
NPARTS == 2
MbrField == [flag |-> 0, chs_start |-> 1, type |-> 2, chs_end |-> 3, start |-> 4, count |-> 5]
SIGNATURE == 19
EXT == 2 * SECTOR + 1
ISO == 5 * SECTOR + 1
HEADER == 5
Header(b) == [signature |-> b[1], alternate_lba |-> b[2], entry_lba |-> b[3], entries |-> b[4], entry_size |-> b[5]]
GPT_ENTRY == 4
GptEntry(b) == [type |-> b[1], guid |-> b[2], start |-> b[3], end |-> b[4]]

EFI_PART == 301
CD001 == 302
NTFS == 303
FAT == 304
FAT32_NAME == 305
EXT_MAGIC == 306
BIOS_BOOT == 307
EFI_SYSTEM == 308
BASIC_DATA == 309
RANDOM == 310
NONE == -1

bootloader_img == [i \in 0..(SECTOR + STAGE2 - 1) |-> 1000 + i]

gpt2mbr_type(type) == CASE type = EFI_SYSTEM -> 239 [] type = BASIC_DATA -> 7 [] OTHER -> -1

\* The three bytes of a CHS address, as one number.
lba2chs(lba) ==
    LET cylinder == lba \div (255 * 63) IN
    IF cylinder >= 1024 THEN 254 + 256 * 255 + 65536 * 255
    ELSE ((lba \div 63) % 255)
         + 256 * (64 * ((cylinder \div 256) % 4) + (lba % 63) + 1)
         + 65536 * (cylinder % 256)

mul_u64_overflow(a, b) == a # 0 /\ b > UINT64_MAX \div a
add_u64_overflow(a, b) == a > UINT64_MAX - b

-----------------------------------------------------------------------------
(* Block I/O.  A faulty transfer ("short") stops half way; a faulty seek    *)
(* ("seek") moves nothing, as does a transfer of less than min_block cells. *)
Least(a, b) == IF a < b THEN a ELSE b
Disk == run.disk
Size == Cardinality(DOMAIN Disk.image)
FaultyOps == (run.fault.from..run.fault.to) \cup {run.fault.also}
Fails(t) == t.io + 1 \in FaultyOps
Moved(t, room) ==
    Least(room, CASE t.block_size < Disk.min_block -> 0
                  [] ~Fails(t) -> t.block_size
                  [] Fails(t) /\ run.fault.kind = "short" -> t.block_size \div 2
                  [] OTHER -> 0)

\* Step is taken unless t has failed.
Then(t, Step(_)) == IF t.ok THEN Step(t) ELSE t

ReadBlock(t, block) ==
    LET base == block * t.block_size
        Got(got) == [t EXCEPT !.io = @ + 1,
                              !.cache = [i \in DOMAIN @ |-> IF i < got THEN t.dev[base + i] ELSE @[i]],
                              !.cached_block = IF got = t.block_size THEN block ELSE @,
                              !.ok = (got = t.block_size)]
    IN Got(IF base < Size THEN Moved(t, Size - base) ELSE 0)

\* The first size that can be read is the block size.
device_init(t) ==
    LET Guess(u, size) ==
        IF u.ok THEN u
        ELSE ReadBlock([u EXCEPT !.block_size = size, !.cache = [i \in 0..(size - 1) |-> 0],
                                 !.dirty = FALSE], 0)
    IN FoldLeft(Guess, [t EXCEPT !.ok = FALSE], guesses)

device_flush_cache(t) ==
    LET base == t.cached_block * t.block_size
        Put(put) == [t EXCEPT !.io = @ + 1,
                              !.dev = [c \in DOMAIN @ |->
                                          IF c - base \in 0..(put - 1) THEN t.cache[c - base] ELSE @[c]],
                              !.dirty = (put # t.block_size),
                              !.ok = (put = t.block_size)]
    IN IF t.dirty THEN Put(Moved(t, t.block_size)) ELSE [t EXCEPT !.ok = TRUE]

device_cache_block(t, block) ==
    IF t.cached_block = block THEN [t EXCEPT !.ok = TRUE]
    ELSE Then(device_flush_cache(t), LAMBDA u : ReadBlock(u, block))

\* The blocks that hold cells loc .. loc + count - 1, and the cells of one of them.
Blocks(t, loc, count) ==
    [k \in 1..((loc + count - 1) \div t.block_size - loc \div t.block_size + 1) |->
        loc \div t.block_size + k - 1]
Chunk(t, block, loc, count) ==
    {c \in loc..(loc + count - 1) : c \div t.block_size = block}

_device_read(t, loc, count) ==
    LET Take(c, block) ==
            [c EXCEPT !.buf = @ \o [k \in 1..Cardinality(Chunk(c, block, loc, count)) |->
                                       c.cache[(loc + Len(c.buf) + k - 1) % c.block_size]]]
        Step(u, block) ==
            IF u.ok THEN Then(device_cache_block(u, block), LAMBDA c : Take(c, block)) ELSE u
    IN FoldLeft(Step, [t EXCEPT !.ok = TRUE, !.buf = <<>>], Blocks(t, loc, count))

\* The replaced cells are read before, and journaled only after, the whole
\* write; torn remembers the write that failed between its blocks.
_device_write(t, loc, data) ==
    LET count == Len(data)
        Put(c, block) ==
            [c EXCEPT !.dirty = TRUE,
                      !.cache = [i \in DOMAIN @ |->
                                    IF block * c.block_size + i \in Chunk(c, block, loc, count)
                                    THEN data[block * c.block_size + i - loc + 1] ELSE @[i]]]
        Step(u, block) ==
            IF u.ok THEN Then(device_cache_block(u, block), LAMBDA c : Put(c, block)) ELSE u
        Write(u) == FoldLeft(Step, u, Blocks(t, loc, count))
        Journal(done, old) ==
            IF done.ok THEN [done EXCEPT !.uninstall_data = Append(@, [loc |-> loc, data |-> old])]
            ELSE [done EXCEPT !.torn = loc..(loc + count - 1)]
    IN IF t.uninstalling THEN Write([t EXCEPT !.ok = TRUE])
       ELSE IF Len(t.uninstall_data) >= UNINSTALL_DATA_MAX THEN [t EXCEPT !.ok = FALSE]
       ELSE Then(_device_read(t, loc, count), LAMBDA saved : Journal(Write(saved), saved.buf))

\* device_read and device_write: the first failure goes to cleanup.
device_read(t, loc, count) == Then(t, LAMBDA u : _device_read(u, loc, count))
device_write(t, loc, data) == Then(t, LAMBDA u : _device_write(u, loc, data))
WriteAll(t, writes) == FoldLeft(LAMBDA u, w : device_write(u, w.loc, w.data), t, writes)
Abort(t) == [t EXCEPT !.ok = FALSE]

-----------------------------------------------------------------------------
(* bios_install.                                                            *)
Hints == << <<OEM, NTFS>>, <<FAT16, FAT>>, <<FAT32, FAT>>, <<OEM, FAT32_NAME>>, <<EXT, EXT_MAGIC>> >>

\* A file system found at offset refuses the place, or is erased by --force.
validate_or_force(t, offset) ==
    LET Check(u, hint) ==
        LET at == offset + hint[1]
            Found(r) == IF r.buf[1] # hint[2] THEN r
                        ELSE IF run.force THEN device_write(r, at, <<0>>)
                        ELSE [r EXCEPT !.valid = FALSE]
        IN IF u.valid THEN Then(device_read(u, at, 1), Found) ELSE u
    IN FoldLeft(Check, [t EXCEPT !.valid = TRUE], Hints)

\* The GPT header at the first logical block size that shows one, and the
\* secondary header it names.
ProbeGpt(t) ==
    LET Guess(u, size) ==
            LET Found(r) == IF r.buf[1] # EFI_PART THEN r
                            ELSE [r EXCEPT !.gpt = TRUE, !.lb_size = size, !.gpt_header = Header(r.buf)]
            IN IF u.gpt THEN u ELSE Then(device_read(u, size, HEADER), Found)
        Secondary(p) ==
            IF ~p.gpt THEN p
            ELSE Then(device_read(p, p.lb_size * p.gpt_header.alternate_lba, HEADER),
                      LAMBDA alt : [alt EXCEPT !.ok = (alt.buf[1] = EFI_PART)])
    IN Then(FoldLeft(Guess, t, lb_guesses), Secondary)

EntryBase(t) == t.gpt_header.entry_lba * t.lb_size
ReadEntry(t, i) ==
    LET offset == i * t.gpt_header.entry_size IN
    device_read(t, EntryBase(t) + offset, GPT_ENTRY)
EntryOverflows(t, i) == add_u64_overflow(EntryBase(t), i * t.gpt_header.entry_size)

Convertible(e) ==
    /\ e.start <= UINT32_MAX
    /\ e.end <= UINT32_MAX
    /\ e.end - e.start + 1 \in 0..UINT32_MAX
    /\ gpt2mbr_type(e.type) # -1

\* The partitions to convert; conv is FALSE when the GPT must stay.
PartsToConvert(t) ==
    LET Gather(u, i) ==
        LET Found(r, e) == IF e.guid = 0 THEN r
                           ELSE IF Len(r.parts) = NPARTS \/ ~Convertible(e) THEN [r EXCEPT !.conv = FALSE]
                           ELSE [r EXCEPT !.parts = Append(@, e)]
        IN IF ~u.ok \/ ~u.conv THEN u
           ELSE IF EntryOverflows(u, i) THEN [u EXCEPT !.conv = FALSE]
           ELSE Then(ReadEntry(u, i), LAMBDA r : Found(r, GptEntry(r.buf)))
    IN IF mul_u64_overflow(t.gpt_header.entry_lba, t.lb_size) THEN t
       ELSE FoldLeft(Gather, [t EXCEPT !.conv = TRUE], [k \in 1..t.gpt_header.entries |-> k - 1])

NukeWrites(t) ==
    LET empty(lba) == [loc |-> lba * t.lb_size, data |-> [k \in 1..t.lb_size |-> 0]]
        alt        == t.gpt_header.alternate_lba
    IN [k \in 1..PRIMARY |-> empty(k - 1)]
       \o IF alt >= SECONDARY - 1 THEN [k \in 1..SECONDARY |-> empty(alt - SECONDARY + k)] ELSE <<>>

EntryWrites(e, i) ==
    LET put(field, value) == [loc |-> TABLE + i * ENTRY + MbrField[field], data |-> <<value>>] IN
    << put("type", gpt2mbr_type(e.type)), put("start", e.start), put("count", e.end - e.start + 1),
       put("chs_start", lba2chs(e.start)), put("chs_end", lba2chs(e.end)) >>

\* An ISO image with a GPT gets an MBR in its place.
ConvertIso(t) ==
    LET Convert(p) ==
            IF ~p.conv THEN p
            ELSE [WriteAll(p, NukeWrites(p) \o << [loc |-> DISK_ID, data |-> <<RANDOM>>] >>
                              \o FlattenSeq([k \in 1..Len(p.parts) |-> EntryWrites(p.parts[k], k - 1)]))
                  EXCEPT !.gpt = FALSE]
        Iso(iso) == IF iso.buf[1] = CD001 THEN Then(PartsToConvert(iso), Convert) ELSE iso
    IN IF t.gpt /\ run.gpt2mbr_allowed THEN Then(device_read(t, ISO, 1), Iso) ELSE t

CheckEntry_any_start(t, i) ==
    Then(device_read(t, TABLE + i * ENTRY, 1),
         LAMBDA f : [f EXCEPT !.mbr = @ /\ f.buf[1] \in {0, 128}, !.active = @ \/ f.buf[1] >= 128])

\* One entry of the partition table: a strange flag is masked by --force or
\* makes the table invalid, a partition below MIN_LBA aborts.
CheckEntry(t, i) ==
    LET at == TABLE + i * ENTRY
        Flag(f, flag, bad) ==
            IF bad /\ run.force THEN device_write(f, at, <<128 * (flag \div 128)>>)
            ELSE [f EXCEPT !.mbr = @ /\ ~bad]
        Noted(f) ==
            Flag([f EXCEPT !.active = @ \/ f.buf[1] >= 128], f.buf[1], f.buf[1] \notin {0, 128})
        Type(type) ==
            IF type.buf[1] = 0 THEN type
            ELSE Then(device_read(type, at + MbrField.start, 1),
                      LAMBDA low : [low EXCEPT !.ok = (low.buf[1] >= MIN_LBA)])
    IN Then(device_read(Then(device_read(t, at, 1), Noted), at + MbrField.type, 1), Type)

CheckMbr(t) ==
    LET Valid(v) == IF ~v.valid THEN Abort(v)
                    ELSE IF v.active THEN v
                    ELSE device_write(v, TABLE, <<128>>)
        Entries(c) == IF c.mbr THEN Then(validate_or_force(c, 0), Valid) ELSE Abort(c)
    IN IF t.gpt THEN t
       ELSE Then(FoldLeft(CheckEntry, [t EXCEPT !.mbr = TRUE], [k \in 1..NPARTS |-> k - 1]), Entries)

\* The entry of the BIOS boot partition in t.buf: the one asked for, or the
\* first of its type.
FindBootPartition(t) ==
    LET Wanted(r, e) == [r EXCEPT !.ok = e.guid # 0 /\ (run.force \/ e.type = BIOS_BOOT)]
        Chosen ==
            IF run.part_ndx - 1 \notin 0..(t.gpt_header.entries - 1) \/ EntryOverflows(t, run.part_ndx - 1)
            THEN Abort(t)
            ELSE Then(ReadEntry(t, run.part_ndx - 1), LAMBDA r : Wanted(r, GptEntry(r.buf)))
        Detect(u, i) ==
            IF ~u.ok \/ u.valid THEN u
            ELSE IF EntryOverflows(u, i) THEN Abort(u)
            ELSE Then(ReadEntry(u, i), LAMBDA r : [r EXCEPT !.valid = (GptEntry(r.buf).type = BIOS_BOOT)])
    IN IF mul_u64_overflow(t.gpt_header.entry_lba, t.lb_size) THEN Abort(t)
       ELSE IF run.part_ndx # NONE THEN Chosen
       ELSE Then(FoldLeft(Detect, [t EXCEPT !.valid = FALSE], [k \in 1..t.gpt_header.entries |-> k - 1]),
                 LAMBDA d : [d EXCEPT !.ok = d.valid])

\* Where stage 2 goes on a GPT device: [t, loc].
LocateInGpt(t) ==
    LET Fits(e, size) == /\ e.end >= e.start
                         /\ ~mul_u64_overflow(e.end - e.start + 1, size)
                         /\ (e.end - e.start + 1) * size >= MIN_PART
                         /\ ~mul_u64_overflow(e.start, size)
        Valid(v) == [v EXCEPT !.ok = @ /\ v.valid]
        Place(p) == IF p.ok /\ Fits(GptEntry(p.buf), p.lb_size)
                    THEN LET loc == GptEntry(p.buf).start * p.lb_size
                         IN [t |-> Valid(validate_or_force(p, loc)), loc |-> loc]
                    ELSE [t |-> Abort(p), loc |-> SECTOR]
    IN Place(FindBootPartition(t))

Image(from, count) == [k \in 1..count |-> bootloader_img[from + k - 1]]

\* Faulty variant: the table is saved when it is already overwritten.
WriteStages_table_late(t, loc) ==
    LET Stages(time) ==
            WriteAll(time, << [loc |-> 0, data |-> Image(0, SECTOR)], [loc |-> loc, data |-> Image(SECTOR, STAGE2)],
                              [loc |-> LOC, data |-> <<loc>>], [loc |-> TIME, data |-> time.buf] >>)
        Table(orig) == device_flush_cache(device_write(orig, DISK_ID, orig.buf))
    IN Then(device_read(Then(device_read(t, TIME, 1), Stages), DISK_ID, SIGNATURE - DISK_ID), Table)

\* Stage 1 over the boot sector, stage 2, and then what of the old boot sector
\* is to stay: the timestamp and the disk id and partition table.
WriteStages(t, loc) ==
    LET Stages(orig, timestamp) ==
            WriteAll(orig, << [loc |-> 0,       data |-> Image(0, SECTOR)],
                              [loc |-> loc,     data |-> Image(SECTOR, STAGE2)],
                              [loc |-> LOC,     data |-> <<loc>>],
                              [loc |-> TIME,    data |-> timestamp],
                              [loc |-> DISK_ID, data |-> orig.buf] >>)
        Saved(time) == Then(device_read(time, DISK_ID, SIGNATURE - DISK_ID),
                            LAMBDA orig : Stages(orig, time.buf))
    IN Then(Then(device_read(t, TIME, 1), Saved), device_flush_cache)

reverse_uninstall_data_missing(t) == t

reverse_uninstall_data(t) == [t EXCEPT !.uninstall_data = Reverse(@)]

\* Puts back every journal entry, with one retry; ok is its result.
uninstall(t) ==
    LET Fresh(u) == [u EXCEPT !.dirty = FALSE, !.cached_block = NONE]
        Failed(u) == [u EXCEPT !.failed = @ \/ ~u.ok]
        Restore(u, ud) ==
            LET Retry(first) ==
                IF first.ok THEN first
                ELSE Failed(_device_write(Fresh(Failed(device_flush_cache(first))), ud.loc, ud.data))
            IN Retry(_device_write(u, ud.loc, ud.data))
        Result(r) == [r EXCEPT !.ok = @ /\ ~r.failed]
    IN Result(device_flush_cache(FoldLeft(Restore, Fresh([t EXCEPT !.uninstalling = TRUE, !.failed = FALSE]),
                                          t.uninstall_data)))

\* The uninstall data file: the number of entries, and the entries that were
\* written before an operation on the file failed.
NoFile == [count |-> NONE, entries |-> <<>>]
Completed(t, n) == \* of n operations, those before the first that fails
    Min({k - 1 : k \in {k \in 1..n : t.io + k \in FaultyOps}} \cup {n})
store_uninstall_data(t) ==
    LET n == Len(t.uninstall_data)
        k == Completed(t, n + 2)
    IN IF k < 2 THEN NoFile
       ELSE [count |-> n, entries |-> SubSeq(t.uninstall_data, 1, k - 2)]
load_uninstall_data_short(t) ==
    IF file = NoFile THEN Abort(t)
    ELSE [t EXCEPT !.io = @ + file.count + 2, !.ok = TRUE, !.uninstall_data = file.entries]

\* On an error it frees what it has loaded, and bios_install frees it once more on
\* its way out: the process has failed and the device is as it was.
load_uninstall_data(t) ==
    LET n == file.count + 2
        k == Completed(t, n)
    IN IF file = NoFile THEN Abort(t)
       ELSE [t EXCEPT !.io = @ + n,
                      !.ok = /\ file.count <= UNINSTALL_DATA_MAX
                             /\ k = n
                             /\ Len(file.entries) = file.count,
                      !.uninstall_data = file.entries]

-----------------------------------------------------------------------------
NewProcess(dev, io) ==
    [dev |-> dev, io |-> io, ok |-> TRUE, buf |-> <<>>, block_size |-> 1, cache |-> <<>>,
     cached_block |-> 0, dirty |-> FALSE, uninstalling |-> FALSE, uninstall_data |-> <<>>,
     failed |-> FALSE, torn |-> {}, gpt |-> FALSE, lb_size |-> 0, gpt_header |-> Header(<<0, 0, 0, 0, 0>>),
     conv |-> FALSE, parts |-> <<>>, mbr |-> FALSE, active |-> FALSE, valid |-> FALSE]

Init ==
    /\ run \in Runs
    /\ stage = "start"
    /\ s = NewProcess(Disk.image, 0)
    /\ stage2_loc = SECTOR
    /\ file = NoFile

\* A stage of bios_install ends in the next one, or in cleanup.
Goto(t, next) ==
    /\ s' = [t EXCEPT !.buf = <<>>]
    /\ stage' = IF t.ok THEN next ELSE "cleanup"
    /\ UNCHANGED <<run, file>>

Start ==
    /\ stage = "start"
    /\ s' = device_init(s)
    /\ stage' = IF s'.ok THEN "probe" ELSE "refused"
    /\ UNCHANGED <<run, stage2_loc, file>>

Probe == stage = "probe" /\ Goto(ProbeGpt(s), "convert") /\ UNCHANGED stage2_loc
Convert == stage = "convert" /\ Goto(ConvertIso(s), "check") /\ UNCHANGED stage2_loc
Check == stage = "check" /\ Goto(CheckMbr(s), "locate") /\ UNCHANGED stage2_loc

Locate ==
    /\ stage = "locate"
    /\ LET l == IF s.gpt THEN LocateInGpt(s) ELSE [t |-> s, loc |-> SECTOR]
       IN Goto(l.t, "write") /\ stage2_loc' = l.loc

Write == stage = "write" /\ Goto(WriteStages(s, stage2_loc), "finish") /\ UNCHANGED stage2_loc

\* cleanup after a success: the journal goes to the uninstall data file.
Finish ==
    /\ stage = "finish"
    /\ stage' = "installed"
    /\ s' = LET r == reverse_uninstall_data(s) IN
            IF run.uninstall_file THEN [r EXCEPT !.io = @ + Len(r.uninstall_data) + 2] ELSE r
    /\ file' = IF run.uninstall_file THEN store_uninstall_data(reverse_uninstall_data(s)) ELSE file
    /\ UNCHANGED <<run, stage2_loc>>

\* cleanup after a failure.
Undo ==
    /\ stage = "cleanup"
    /\ s' = uninstall(reverse_uninstall_data(s))
    /\ stage' = IF s'.ok THEN "undone" ELSE "undo failed"
    /\ UNCHANGED <<run, stage2_loc, file>>

\* A later `bios-install --uninstall` of the same device.
Uninstall ==
    /\ stage = "installed" /\ run.uninstall_file
    /\ LET i == device_init(NewProcess(s.dev, s.io))
           l == IF i.ok THEN load_uninstall_data(i) ELSE i
       IN /\ s' = IF l.ok THEN uninstall(l) ELSE l
          /\ stage' = IF s'.ok THEN "uninstalled" ELSE "uninstall failed"
    /\ UNCHANGED <<run, stage2_loc, file>>

Exited == stage \in {"refused", "installed", "undone", "undo failed", "uninstalled", "uninstall failed"}
          /\ UNCHANGED vars

Next == Start \/ Probe \/ Convert \/ Check \/ Locate \/ Write \/ Finish \/ Undo \/ Uninstall \/ Exited

Spec == Init /\ [][Next]_vars

-----------------------------------------------------------------------------
Changed == {c \in DOMAIN s.dev : s.dev[c] # Disk.image[c]}

\* When bios_install fails and its undo reports no error, the device is as it
\* was before, wherever the failure struck and however the replaced ranges
\* overlap - but for the one write that failed between two of its blocks, which
\* _device_write has not journaled yet.
UndoExact == stage = "undone" => Changed \subseteq s.torn

\* --uninstall reports success only when the device is again what it was before
\* the installation: a data file cut short by store_uninstall_data, whose
\* result bios_install ignores, is refused as a whole.
UninstallRestores == stage = "uninstalled" => Changed = {}

\* The partition table as a finished installation leaves it: the old one with
\* forced flags and one active partition, or the converted GPT.
ExpectedTable(i, field) ==
    LET old == Disk.image[TABLE + i * ENTRY + MbrField[field]] IN
    IF ~s.conv
    THEN IF field # "flag" THEN old
         ELSE IF i = 0 /\ ~s.active /\ ~s.gpt THEN 128
         ELSE IF old \in {0, 128} \/ s.gpt THEN old ELSE 128 * (old \div 128)
    ELSE IF field = "flag" THEN (IF i = 0 THEN 128 ELSE 0)
    ELSE IF i >= Len(s.parts) THEN 0
    ELSE LET e == s.parts[i + 1] IN
         CASE field = "type"  -> gpt2mbr_type(e.type)
           [] field = "start" -> e.start
           [] field = "count" -> e.end - e.start + 1

\* The CHS address v names lba, or is the largest one when lba is out of its reach.
ChsNames(v, lba) ==
    LET b1 == (v \div 256) % 256
        cylinder == 256 * (b1 \div 64) + v \div 65536
    IN IF lba < 1024 * 255 * 63 THEN (cylinder * 255 + (v % 256)) * 63 + (b1 % 64) - 1 = lba
       ELSE v = 254 + 256 * 255 + 65536 * 255

\* After a successful installation the device holds stage 1 with the place of
\* stage 2, stage 2 whole at that place, and the timestamp, disk id and
\* partition table the device had or was given by the conversion, although the
\* boot sector, which holds them, has been overwritten in between.
StagesInPlace ==
    stage = "installed" =>
        /\ \A c \in (0..(SECTOR - 1)) \ ({TIME, LOC} \cup DISK_ID..(SIGNATURE - 1)) : s.dev[c] = bootloader_img[c]
        /\ \A i \in 0..(STAGE2 - 1) : s.dev[stage2_loc + i] = bootloader_img[SECTOR + i]
        /\ s.dev[LOC] = stage2_loc
        /\ s.dev[TIME] = IF s.conv THEN 0 ELSE Disk.image[TIME]
        /\ s.dev[DISK_ID] = IF s.conv THEN RANDOM ELSE Disk.image[DISK_ID]
        /\ \A i \in 0..(NPARTS - 1), field \in DOMAIN MbrField :
               LET cell == s.dev[TABLE + i * ENTRY + MbrField[field]] IN
               CASE s.conv /\ i < Len(s.parts) /\ field = "chs_start" -> ChsNames(cell, s.parts[i + 1].start)
                 [] s.conv /\ i < Len(s.parts) /\ field = "chs_end" -> ChsNames(cell, s.parts[i + 1].end)
                 [] OTHER -> cell = ExpectedTable(i, field)

\* The cells in logical blocks first .. last of the disk.
LogicalBlocks(first, last) == {c \in DOMAIN Disk.image : c \div Disk.lb \in first..last}

\* A partition that --force gives to stage 2 by its number, whatever its type.
Given ==
    IF run.force /\ run.part_ndx \in DOMAIN Disk.parts
    THEN LogicalBlocks(Disk.parts[run.part_ndx].start, Disk.parts[run.part_ndx].end) ELSE {}

\* The conversion takes the first PRIMARY and the last SECONDARY blocks for the GPTs,
\* of whatever size a block is.  What starts below MIN_LBA is refused afterwards.
Wiped ==
    IF Disk.lb = 0 \/ ~run.gpt2mbr_allowed \/ Disk.image[ISO] # CD001 THEN {}
    ELSE LET lbas == Size \div Disk.lb
         IN LogicalBlocks(lbas - SECONDARY, lbas - 1)
            \cup IF stage = "installed" THEN {} ELSE LogicalBlocks(0, PRIMARY - 1)

\* No partition but the BIOS boot partition, or the one --force names
\* (limine.c:1089-1094), is ever written, neither by the stages nor by the undoing of
\* anything, not even an undo that fails.  The conversion damages data only in the
\* last 33 logical blocks, or, when it is then undone, in the first 34
\* (limine.c:896-906): with blocks of 4096 bytes these are more than the GPTs.
PartitionsUntouched ==
    Changed \cap Disk.data \subseteq Given \cup Wiped
=============================================================================
