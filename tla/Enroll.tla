------------------------------- MODULE Enroll -------------------------------
(***************************************************************************)
(* `limine enroll-config`: it looks for CONFIG_B2SUM_SIGNATURE in a        *)
(* bootloader executable and writes the checksum of a configuration, or    *)
(* zeroes, behind it.  Bytes are small integers; the checksum is HASH      *)
(* bytes long (128 in the program).                                        *)
(***************************************************************************)
EXTENDS Integers, Sequences

CONSTANTS Files,       \* the executables
          Signature, HASH

VARIABLES file,        \* the executable on disk
          original,    \* as it was when the program started
          pos, checked_count, checksum_loc,
          phase

enrollVars == <<file, original, pos, checked_count, checksum_loc, phase>>

min_size == Len(Signature) + HASH
CLEARED == 7
B2SUM == 8

EnrollInit ==
    /\ original \in Files
    /\ file = original
    /\ pos = 0 /\ checked_count = 0 /\ checksum_loc = -1
    /\ phase = IF Len(original) < min_size THEN "failed" ELSE "search"

Search_no_restart ==
    /\ phase = "search" /\ pos < Len(file) - min_size + 1
    /\ LET hit == file[pos + 1] = Signature[checked_count + 1] IN
       /\ pos' = pos + 1
       /\ checked_count' = IF hit THEN checked_count + 1 ELSE 0
       /\ checksum_loc' = IF checked_count' = Len(Signature) THEN pos + 1 ELSE checksum_loc
       /\ phase' = IF checksum_loc' # -1 THEN "write" ELSE phase
    /\ UNCHANGED <<file, original>>

\* One turn of the search loop.  A mismatch goes back to the byte after the one
\* the failed match began with.
Search ==
    /\ phase = "search" /\ pos < Len(file) - min_size + 1
    /\ IF file[pos + 1] # Signature[checked_count + 1]
       THEN /\ pos' = pos - checked_count + 1
            /\ checked_count' = 0
            /\ UNCHANGED <<checksum_loc, phase>>
       ELSE /\ checked_count' = checked_count + 1
            /\ IF checked_count' = Len(Signature)
               THEN pos' = pos /\ checksum_loc' = pos + 1 /\ phase' = "write"
               ELSE pos' = pos + 1 /\ UNCHANGED <<checksum_loc, phase>>
    /\ UNCHANGED <<file, original>>

NotFound ==
    /\ phase = "search" /\ pos >= Len(file) - min_size + 1
    /\ phase' = "failed"
    /\ UNCHANGED <<file, original, pos, checked_count, checksum_loc>>

\* The whole image is written back; written bytes of it reach the file.
WriteBack(value, written) ==
    /\ phase = "write"
    /\ file' = [k \in DOMAIN file |->
                  IF k <= written /\ k - 1 - checksum_loc \in 0..(HASH - 1) THEN value ELSE file[k]]
    /\ phase' = IF written = Len(file) THEN "enrolled" ELSE "failed"
    /\ UNCHANGED <<original, pos, checked_count, checksum_loc>>

EnrollNext ==
    \/ Search
    \/ NotFound
    \/ \E value \in {CLEARED, B2SUM}, written \in 0..Len(file) : WriteBack(value, written)

EnrollSpec == EnrollInit /\ [][EnrollNext]_enrollVars

-----------------------------------------------------------------------------
Occurs(at) == /\ at + Len(Signature) <= Len(original)
              /\ \A k \in 1..Len(Signature) : original[at + k] = Signature[k]

\* enroll_config writes its checksum behind the first signature of the
\* executable and nowhere else, even when the write fails half way; and it
\* reports that there is none only if no signature ends early enough for the
\* loop's bound, which leaves room for the checksum and for another signature.
EnrollsBehindFirstSignature ==
    /\ \A k \in DOMAIN file : file[k] # original[k] =>
           \E at \in 0..Len(original) :
               /\ Occurs(at)
               /\ \A b \in 0..(at - 1) : ~Occurs(b)
               /\ k - 1 - (at + Len(Signature)) \in 0..(HASH - 1)
    /\ phase = "enrolled" => checksum_loc + HASH <= Len(file)
    /\ phase = "failed" /\ checksum_loc = -1 =>
           \A at \in 0..Len(original) : Occurs(at) => at + Len(Signature) + min_size > Len(original) + 1
=============================================================================
