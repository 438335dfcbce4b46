-------------------------- MODULE SeqlockSnapshot --------------------------
(***************************************************************************)
(* Values of several fields that one thread publishes and others read      *)
(* without a lock: the host context (written by the control thread that    *)
(* configures the DSP, plugin_processor.cpp:2670), the transport (by every *)
(* audio block, 2808) and the mixer of a SoundFont player (by the block    *)
(* that drains its telemetry, engine_host.cpp:53).  A sequence number is   *)
(* odd while the fields change; a reader copies the fields and tries again *)
(* if the number moved, as often as it takes (context, mixer) or three     *)
(* times, after which it leaves the value out (transport).                 *)
(*                                                                         *)
(* The value of a field is the number of its publication.  The steps are   *)
(* in one order for all threads: the model does not reorder the relaxed    *)
(* loads of readHostContext().                                             *)
(***************************************************************************)
EXTENDS Naturals

CONSTANTS
    Fields,           \* the fields of a snapshot
    PatientReaders,   \* readers that try until they succeed
    HastyReaders,     \* readers that give up
    MaxAttempts,      \* attempts of those (3 in the code)
    MaxPublications   \* bound on the publications

ASSUME SnapshotAssumption == MaxAttempts \in Nat /\ MaxPublications \in Nat

Readers == PatientReaders \union HastyReaders

VARIABLES
    sequence,   \* the sequence number
    field,      \* [Fields -> the publication the field is from]
    unwritten,  \* the fields the publisher has still to write
    reader      \* [Readers -> the state of the read]

snapshotVars == <<sequence, field, unwritten, reader>>

NotReading == [at |-> "idle", sequence |-> 0, copy |-> [f \in Fields |-> 0], copied |-> {},
            attempts |-> 0, since |-> 0]

SnapshotInit ==
    /\ sequence = 0
    /\ field = [f \in Fields |-> 0]
    /\ unwritten = {}
    /\ reader = [r \in Readers |-> NotReading]

Odd(n) == n % 2 = 1

\* The number of the publication that is going on, or was the last.
Publication == (sequence + 1) \div 2

BeginPublication ==
    /\ ~Odd(sequence) /\ Publication < MaxPublications
    /\ sequence' = sequence + 1
    /\ unwritten' = Fields
    /\ UNCHANGED <<field, reader>>

WriteField ==
    /\ \E f \in unwritten :
          /\ field' = [field EXCEPT ![f] = Publication]
          /\ unwritten' = unwritten \ {f}
    /\ UNCHANGED <<sequence, reader>>

EndPublication ==
    /\ Odd(sequence) /\ unwritten = {}
    /\ sequence' = sequence + 1
    /\ UNCHANGED <<field, unwritten, reader>>

\* The last publication that is complete.
Complete == sequence \div 2

StartRead(r) ==
    /\ reader[r].at \in {"idle", "captured", "omitted"}
    /\ reader' = [reader EXCEPT ![r] = [NotReading EXCEPT !.at = "attempt", !.since = Complete]]
    /\ UNCHANGED <<sequence, field, unwritten>>

\* An attempt ends: another one, or the value is left out.
Failed(r) ==
    LET spent == reader[r].attempts + 1 IN
    IF r \in HastyReaders
    THEN [reader[r] EXCEPT !.attempts = spent,
                           !.at = IF spent = MaxAttempts THEN "omitted" ELSE "attempt"]
    ELSE [reader[r] EXCEPT !.at = "attempt"]

LoadSequence(r) ==
    /\ reader[r].at = "attempt"
    /\ reader' = [reader EXCEPT ![r] =
                    IF Odd(sequence) THEN Failed(r)
                    ELSE [@ EXCEPT !.at = "fields", !.sequence = sequence, !.copied = {}]]
    /\ UNCHANGED <<sequence, field, unwritten>>

CopyField(r) ==
    /\ reader[r].at = "fields"
    /\ \E f \in Fields \ reader[r].copied :
          reader' = [reader EXCEPT ![r].copy[f] = field[f], ![r].copied = @ \union {f}]
    /\ UNCHANGED <<sequence, field, unwritten>>

\* Mutant: the number only has to be even again.
UnchangedIfEven(r) == ~Odd(sequence)

UnchangedSince(r) == reader[r].sequence = sequence

Confirm(r) ==
    /\ reader[r].at = "fields" /\ reader[r].copied = Fields
    /\ reader' = [reader EXCEPT ![r] =
                    IF UnchangedSince(r) THEN [@ EXCEPT !.at = "captured"] ELSE Failed(r)]
    /\ UNCHANGED <<sequence, field, unwritten>>

SnapshotNext ==
    \/ BeginPublication \/ WriteField \/ EndPublication
    \/ \E r \in Readers : StartRead(r) \/ LoadSequence(r) \/ CopyField(r) \/ Confirm(r)

SnapshotSpec == SnapshotInit /\ [][SnapshotNext]_snapshotVars

---------------------------------------------------------------------------

\* What a reader captures is one publication, whole, and not one that had been
\* replaced before the read began.
SnapshotIsCurrent ==
    \A r \in Readers : reader[r].at = "captured" =>
       \E n \in reader[r].since .. Publication : \A f \in Fields : reader[r].copy[f] = n
=============================================================================
