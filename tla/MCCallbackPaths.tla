-------------------------- MODULE MCCallbackPaths --------------------------
(***************************************************************************)
(* What the audio callback writes and reads beside other threads without a *)
(* lock: commands, telemetry of the engine, MIDI telemetry, snapshots, and *)
(* the ring of the bypass path.  They share no state, so a behaviour is of *)
(* one of them, chosen at the start, and the others do not move.           *)
(***************************************************************************)
EXTENDS SpscQueue, TelemetryRing, MidiTelemetry, SeqlockSnapshot, DryDelay

VARIABLE path

Paths == {"queue", "telemetry", "midi", "snapshot", "delay"}

\* The other paths stand still.
Still(others) ==
    /\ "queue" \in others => UNCHANGED vars
    /\ "telemetry" \in others => UNCHANGED ringVars
    /\ "midi" \in others => UNCHANGED midiVars
    /\ "snapshot" \in others => UNCHANGED snapshotVars
    /\ "delay" \in others => UNCHANGED delayVars

PathsInit ==
    /\ path \in Paths
    /\ Init /\ RingInit /\ MidiInit /\ SnapshotInit /\ DelayInit

PathsNext ==
    /\ \/ path = "queue" /\ Next
       \/ path = "telemetry" /\ RingNext
       \/ path = "midi" /\ MidiNext
       \/ path = "snapshot" /\ SnapshotNext
       \/ path = "delay" /\ DelayNext
    /\ Still(Paths \ {path})
    /\ path' = path

PathsSpec ==
    PathsInit /\ [][PathsNext]_<<vars, ringVars, midiVars, snapshotVars, delayVars, path>>
=============================================================================
