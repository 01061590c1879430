----------------------------- MODULE DataFiles -----------------------------
(***************************************************************************)
(* What the system keeps in files: ticks, the order journal, and the daily *)
(* directories.  The three are independent; a behaviour looks at one of    *)
(* them, config.part.  A replay begins when nobody records.                *)
(***************************************************************************)
EXTENDS Replay, JournalFile, Rotation

data_vars == <<vars, journal_vars, rotation_vars>>

DataInit == Init /\ JournalInit /\ RotationInit

RecordStep ==
    /\ config.part = "ticks" /\ At("idle")
    /\ StoreNext
    /\ UNCHANGED play_vars

ReplayStep ==
    /\ config.part = "replay"
    /\ \/ StoreOpen /\ UNCHANGED play_vars
       \/ Load
       \/ Player
       \/ Other
       \/ TimePasses

DataNext ==
    \/ /\ RecordStep \/ ReplayStep
       /\ UNCHANGED <<journal_vars, rotation_vars>>
    \/ /\ config.part = "journal"
       /\ JournalNext
       /\ UNCHANGED <<vars, rotation_vars>>
    \/ /\ config.part = "rotation"
       /\ RotationNext
       /\ UNCHANGED <<vars, journal_vars>>

DataSpec == DataInit /\ [][DataNext]_data_vars

\* The threads of a replay are scheduled, and time passes.
FairSpec ==
    /\ DataSpec
    /\ WF_data_vars(ReplayStep /\ UNCHANGED <<journal_vars, rotation_vars>>)

\* Types, for the fields of the classes that the files belong to.
TypeOK ==
    /\ owner \in {"nobody", "recorder", "store"} /\ (writer = None <=> owner = "nobody")
    /\ {recording, running, paused, merging} \subseteq BOOLEAN
    /\ Disk # None => Disk.safe \in 0 .. Len(Disk.data)
    /\ clock.speed \in Nat /\ clock.sleep \in Nat
    /\ next_sequence \in Nat \ {0}
    /\ last_day \in -1 .. Month - 1 /\ dirs \subseteq 0 .. MaxDay

\* The tick file is sound at every moment, so after every crash: what was
\* flushed is there, in order, at the offsets of the index, under a header
\* that is right or says nothing (write, flush and close of BinaryWriter).
FilesAreSound ==
    TypeOK /\ FlushedSurvives /\ RecordedInOrder /\ OffsetsHold /\ HeaderHonest

==============================================================================
