----------------------------- MODULE AtomicWrite -----------------------------
(***************************************************************************)
(* _write_atomic of the ManifestQueue and of DocumentFileStorage, at the   *)
(* grain of system calls: the payload goes to <name>.tmp, which then takes *)
(* the place of <name>. The temporary name is the same for every writer.   *)
(*                                                                         *)
(* A file is an inode, which several names, writers and readers may share. *)
(* Data and directory reach the disk when they are synchronised or when    *)
(* the system sees fit.                                                    *)
(***************************************************************************)
EXTENDS Integers, Sequences, FiniteSets

CONSTANTS
    Writers, \* calls of _write_atomic, each with a payload of its own
    Blocks,  \* the blocks of its payload
    Inodes,  \* inodes
    None,    \* stands for no inode
    Hole     \* a block nobody has written

ASSUME WritersAssumption ==
    /\ Blocks \in [Writers -> Nat \ {0}]
    /\ None \notin Inodes /\ None \notin Writers /\ Hole \notin Writers

VARIABLES
    alone,    \* the callers take turns, as the jobs of one worker do
    dir,      \* what "temporary" and "destination" name
    data,     \* the blocks of each inode, by their writer
    diskDir,  \* the directory on the disk
    synced,   \* the inodes whose data is on the disk
    pc,       \* where each writer is
    fd,       \* the inode it has open
    pos,      \* the blocks it has written
    reader,   \* the inode a reader has open
    mixed     \* writers have been at work at the same time

writerVars == <<pc, fd, pos>>
diskVars == <<diskDir, synced>>
vars == <<alone, dir, data, diskVars, writerVars, reader, mixed>>

Whole(w) == [b \in 1 .. Blocks[w] |-> w]

\* A version, if all of it is there and nothing else.
Content(blocks) ==
    IF \E w \in Writers : blocks = Whole(w)
    THEN CHOOSE w \in Writers : blocks = Whole(w)
    ELSE Hole

InUse ==
    {dir[n] : n \in DOMAIN dir} \cup {diskDir[n] : n \in DOMAIN diskDir}
    \cup {fd[w] : w \in Writers} \cup {reader}

Active(w) == pc[w] \in {"write", "fsync", "replace"}

-----------------------------------------------------------------------------
(* The writers. *)

\* Mutant: open("r+b") of a file that is there, which keeps what it holds.
OpenKeeps(w) ==
    /\ ~ Active(w)
    /\ alone => \A v \in Writers : ~ Active(v)
    /\ IF dir.temporary # None
       THEN fd' = [fd EXCEPT ![w] = dir.temporary] /\ UNCHANGED <<dir, data>>
       ELSE \E i \in Inodes \ InUse :
            /\ dir' = [dir EXCEPT !.temporary = i]
            /\ fd' = [fd EXCEPT ![w] = i]
            /\ data' = [data EXCEPT ![i] = <<>>]
    /\ synced' = synced \ {fd'[w]}
    /\ pc' = [pc EXCEPT ![w] = "write"]
    /\ mixed' = (mixed \/ \E v \in Writers : Active(v))
    /\ UNCHANGED <<alone, diskDir, pos, reader>>

\* open("wb") truncates the file if there is one.
Open(w) ==
    /\ ~ Active(w)
    /\ alone => \A v \in Writers : ~ Active(v)
    /\ IF dir.temporary # None
       THEN /\ fd' = [fd EXCEPT ![w] = dir.temporary]
            /\ data' = [data EXCEPT ![dir.temporary] = <<>>]
            /\ synced' = synced \ {dir.temporary}
            /\ UNCHANGED dir
       ELSE \E i \in Inodes \ InUse :
            /\ dir' = [dir EXCEPT !.temporary = i]
            /\ fd' = [fd EXCEPT ![w] = i]
            /\ data' = [data EXCEPT ![i] = <<>>]
            /\ synced' = synced \ {i}
    /\ pc' = [pc EXCEPT ![w] = "write"]
    /\ mixed' = (mixed \/ \E v \in Writers : Active(v))
    /\ UNCHANGED <<alone, diskDir, pos, reader>>

\* A block at a position, whatever has become of the file since it was opened.
Patched(blocks, p, w) ==
    [b \in 1 .. (IF p > Len(blocks) THEN p ELSE Len(blocks)) |->
        IF b = p THEN w ELSE IF b \in DOMAIN blocks THEN blocks[b] ELSE Hole]

WriteBlock(w) ==
    /\ pc[w] = "write" /\ pos[w] < Blocks[w]
    /\ data' = [data EXCEPT ![fd[w]] = Patched(@, pos[w] + 1, w)]
    /\ pos' = [pos EXCEPT ![w] = @ + 1]
    /\ synced' = synced \ {fd[w]}
    /\ UNCHANGED <<alone, dir, diskDir, pc, fd, reader, mixed>>

\* flush() has nothing left to write.
Flush(w) ==
    /\ pc[w] = "write" /\ pos[w] = Blocks[w]
    /\ pc' = [pc EXCEPT ![w] = "fsync"]
    /\ pos' = [pos EXCEPT ![w] = 0]
    /\ UNCHANGED <<alone, dir, data, diskVars, fd, reader, mixed>>

\* Mutant: the file is still open when it takes its name.
StillOpen(w) ==
    /\ pc[w] = "fsync"
    /\ synced' = synced \cup {fd[w]}
    /\ pc' = [pc EXCEPT ![w] = "replace"]
    /\ UNCHANGED <<alone, dir, data, diskDir, fd, pos, reader, mixed>>

\* Mutant: the file is closed without fsync.
NoFsync(w) ==
    /\ pc[w] = "fsync"
    /\ fd' = [fd EXCEPT ![w] = None]
    /\ pc' = [pc EXCEPT ![w] = "replace"]
    /\ UNCHANGED <<alone, dir, data, diskVars, pos, reader, mixed>>

\* fsync, and the end of the with block closes the file.
Fsync(w) ==
    /\ pc[w] = "fsync"
    /\ synced' = synced \cup {fd[w]}
    /\ fd' = [fd EXCEPT ![w] = None]
    /\ pc' = [pc EXCEPT ![w] = "replace"]
    /\ UNCHANGED <<alone, dir, data, diskDir, pos, reader, mixed>>

\* Mutant: the old file is removed before the rename.
RemoveAndRename(w) ==
    /\ pc[w] = "replace"
    /\ pc' = [pc EXCEPT ![w] = IF dir.temporary = None THEN "raised" ELSE "done"]
    /\ dir' = [temporary |-> None, destination |-> dir.temporary]
    /\ UNCHANGED <<alone, data, diskVars, fd, pos, reader, mixed>>

\* os.replace moves what the temporary name stands for now; FileNotFoundError if nothing.
Replace(w) ==
    /\ pc[w] = "replace"
    /\ IF dir.temporary = None
       THEN pc' = [pc EXCEPT ![w] = "raised"] /\ UNCHANGED dir
       ELSE /\ pc' = [pc EXCEPT ![w] = "done"]
            /\ dir' = [temporary |-> None, destination |-> dir.temporary]
    /\ UNCHANGED <<alone, data, diskVars, fd, pos, reader, mixed>>

-----------------------------------------------------------------------------
(* Readers: _read, or whoever reads an artifact, whenever it gets to read what it opened. *)

Read ==
    /\ reader' = dir.destination
    /\ UNCHANGED <<alone, dir, data, diskVars, writerVars, mixed>>

-----------------------------------------------------------------------------
(* The system. *)

\* The directory reaches the disk.
Commit ==
    /\ diskDir # dir
    /\ diskDir' = dir
    /\ UNCHANGED <<alone, dir, data, synced, writerVars, reader, mixed>>

\* A killed process leaves its temporary file.
Kill(w) ==
    /\ Active(w)
    /\ pc' = [pc EXCEPT ![w] = "idle"]
    /\ fd' = [fd EXCEPT ![w] = None]
    /\ pos' = [pos EXCEPT ![w] = 0]
    /\ UNCHANGED <<alone, dir, data, diskVars, reader, mixed>>

\* Data that was not synchronised is there or is not.
PowerLoss ==
    /\ dir' = diskDir
    /\ \E lost \in SUBSET (Inodes \ synced) :
         data' = [i \in Inodes |-> IF i \in lost THEN <<Hole>> ELSE data[i]]
    /\ synced' = Inodes
    /\ pc' = [w \in Writers |-> "idle"]
    /\ fd' = [w \in Writers |-> None]
    /\ pos' = [w \in Writers |-> 0]
    /\ reader' = None
    /\ UNCHANGED <<alone, diskDir, mixed>>

-----------------------------------------------------------------------------

NoFiles == [temporary |-> None, destination |-> None]

Init ==
    /\ alone \in BOOLEAN
    /\ dir = NoFiles /\ diskDir = NoFiles
    /\ data = [i \in Inodes |-> <<>>] /\ synced = Inodes
    /\ pc = [w \in Writers |-> "idle"]
    /\ fd = [w \in Writers |-> None]
    /\ pos = [w \in Writers |-> 0]
    /\ reader = None
    /\ mixed = FALSE

WriterStep(w) ==
    Open(w) \/ WriteBlock(w) \/ Flush(w) \/ Fsync(w) \/ Replace(w) \/ Kill(w)

Next ==
    \/ \E w \in Writers : WriterStep(w)
    \/ Read \/ Commit \/ PowerLoss

Spec == Init /\ [][Next]_vars

-----------------------------------------------------------------------------
(* What callers rely on. *)

Directory == [temporary : Inodes \cup {None}, destination : Inodes \cup {None}]

\* The types of the state; a writer has a file open exactly while it writes and
\* synchronises it.
TypeOK ==
    /\ alone \in BOOLEAN /\ mixed \in BOOLEAN
    /\ dir \in Directory /\ diskDir \in Directory
    /\ data \in [Inodes -> Seq(Writers \cup {Hole})] /\ synced \subseteq Inodes
    /\ pc \in [Writers -> {"idle", "write", "fsync", "replace", "done", "raised"}]
    /\ fd \in [Writers -> Inodes \cup {None}]
    /\ \A w \in Writers : fd[w] # None <=> pc[w] \in {"write", "fsync"}
    /\ pos \in [Writers -> Nat] /\ \A w \in Writers : pos[w] <= Blocks[w]
    /\ reader \in Inodes \cup {None}

Named(i) == IF i = None THEN None ELSE Content(data[i])
Durable(i) == IF i \in synced \cup {None} THEN Named(i) ELSE Hole

\* A behaviour with concurrent writers is none of the atomic file.
IfAlone(v) == IF alone THEN v ELSE None

File == INSTANCE AtomicFile WITH
          Versions <- Writers,
          Absent   <- None,
          file     <- IfAlone(Named(dir.destination)),
          disk     <- IfAlone(Durable(diskDir.destination)),
          seen     <- IfAlone(Named(reader))

\* While its callers take turns, _write_atomic replaces the file at one instant: neither a
\* reader, nor a killed writer, nor a loss of power ever finds less than a whole version
\* (manifest_queue.py:147-158, document_storage.py:128-139).
WritesAreAtomic == File!FileSpec

\* Two callers that do not, as two requests that publish the same job, can leave a file
\* that is no version at all; nothing else can.
TornOnlyIfMixed ==
    dir.destination # None /\ Content(data[dir.destination]) = Hole => mixed

\* Still, whoever has returned or found its temporary file gone leaves a file behind, and
\* only a concurrent caller can take the temporary file away.
FinishedLeavesFile ==
    /\ \A w \in Writers : pc[w] \in {"done", "raised"} => dir.destination # None
    /\ \A w \in Writers : pc[w] = "raised" => mixed
=============================================================================
