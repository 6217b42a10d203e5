-------------------------- MODULE AtomicWrite_proofs --------------------------
(***************************************************************************)
(* _write_atomic for any number of writers, blocks and inodes: while its   *)
(* callers take turns it is a write of the atomic file, and what goes      *)
(* wrong when they do not stays within bounds.                             *)
(***************************************************************************)
EXTENDS AtomicWrite, TLAPS

\* A writer has written some of its blocks only while it writes.
Positions == \A w \in Writers : pc[w] # "write" => pos[w] = 0

\* Who is at work has a temporary file, unless somebody else has renamed it. The callers
\* who take turns are never at work together.
Outcomes ==
    /\ alone => ~ mixed
    /\ \A w \in Writers : Active(w) => dir.temporary # None \/ dir.destination # None
    /\ FinishedLeavesFile

\* The part of a payload that has been written.
Prefix(w, n) == [b \in 1 .. n |-> w]

WorkOf(w) ==
    /\ dir.temporary # None
    /\ pc[w] \in {"write", "fsync"} => fd[w] = dir.temporary
    /\ pc[w] = "write" => data[dir.temporary] = Prefix(w, pos[w])
    /\ pc[w] \in {"fsync", "replace"} => data[dir.temporary] = Whole(w)
    /\ pc[w] = "replace" => dir.temporary \in synced

\* The inodes somebody relies on.
Relied == {dir.destination, diskDir.destination, reader} \ {None}

\* While no two writers have been at work together: there is at most one at work, its file
\* is the temporary one, nobody else relies on that, and what is relied on is a version
\* that is on the disk.
Quiet ==
    /\ \A v, w \in Writers : Active(v) /\ Active(w) => v = w
    /\ \A w \in Writers : Active(w) => WorkOf(w)
    /\ dir.temporary # None => dir.temporary \notin Relied
    /\ diskDir.temporary # None => diskDir.temporary # diskDir.destination
    /\ \A i \in Relied : i \in synced /\ \E w \in Writers : data[i] = Whole(w)

Inv == TypeOK /\ Positions /\ Outcomes /\ (~ mixed => Quiet)

-----------------------------------------------------------------------------
(* Contents. *)

\* A version is known by its blocks.
LEMMA WholeIsVersion ==
    ASSUME NEW w \in Writers
    PROVE  Content(Whole(w)) \in Writers /\ Content(Whole(w)) # Hole
<1>1. \E v \in Writers : Whole(w) = Whole(v) OBVIOUS
<1>2. Content(Whole(w)) \in Writers BY <1>1, Zenon DEF Content
<1> QED BY <1>2, WritersAssumption

\* A block after the others.
LEMMA PatchedPrefix ==
    ASSUME NEW w \in Writers, NEW n \in Nat
    PROVE  Patched(Prefix(w, n), n + 1, w) = Prefix(w, n + 1)
<1> DEFINE s == Prefix(w, n)
<1>1. Len(s) = n /\ DOMAIN s = 1 .. n /\ \A b \in 1 .. n : s[b] = w BY DEF Prefix
<1> HIDE DEF s
<1>2. Patched(s, n + 1, w) =
        [b \in 1 .. n + 1 |-> IF b = n + 1 THEN w ELSE IF b \in DOMAIN s THEN s[b] ELSE Hole]
    BY <1>1 DEF Patched
<1>3. \A b \in 1 .. n + 1 :
          (IF b = n + 1 THEN w ELSE IF b \in DOMAIN s THEN s[b] ELSE Hole) = w
    BY <1>1
<1>4. Patched(s, n + 1, w) = Prefix(w, n + 1) BY <1>2, <1>3 DEF Prefix
<1> QED BY <1>4 DEF s

\* A block anywhere leaves a sequence of blocks.
LEMMA PatchedType ==
    ASSUME NEW blocks \in Seq(Writers \cup {Hole}), NEW p \in Nat \ {0}, NEW w \in Writers
    PROVE  Patched(blocks, p, w) \in Seq(Writers \cup {Hole})
<1> DEFINE n == IF p > Len(blocks) THEN p ELSE Len(blocks)
<1>1. n \in Nat OBVIOUS
<1>2. \A b \in 1 .. n :
          (IF b = p THEN w ELSE IF b \in DOMAIN blocks THEN blocks[b] ELSE Hole)
              \in Writers \cup {Hole}
    OBVIOUS
<1>3. [b \in 1 .. n |-> IF b = p THEN w ELSE IF b \in DOMAIN blocks THEN blocks[b] ELSE Hole]
          \in [1 .. n -> Writers \cup {Hole}]
    BY <1>2
<1>4. \A f \in [1 .. n -> Writers \cup {Hole}] : f \in Seq(Writers \cup {Hole}) BY <1>1
<1> QED BY <1>3, <1>4 DEF Patched

-----------------------------------------------------------------------------
(* Types. *)

Labels == {"idle", "write", "fsync", "replace", "done", "raised"}

\* Opening: the temporary file is an inode, empty and not on the disk.
LEMMA Opened ==
    ASSUME TypeOK, NEW w \in Writers, Open(w)
    PROVE  \E i \in Inodes :
              /\ \/ dir.temporary = i /\ dir' = dir
                 \/ /\ dir.temporary = None /\ dir' = [dir EXCEPT !.temporary = i]
                    /\ i \notin InUse
              /\ fd' = [fd EXCEPT ![w] = i] /\ data' = [data EXCEPT ![i] = <<>>]
              /\ synced' = synced \ {i}
              /\ pc' = [pc EXCEPT ![w] = "write"] /\ UNCHANGED <<alone, diskDir, pos, reader>>
<1>T. dir.temporary \in Inodes \cup {None} BY DEF TypeOK, Directory
<1>0. pc' = [pc EXCEPT ![w] = "write"] /\ UNCHANGED <<alone, diskDir, pos, reader>>
    BY DEF Open
<1>1. CASE dir.temporary # None
    <2>1. /\ fd' = [fd EXCEPT ![w] = dir.temporary]
          /\ data' = [data EXCEPT ![dir.temporary] = <<>>]
          /\ synced' = synced \ {dir.temporary} /\ dir' = dir
        BY <1>1 DEF Open
    <2> QED BY <1>0, <1>1, <1>T, <2>1
<1>2. CASE dir.temporary = None
    <2>1. PICK i \in Inodes \ InUse :
             /\ dir' = [dir EXCEPT !.temporary = i] /\ fd' = [fd EXCEPT ![w] = i]
             /\ data' = [data EXCEPT ![i] = <<>>] /\ synced' = synced \ {i}
        BY <1>2 DEF Open
    <2> QED BY <1>0, <1>2, <2>1
<1> QED BY <1>1, <1>2

\* A step keeps the types.
LEMMA StepTypes == ASSUME TypeOK, Positions, [Next]_vars PROVE TypeOK' /\ Positions'
<1>T. /\ alone \in BOOLEAN /\ mixed \in BOOLEAN
      /\ dir \in Directory /\ diskDir \in Directory
      /\ data \in [Inodes -> Seq(Writers \cup {Hole})] /\ synced \subseteq Inodes
      /\ pc \in [Writers -> Labels] /\ fd \in [Writers -> Inodes \cup {None}]
      /\ \A w \in Writers : fd[w] # None <=> pc[w] \in {"write", "fsync"}
      /\ pos \in [Writers -> Nat] /\ \A w \in Writers : pos[w] <= Blocks[w]
      /\ reader \in Inodes \cup {None}
    BY DEF TypeOK, Labels
<1>A. Blocks \in [Writers -> Nat \ {0}] /\ None \notin Inodes BY WritersAssumption
<1>1. ASSUME NEW w \in Writers, Open(w) PROVE TypeOK' /\ Positions'
    <2>1. PICK i \in Inodes :
             /\ dir' = dir \/ dir' = [dir EXCEPT !.temporary = i]
             /\ fd' = [fd EXCEPT ![w] = i] /\ data' = [data EXCEPT ![i] = <<>>]
             /\ synced' = synced \ {i}
             /\ pc' = [pc EXCEPT ![w] = "write"] /\ UNCHANGED <<alone, diskDir, pos, reader>>
        BY <1>1, Opened
    <2>2. dir' \in Directory BY <2>1, <1>T DEF Directory
    <2>3. mixed' \in BOOLEAN
        <3>1. mixed' = (mixed \/ \E v \in Writers : Active(v)) BY <1>1 DEF Open
        <3>2. (mixed \/ \E v \in Writers : Active(v)) \in BOOLEAN OBVIOUS
        <3> QED BY <3>1, <3>2
    <2>4. data' \in [Inodes -> Seq(Writers \cup {Hole})] BY <2>1, <1>T
    <2>5. fd' \in [Writers -> Inodes \cup {None}] /\ pc' \in [Writers -> Labels]
          /\ \A v \in Writers : fd'[v] # None <=> pc'[v] \in {"write", "fsync"}
        BY <2>1, <1>T, <1>A DEF Labels
    <2>6. TypeOK' BY <2>1, <2>2, <2>3, <2>4, <2>5, <1>T DEF TypeOK, Labels
    <2>7. Positions' BY <2>1, <1>T DEF Positions
    <2> QED BY <2>6, <2>7
<1>2. ASSUME NEW w \in Writers, WriteBlock(w) PROVE TypeOK' /\ Positions'
    <2>1. /\ pc[w] = "write" /\ pos[w] < Blocks[w]
          /\ data' = [data EXCEPT ![fd[w]] = Patched(data[fd[w]], pos[w] + 1, w)]
          /\ pos' = [pos EXCEPT ![w] = pos[w] + 1]
          /\ synced' = synced \ {fd[w]}
          /\ UNCHANGED <<alone, dir, diskDir, pc, fd, reader, mixed>>
        BY <1>2 DEF WriteBlock
    <2>2. fd[w] \in Inodes /\ pos[w] + 1 \in Nat \ {0} /\ pos[w] + 1 <= Blocks[w]
        BY <2>1, <1>T, <1>A
    <2>3. Patched(data[fd[w]], pos[w] + 1, w) \in Seq(Writers \cup {Hole})
        BY <2>2, <1>T, PatchedType
    <2>4. data' \in [Inodes -> Seq(Writers \cup {Hole})] BY <2>1, <2>3, <1>T
    <2>5. pos' \in [Writers -> Nat] /\ \A v \in Writers : pos'[v] <= Blocks[v]
        BY <2>1, <2>2, <1>T
    <2>6. TypeOK' BY <2>1, <2>4, <2>5, <1>T DEF TypeOK, Labels
    <2>7. Positions' BY <2>1, <1>T DEF Positions
    <2> QED BY <2>6, <2>7
<1>3. ASSUME NEW w \in Writers, Flush(w) PROVE TypeOK' /\ Positions'
    <2>1. pc'  = [pc EXCEPT ![w] = "fsync"] /\ pos' = [pos EXCEPT ![w] = 0] /\ pc[w] = "write"
          /\ UNCHANGED <<alone, dir, data, diskDir, synced, fd, reader, mixed>>
        BY <1>3 DEF Flush, diskVars
    <2>2. TypeOK' BY <2>1, <1>T, <1>A DEF TypeOK, Labels
    <2> QED BY <2>1, <2>2, <1>T DEF Positions
<1>4. ASSUME NEW w \in Writers, Fsync(w) PROVE TypeOK' /\ Positions'
    <2>1. /\ pc[w] = "fsync" /\ pc' = [pc EXCEPT ![w] = "replace"]
          /\ fd' = [fd EXCEPT ![w] = None] /\ synced' = synced \cup {fd[w]}
          /\ UNCHANGED <<alone, dir, data, diskDir, pos, reader, mixed>>
        BY <1>4 DEF Fsync
    <2>2. fd[w] \in Inodes BY <2>1, <1>T
    <2>3. TypeOK' BY <2>1, <2>2, <1>T DEF TypeOK, Labels
    <2> QED BY <2>1, <2>3, <1>T DEF Positions
<1>5. ASSUME NEW w \in Writers, Replace(w) PROVE TypeOK' /\ Positions'
    <2>1. /\ pc[w] = "replace" /\ \E l \in {"done", "raised"} : pc' = [pc EXCEPT ![w] = l]
          /\ dir' = dir \/ dir' = [temporary |-> None, destination |-> dir.temporary]
          /\ UNCHANGED <<alone, data, diskDir, synced, fd, pos, reader, mixed>>
        BY <1>5 DEF Replace, diskVars
    <2>2. dir' \in Directory BY <2>1, <1>T DEF Directory
    <2>3. pc' \in [Writers -> Labels]
          /\ \A v \in Writers : pc'[v] \in {"write", "fsync"} <=> pc[v] \in {"write", "fsync"}
        BY <2>1, <1>T DEF Labels
    <2>4. TypeOK' BY <2>1, <2>2, <2>3, <1>T DEF TypeOK, Labels
    <2> QED BY <2>1, <2>4, <1>T DEF Positions
<1>6. ASSUME NEW w \in Writers, Kill(w) PROVE TypeOK' /\ Positions'
    <2>1. /\ pc' = [pc EXCEPT ![w] = "idle"] /\ fd' = [fd EXCEPT ![w] = None]
          /\ pos' = [pos EXCEPT ![w] = 0]
          /\ UNCHANGED <<alone, dir, data, diskDir, synced, reader, mixed>>
        BY <1>6 DEF Kill, diskVars
    <2>2. TypeOK' BY <2>1, <1>T, <1>A DEF TypeOK, Labels
    <2> QED BY <2>1, <2>2, <1>T DEF Positions
<1>7. CASE Read
    <2>1. reader' = dir.destination
          /\ UNCHANGED <<alone, dir, data, diskDir, synced, pc, fd, pos, mixed>>
        BY <1>7 DEF Read, diskVars, writerVars
    <2>2. dir.destination \in Inodes \cup {None} BY <1>T DEF Directory
    <2>3. TypeOK' BY <2>1, <2>2, <1>T DEF TypeOK, Labels
    <2> QED BY <2>1, <2>3 DEF Positions
<1>8. CASE Commit
    <2>1. diskDir' = dir /\ UNCHANGED <<alone, dir, data, synced, pc, fd, pos, reader, mixed>>
        BY <1>8 DEF Commit, writerVars
    <2>2. TypeOK' BY <2>1, <1>T DEF TypeOK, Labels
    <2> QED BY <2>1, <2>2 DEF Positions
<1>9. CASE PowerLoss
    <2>1. PICK lost \in SUBSET (Inodes \ synced) :
             data' = [i \in Inodes |-> IF i \in lost THEN <<Hole>> ELSE data[i]]
        BY <1>9 DEF PowerLoss
    <2>2. /\ dir' = diskDir /\ synced' = Inodes /\ pc' = [w \in Writers |-> "idle"]
          /\ fd' = [w \in Writers |-> None] /\ pos' = [w \in Writers |-> 0]
          /\ reader' = None /\ UNCHANGED <<alone, diskDir, mixed>>
        BY <1>9 DEF PowerLoss
    <2>3. <<Hole>> \in Seq(Writers \cup {Hole}) OBVIOUS
    <2>4. data' \in [Inodes -> Seq(Writers \cup {Hole})] BY <2>1, <2>3, <1>T
    <2>5. TypeOK' BY <2>2, <2>4, <1>T, <1>A DEF TypeOK
    <2> QED BY <2>2, <2>5 DEF Positions
<1>10. CASE UNCHANGED vars
    BY <1>10 DEF vars, diskVars, writerVars, TypeOK, Positions
<1> QED BY <1>1, <1>2, <1>3, <1>4, <1>5, <1>6, <1>7, <1>8, <1>9, <1>10 DEF Next, WriterStep

-----------------------------------------------------------------------------
(* The invariant, step by step. *)

\* Opening, or truncating, the temporary file.
LEMMA OpenKeepsInv ==
    ASSUME Inv, NEW w \in Writers, Open(w)
    PROVE  Outcomes' /\ (~ mixed' => Quiet')
<1>T. /\ dir \in Directory /\ pc \in [Writers -> Labels] /\ fd \in [Writers -> Inodes \cup {None}]
      /\ data \in [Inodes -> Seq(Writers \cup {Hole})] /\ synced \subseteq Inodes
      /\ pos \in [Writers -> Nat]
    BY DEF Inv, TypeOK, Labels
<1>A. None \notin Inodes BY WritersAssumption
<1>1. PICK i \in Inodes :
         /\ \/ dir.temporary = i /\ dir' = dir
            \/ /\ dir.temporary = None /\ dir' = [dir EXCEPT !.temporary = i]
               /\ i \notin InUse
         /\ fd' = [fd EXCEPT ![w] = i] /\ data' = [data EXCEPT ![i] = <<>>]
         /\ synced' = synced \ {i}
         /\ pc' = [pc EXCEPT ![w] = "write"] /\ UNCHANGED <<alone, diskDir, pos, reader>>
    BY Opened DEF Inv
<1>2. /\ ~ Active(w) /\ (alone => \A v \in Writers : ~ Active(v))
      /\ (mixed' <=> (mixed \/ \E v \in Writers : Active(v)))
    BY DEF Open
<1>3. dir'.temporary = i /\ dir'.destination = dir.destination
    BY <1>1, <1>T DEF Directory
<1>4. pc'[w] = "write" /\ \A v \in Writers : v # w => pc'[v] = pc[v] BY <1>1, <1>T
<1>5. Outcomes'
    <2>1. alone' => ~ mixed' BY <1>1, <1>2 DEF Inv, Outcomes
    <2>2. \A v \in Writers : Active(v)' => dir'.temporary # None BY <1>3, <1>A
    <2>3. mixed => mixed' BY <1>2
    <2>4. FinishedLeavesFile' BY <1>3, <1>4, <2>3 DEF Inv, Outcomes, FinishedLeavesFile
    <2> QED BY <2>1, <2>2, <2>4 DEF Outcomes
<1>6. ASSUME ~ mixed' PROVE Quiet'
    <2>1. ~ mixed /\ \A v \in Writers : ~ Active(v) BY <1>2, <1>6
    <2>2. Quiet BY <2>1 DEF Inv
    <2>3. \A v \in Writers : Active(v)' => v = w
        BY <1>4, <2>1 DEF Active
    <2>4. i \notin Relied
        <3>1. CASE dir.temporary = i BY <3>1, <2>2, <1>A DEF Quiet
        <3>2. CASE i \notin InUse
            <4>1. dir.destination \in InUse /\ diskDir.destination \in InUse /\ reader \in InUse
                BY DEF InUse, Inv, TypeOK, Directory
            <4> QED BY <3>2, <4>1 DEF Relied
        <3> QED BY <1>1, <3>1, <3>2
    <2>5. Relied' = Relied BY <1>1, <1>3 DEF Relied
    <2>6. \A j \in Relied : j \in synced' /\ data'[j] = data[j]
        BY <2>2, <2>4, <1>1, <1>T DEF Quiet
    <2>7. WorkOf(w)'
        <3>1. pos[w] = 0 BY <1>2, <1>T DEF Inv, Positions, Active
        <3>2. data'[i] = <<>> /\ fd'[w] = i BY <1>1, <1>T
        <3>3. Prefix(w, 0) = <<>> BY DEF Prefix
        <3> QED BY <1>1, <1>3, <1>4, <1>A, <3>1, <3>2, <3>3 DEF WorkOf
    <2>8. \A v \in Writers : Active(v)' => WorkOf(v)' BY <2>3, <2>7
    <2>9. diskDir'.temporary # None => diskDir'.temporary # diskDir'.destination
        BY <1>1, <2>2 DEF Quiet
    <2>10. \A j \in Relied' : j \in synced' /\ \E v \in Writers : data'[j] = Whole(v)
        BY <2>2, <2>5, <2>6 DEF Quiet
    <2>11. \A j \in Relied' : j \in synced' /\ \E v \in Writers : data'[j] = Whole(v)'
        BY <2>10 DEF Whole
    <2> QED BY <1>3, <2>3, <2>4, <2>5, <2>8, <2>9, <2>11 DEF Quiet
<1> QED BY <1>5, <1>6

\* What is relied on stays relied on, whatever happens to the other inodes.
LEMMA ReliedKeep ==
    ASSUME Quiet, Relied' \subseteq Relied,
           \A j \in Relied : j \in synced' /\ data'[j] = data[j]
    PROVE  (\A j \in Relied : j \in synced /\ \E w \in Writers : data[j] = Whole(w))'
<1>1. \A j \in Relied' : j \in synced' /\ \E v \in Writers : data'[j] = Whole(v)
    BY DEF Quiet
<1> QED BY <1>1 DEF Whole

\* What that says of the one who is at work.
LEMMA QuietOf ==
    ASSUME Quiet, NEW w \in Writers, Active(w)
    PROVE  /\ WorkOf(w) /\ dir.temporary # None /\ dir.temporary \notin Relied
           /\ \A v \in Writers : Active(v) => v = w
BY DEF Quiet, WorkOf

\* Between the opening and the rename.
LEMMA WorkKeeps ==
    ASSUME Inv, NEW w \in Writers, WriteBlock(w) \/ Flush(w) \/ Fsync(w) \/ Kill(w)
    PROVE  Outcomes' /\ (~ mixed' => Quiet')
<1>T. /\ dir \in Directory /\ pc \in [Writers -> Labels] /\ fd \in [Writers -> Inodes \cup {None}]
      /\ data \in [Inodes -> Seq(Writers \cup {Hole})] /\ synced \subseteq Inodes
      /\ pos \in [Writers -> Nat]
    BY DEF Inv, TypeOK, Labels
<1>0. Active(w) /\ UNCHANGED <<alone, dir, diskDir, reader, mixed>>
    BY DEF WriteBlock, Flush, Fsync, Kill, Active, diskVars
<1>1. \A v \in Writers : v # w => pc'[v] = pc[v] /\ fd'[v] = fd[v] /\ pos'[v] = pos[v]
    BY <1>T DEF WriteBlock, Flush, Fsync, Kill, diskVars
<1>2. pc'[w] \in {"write", "fsync", "replace", "idle"}
    BY <1>T DEF WriteBlock, Flush, Fsync, Kill
<1>3. \A v \in Writers : Active(v)' => Active(v) BY <1>0, <1>1 DEF Active
<1>4. Outcomes'
    <2>1. \A v \in Writers : pc'[v] \in {"done", "raised"} => pc'[v] = pc[v] BY <1>1, <1>2
    <2> QED BY <1>0, <1>3, <2>1 DEF Inv, Outcomes, FinishedLeavesFile
<1>5. ASSUME ~ mixed' PROVE Quiet'
    <2>1. ~ mixed /\ Quiet BY <1>0, <1>5 DEF Inv
    <2>2. /\ WorkOf(w) /\ dir.temporary # None /\ dir.temporary \notin Relied
          /\ \A v \in Writers : Active(v) => v = w
        BY <1>0, <2>1, QuietOf
    <2> DEFINE i == dir.temporary
    <2>3. i \in Inodes BY <2>2, <1>T DEF Directory
    <2>4. Relied' = Relied BY <1>0 DEF Relied
    <2>5. /\ \A j \in Inodes : j # i => data'[j] = data[j] /\ (j \in synced => j \in synced')
          /\ Active(w)' => WorkOf(w)'
        <3>1. CASE WriteBlock(w)
            <4>1. /\ pc[w] = "write" /\ pc' = pc /\ fd' = fd
                  /\ data' = [data EXCEPT ![fd[w]] = Patched(data[fd[w]], pos[w] + 1, w)]
                  /\ pos' = [pos EXCEPT ![w] = pos[w] + 1]
                  /\ synced' = synced \ {fd[w]}
                BY <3>1 DEF WriteBlock
            <4>2. fd[w] = i /\ data[i] = Prefix(w, pos[w]) BY <2>2, <4>1 DEF WorkOf
            <4>3. pos[w] \in Nat BY <1>T
            <4>4. data'[i] = Prefix(w, pos'[w])
                <5>1. data'[i] = Patched(Prefix(w, pos[w]), pos[w] + 1, w)
                    BY <4>1, <4>2, <2>3, <1>T
                <5>2. pos'[w] = pos[w] + 1 BY <4>1, <1>T
                <5> QED BY <5>1, <5>2, <4>3, PatchedPrefix
            <4>5. WorkOf(w)' BY <1>0, <2>2, <4>1, <4>2, <4>4 DEF WorkOf
            <4> QED BY <4>1, <4>2, <4>5, <1>T
        <3>2. CASE Flush(w)
            <4>1. /\ pc[w] = "write" /\ pos[w] = Blocks[w] /\ pc' = [pc EXCEPT ![w] = "fsync"]
                  /\ data' = data /\ synced' = synced /\ fd' = fd
                BY <3>2 DEF Flush, diskVars
            <4>2. pc'[w] = "fsync" BY <4>1, <1>T
            <4>3. data[i] = Prefix(w, Blocks[w]) /\ fd[w] = i BY <2>2, <4>1 DEF WorkOf
            <4>4. data'[i] = Whole(w)' BY <4>1, <4>3 DEF Prefix, Whole
            <4> QED BY <1>0, <2>2, <4>1, <4>2, <4>3, <4>4 DEF WorkOf
        <3>3. CASE Fsync(w)
            <4>1. /\ pc[w] = "fsync" /\ pc' = [pc EXCEPT ![w] = "replace"]
                  /\ data' = data /\ synced' = synced \cup {fd[w]}
                BY <3>3 DEF Fsync
            <4>2. pc'[w] = "replace" BY <4>1, <1>T
            <4>3. data[i] = Whole(w) /\ fd[w] = i BY <2>2, <4>1 DEF WorkOf
            <4>4. data'[i] = Whole(w)' /\ i \in synced' BY <4>1, <4>3 DEF Whole
            <4> QED BY <1>0, <2>2, <4>1, <4>2, <4>4 DEF WorkOf
        <3>4. CASE Kill(w)
            <4>1. pc' = [pc EXCEPT ![w] = "idle"] /\ data' = data /\ synced' = synced
                BY <3>4 DEF Kill, diskVars
            <4>2. ~ Active(w)' BY <4>1, <1>T DEF Active
            <4> QED BY <4>1, <4>2
        <3> QED BY <3>1, <3>2, <3>3, <3>4
    <2>6. \A j \in Relied : j \in synced' /\ data'[j] = data[j]
        BY <2>1, <2>2, <2>5, <1>T DEF Quiet
    <2>7. \A v \in Writers : Active(v)' => v = w /\ WorkOf(v)' BY <1>3, <2>2, <2>5
    <2>8. (\A j \in Relied : j \in synced /\ \E v \in Writers : data[j] = Whole(v))'
        BY <2>1, <2>4, <2>6, ReliedKeep
    <2> QED BY <1>0, <2>1, <2>2, <2>4, <2>7, <2>8 DEF Quiet
<1> QED BY <1>4, <1>5

\* The rename.
LEMMA ReplaceKeeps ==
    ASSUME Inv, NEW w \in Writers, Replace(w)
    PROVE  Outcomes' /\ (~ mixed' => Quiet')
<1>T. dir \in Directory /\ pc \in [Writers -> Labels] BY DEF Inv, TypeOK, Labels
<1>0. /\ pc[w] = "replace" /\ Active(w)
      /\ UNCHANGED <<alone, data, diskDir, synced, fd, pos, reader, mixed>>
    BY DEF Replace, Active, diskVars
<1>1. CASE dir.temporary = None
    <2>1. pc' = [pc EXCEPT ![w] = "raised"] /\ dir' = dir BY <1>1 DEF Replace
    <2>2. mixed BY <1>0, <1>1, QuietOf DEF Inv
    <2>3. dir.destination # None BY <1>0, <1>1 DEF Inv, Outcomes
    <2>4. \A v \in Writers : v # w => pc'[v] = pc[v] BY <2>1, <1>T
    <2>5. pc'[w] = "raised" BY <2>1, <1>T
    <2>6. Outcomes'
        BY <1>0, <2>1, <2>2, <2>3, <2>4, <2>5 DEF Inv, Outcomes, FinishedLeavesFile, Active
    <2> QED BY <1>0, <2>2, <2>6
<1>2. CASE dir.temporary # None
    <2>1. /\ pc' = [pc EXCEPT ![w] = "done"]
          /\ dir' = [temporary |-> None, destination |-> dir.temporary]
        BY <1>2 DEF Replace
    <2>2. dir'.temporary = None /\ dir'.destination = dir.temporary BY <2>1
    <2>3. pc'[w] = "done" /\ \A v \in Writers : v # w => pc'[v] = pc[v] BY <2>1, <1>T
    <2>4. Outcomes'
        BY <1>0, <1>2, <2>2, <2>3 DEF Inv, Outcomes, FinishedLeavesFile
    <2>5. ASSUME ~ mixed' PROVE Quiet'
        <3>1. Quiet /\ WorkOf(w) /\ \A v \in Writers : Active(v) => v = w
            BY <1>0, <2>5, QuietOf DEF Inv
        <3>2. \A v \in Writers : ~ Active(v)' BY <3>1, <2>3 DEF Active
        <3>3. dir.temporary \in synced /\ data[dir.temporary] = Whole(w)
            BY <3>1, <1>0 DEF WorkOf
        <3>4. Relied' \subseteq Relied \cup {dir.temporary} BY <1>0, <2>2 DEF Relied
        <3>5. \A j \in Relied' : j \in synced' /\ \E v \in Writers : data'[j] = Whole(v)
            BY <3>1, <3>3, <3>4, <1>0 DEF Quiet
        <3>6. \A j \in Relied' : j \in synced' /\ \E v \in Writers : data'[j] = Whole(v)'
            BY <3>5 DEF Whole
        <3> QED BY <1>0, <2>2, <3>1, <3>2, <3>6 DEF Quiet
    <2> QED BY <2>4, <2>5
<1> QED BY <1>1, <1>2

\* Readers and the system.
LEMMA SystemKeeps ==
    ASSUME Inv, Read \/ Commit \/ PowerLoss
    PROVE  Outcomes' /\ (~ mixed' => Quiet')
<1>0. UNCHANGED <<alone, mixed>> BY DEF Read, Commit, PowerLoss
<1>1. CASE Read \/ Commit
    <2>1. /\ UNCHANGED <<dir, data, synced, pc, fd, pos>>
          /\ \/ reader' = dir.destination /\ diskDir' = diskDir
             \/ diskDir' = dir /\ reader' = reader
        BY <1>1 DEF Read, Commit, diskVars, writerVars
    <2>2. Outcomes' BY <1>0, <2>1 DEF Inv, Outcomes, FinishedLeavesFile, Active
    <2>3. ASSUME ~ mixed' PROVE Quiet'
        <3>1. Quiet BY <1>0, <2>3 DEF Inv
        <3>2. Relied' \subseteq Relied BY <2>1 DEF Relied
        <3>3. \A j \in Relied : j \in synced' /\ data'[j] = data[j] BY <2>1, <3>1 DEF Quiet
        <3>4. (\A j \in Relied : j \in synced /\ \E v \in Writers : data[j] = Whole(v))'
            BY <3>1, <3>2, <3>3, ReliedKeep
        <3>5. \A v \in Writers : Active(v)' => Active(v) BY <2>1 DEF Active
        <3>6. \A v \in Writers : Active(v)' => WorkOf(v)'
            <4> TAKE v \in Writers
            <4>1. Active(v)' => WorkOf(v) BY <3>1, <3>5 DEF Quiet
            <4> QED BY <4>1, <2>1 DEF WorkOf, Prefix, Whole
        <3>7. dir'.temporary # None => dir'.temporary \notin Relied'
            BY <2>1, <3>1, <3>2 DEF Quiet
        <3>8. diskDir'.temporary # None => diskDir'.temporary # diskDir'.destination
            BY <2>1, <3>1 DEF Quiet, Relied
        <3>9. \A u, v \in Writers : Active(u)' /\ Active(v)' => u = v BY <3>1, <3>5 DEF Quiet
        <3> QED BY <3>4, <3>6, <3>7, <3>8, <3>9 DEF Quiet
    <2> QED BY <2>2, <2>3
<1>2. CASE PowerLoss
    <2>1. PICK lost \in SUBSET (Inodes \ synced) :
             data' = [i \in Inodes |-> IF i \in lost THEN <<Hole>> ELSE data[i]]
        BY <1>2 DEF PowerLoss
    <2>2. /\ dir' = diskDir /\ synced' = Inodes /\ pc' = [w \in Writers |-> "idle"]
          /\ reader' = None /\ diskDir' = diskDir
        BY <1>2 DEF PowerLoss
    <2>3. \A v \in Writers : ~ Active(v)' /\ pc'[v] = "idle" BY <2>2 DEF Active
    <2>4. Outcomes' BY <1>0, <2>3 DEF Inv, Outcomes, FinishedLeavesFile
    <2>5. ASSUME ~ mixed' PROVE Quiet'
        <3>1. Quiet BY <1>0, <2>5 DEF Inv
        <3>2. Relied' \subseteq Relied /\ Relied' \subseteq {diskDir.destination}
            BY <2>2 DEF Relied
        <3>3. \A j \in Relied : j \in synced' /\ data'[j] = data[j]
            BY <2>1, <2>2, <3>1 DEF Quiet, Inv, TypeOK
        <3>4. (\A j \in Relied : j \in synced /\ \E v \in Writers : data[j] = Whole(v))'
            BY <3>1, <3>2, <3>3, ReliedKeep
        <3> QED BY <2>2, <2>3, <3>1, <3>2, <3>4 DEF Quiet
    <2> QED BY <2>4, <2>5
<1> QED BY <1>1, <1>2

\* The invariant holds throughout.
LEMMA AtomicInvariant == Spec => []Inv
<1>1. Init => Inv
    <2> SUFFICES ASSUME Init PROVE Inv OBVIOUS
    <2>1. TypeOK
        <3>1. <<>> \in Seq(Writers \cup {Hole}) OBVIOUS
        <3>2. data \in [Inodes -> Seq(Writers \cup {Hole})] BY <3>1 DEF Init
        <3>3. NoFiles \in Directory BY DEF NoFiles, Directory
        <3>4. \A w \in Writers : pos[w] <= Blocks[w] BY WritersAssumption DEF Init
        <3> QED BY <3>2, <3>3, <3>4 DEF Init, TypeOK
    <2>2. \A w \in Writers : pc[w] = "idle" /\ pos[w] = 0 /\ ~ Active(w)
        BY DEF Init, Active
    <2>3. Relied = {} BY DEF Init, NoFiles, Relied
    <2>4. Positions /\ Outcomes
        BY <2>2 DEF Init, Positions, Outcomes, FinishedLeavesFile
    <2>5. Quiet BY <2>2, <2>3 DEF Quiet, Init, NoFiles
    <2> QED BY <2>1, <2>4, <2>5 DEF Inv
<1>2. Inv /\ [Next]_vars => Inv'
    <2> SUFFICES ASSUME Inv, [Next]_vars PROVE Inv' OBVIOUS
    <2>1. TypeOK' /\ Positions' BY StepTypes DEF Inv
    <2>2. CASE Next
        <3>1. Outcomes' /\ (~ mixed' => Quiet')
            BY <2>2, OpenKeepsInv, WorkKeeps, ReplaceKeeps, SystemKeeps DEF Next, WriterStep
        <3> QED BY <2>1, <3>1 DEF Inv
    <2>3. CASE UNCHANGED vars
        <3>1. UNCHANGED <<alone, dir, data, diskDir, synced, pc, fd, pos, reader, mixed>>
            BY <2>3 DEF vars, diskVars, writerVars
        <3>2. Outcomes' BY <3>1 DEF Inv, Outcomes, FinishedLeavesFile, Active
        <3>3. Quiet => Quiet' BY <3>1 DEF Quiet, Active, WorkOf, Relied, Whole, Prefix
        <3> QED BY <2>1, <3>1, <3>2, <3>3 DEF Inv
    <2> QED BY <2>2, <2>3
<1> QED BY <1>1, <1>2, PTL DEF Spec

-----------------------------------------------------------------------------
(* The refinement. *)

\* The version on the disk and the one a name stands for, as the mapping takes them.
MappedFile == IfAlone(Named(dir.destination))
MappedDisk == IfAlone(Durable(diskDir.destination))
MappedSeen == IfAlone(Named(reader))

FileStep == File!FileNext \/ UNCHANGED <<MappedFile, MappedDisk, MappedSeen>>

\* A step of the mapped variables is one of the instance.
LEMMA FileSteps ==
    /\ MappedFile' \in Writers /\ UNCHANGED <<MappedDisk, MappedSeen>> => FileStep
    /\ MappedDisk' = MappedFile /\ UNCHANGED <<MappedFile, MappedSeen>> => FileStep
    /\ MappedSeen' = MappedFile /\ UNCHANGED <<MappedFile, MappedDisk>> => FileStep
    /\ MappedFile' = MappedDisk /\ MappedSeen' = None /\ UNCHANGED MappedDisk => FileStep
    /\ UNCHANGED <<MappedFile, MappedDisk, MappedSeen>> => FileStep
    /\ FileStep => [File!FileNext]_(File!fileVars)
BY DEF FileStep, MappedFile, MappedDisk, MappedSeen, File!FileNext, File!fileVars,
       File!Write, File!Persist, File!Read, File!PowerLoss

\* While the callers take turns, whoever relies on an inode finds a version in it.
LEMMA MappedAlone ==
    ASSUME Inv, alone
    PROVE  /\ ~ mixed /\ Quiet
           /\ MappedFile = (IF dir.destination = None THEN None ELSE Content(data[dir.destination]))
           /\ MappedDisk = (IF diskDir.destination = None THEN None
                           ELSE Content(data[diskDir.destination]))
           /\ MappedSeen = (IF reader = None THEN None ELSE Content(data[reader]))
<1>1. ~ mixed /\ Quiet BY DEF Inv, Outcomes
<1>2. diskDir.destination \in synced \cup {None} BY <1>1 DEF Quiet, Relied
<1> QED BY <1>1, <1>2 DEF MappedFile, MappedDisk, MappedSeen, IfAlone, Named, Durable

\* The same after a step.
LEMMA MappedAfter ==
    ASSUME Inv', alone'
    PROVE  /\ MappedFile' = (IF dir'.destination = None THEN None
                            ELSE Content(data'[dir'.destination]))
           /\ MappedDisk' = (IF diskDir'.destination = None THEN None
                            ELSE Content(data'[diskDir'.destination]))
           /\ MappedSeen' = (IF reader' = None THEN None ELSE Content(data'[reader']))
<1>1. ~ mixed' /\ Quiet' BY DEF Inv, Outcomes
<1>2. diskDir'.destination \in synced' \cup {None} BY <1>1 DEF Quiet, Relied
<1>3. \A blocks : Content(blocks)' = Content(blocks) BY DEF Content, Whole
<1> QED BY <1>1, <1>2, <1>3 DEF MappedFile, MappedDisk, MappedSeen, IfAlone, Named, Durable, Content, Whole

\* Up to the rename, nothing that is relied on changes.
LEMMA RestKeeps ==
    ASSUME Inv, alone, NEW w \in Writers,
           Open(w) \/ WriteBlock(w) \/ Flush(w) \/ Fsync(w) \/ Kill(w)
    PROVE  /\ dir'.destination = dir.destination /\ diskDir' = diskDir /\ reader' = reader
           /\ \A j \in Relied : data'[j] = data[j]
<1>T. /\ dir \in Directory /\ data \in [Inodes -> Seq(Writers \cup {Hole})]
      /\ synced \subseteq Inodes
    BY DEF Inv, TypeOK
<1>Q. Quiet BY MappedAlone
<1>R. Relied \subseteq Inodes BY <1>Q, <1>T DEF Quiet
<1>1. CASE Open(w)
    <2>1. PICK i \in Inodes :
             /\ \/ dir.temporary = i /\ dir' = dir
                \/ /\ dir.temporary = None /\ dir' = [dir EXCEPT !.temporary = i]
                   /\ i \notin InUse
             /\ data' = [data EXCEPT ![i] = <<>>] /\ UNCHANGED <<diskDir, reader>>
        BY <1>1, Opened DEF Inv
    <2>2. i \notin Relied
        <3>1. CASE dir.temporary = i BY <3>1, <1>Q, WritersAssumption DEF Quiet
        <3>2. CASE i \notin InUse
            <4>1. dir.destination \in InUse /\ diskDir.destination \in InUse /\ reader \in InUse
                BY DEF InUse, Inv, TypeOK, Directory
            <4> QED BY <3>2, <4>1 DEF Relied
        <3> QED BY <2>1, <3>1, <3>2
    <2>3. dir'.destination = dir.destination BY <2>1, <1>T DEF Directory
    <2> QED BY <2>1, <2>2, <2>3, <1>T, <1>R
<1>2. CASE WriteBlock(w)
    <2>1. /\ pc[w] = "write" /\ data' = [data EXCEPT ![fd[w]] = Patched(data[fd[w]], pos[w] + 1, w)]
          /\ UNCHANGED <<dir, diskDir, reader>>
        BY <1>2 DEF WriteBlock
    <2>2. fd[w] \notin Relied BY <2>1, <1>Q, QuietOf DEF WorkOf, Active
    <2> QED BY <2>1, <2>2, <1>T, <1>R
<1>3. CASE Flush(w) \/ Fsync(w) \/ Kill(w)
    BY <1>3 DEF Flush, Fsync, Kill, diskVars
<1> QED BY <1>1, <1>2, <1>3

\* A step is one of the atomic file, or leaves it alone.
LEMMA StepRefines == ASSUME Inv, Inv', [Next]_vars PROVE FileStep
<1>0. alone' = alone
    BY DEF Next, WriterStep, vars, Open, WriteBlock, Flush, Fsync, Replace, Kill,
           Read, Commit, PowerLoss
<1>1. CASE ~ alone
    <2>1. UNCHANGED <<MappedFile, MappedDisk, MappedSeen>>
        BY <1>0, <1>1 DEF MappedFile, MappedDisk, MappedSeen, IfAlone
    <2> QED BY <2>1, FileSteps
<1>2. CASE alone
    <2>Q. Quiet BY <1>2, MappedAlone
    <2>M. /\ MappedFile = (IF dir.destination = None THEN None ELSE Content(data[dir.destination]))
          /\ MappedDisk = (IF diskDir.destination = None THEN None
                          ELSE Content(data[diskDir.destination]))
          /\ MappedSeen = (IF reader = None THEN None ELSE Content(data[reader]))
        BY <1>2, MappedAlone
    <2>N. /\ MappedFile' = (IF dir'.destination = None THEN None
                           ELSE Content(data'[dir'.destination]))
          /\ MappedDisk' = (IF diskDir'.destination = None THEN None
                           ELSE Content(data'[diskDir'.destination]))
          /\ MappedSeen' = (IF reader' = None THEN None ELSE Content(data'[reader']))
        BY <1>0, <1>2, MappedAfter
    <2>R. \A i \in {dir.destination, diskDir.destination, reader} : i # None => i \in Relied
        BY DEF Relied
    <2>1. ASSUME NEW w \in Writers,
                 Open(w) \/ WriteBlock(w) \/ Flush(w) \/ Fsync(w) \/ Kill(w)
          PROVE  FileStep
        <3>1. /\ dir'.destination = dir.destination /\ diskDir' = diskDir /\ reader' = reader
              /\ \A j \in Relied : data'[j] = data[j]
            BY <1>2, <2>1, RestKeeps
        <3>2. MappedFile' = MappedFile BY <3>1, <2>M, <2>N, <2>R
        <3>3. MappedDisk' = MappedDisk BY <3>1, <2>M, <2>N, <2>R
        <3>4. MappedSeen' = MappedSeen BY <3>1, <2>M, <2>N, <2>R
        <3> QED BY <3>2, <3>3, <3>4, FileSteps
    <2>2. ASSUME NEW w \in Writers, Replace(w) PROVE FileStep
        <3>1. /\ pc[w] = "replace" /\ UNCHANGED <<data, diskDir, reader>>
            BY <2>2 DEF Replace, diskVars
        <3>2. WorkOf(w) BY <3>1, <2>Q, QuietOf DEF Active
        <3>3. dir'.destination = dir.temporary /\ dir.temporary # None
              /\ data[dir.temporary] = Whole(w)
            BY <2>2, <3>1, <3>2 DEF Replace, WorkOf
        <3>4. MappedFile' = Content(Whole(w)) BY <3>1, <3>3, <2>N
        <3>5. MappedFile' \in Writers BY <3>4, WholeIsVersion
        <3>6. UNCHANGED <<MappedDisk, MappedSeen>> BY <3>1, <2>M, <2>N
        <3> QED BY <3>5, <3>6, FileSteps
    <2>3. CASE Read
        <3>1. reader' = dir.destination /\ UNCHANGED <<dir, data, diskDir>>
            BY <2>3 DEF Read, diskVars
        <3>2. MappedSeen' = MappedFile /\ UNCHANGED <<MappedFile, MappedDisk>>
            BY <3>1, <2>M, <2>N
        <3> QED BY <3>2, FileSteps
    <2>4. CASE Commit
        <3>1. diskDir' = dir /\ UNCHANGED <<dir, data, reader>> BY <2>4 DEF Commit
        <3>2. MappedDisk' = MappedFile /\ UNCHANGED <<MappedFile, MappedSeen>>
            BY <3>1, <2>M, <2>N
        <3> QED BY <3>2, FileSteps
    <2>5. CASE PowerLoss
        <3>1. PICK lost \in SUBSET (Inodes \ synced) :
                 data' = [i \in Inodes |-> IF i \in lost THEN <<Hole>> ELSE data[i]]
            BY <2>5 DEF PowerLoss
        <3>2. dir' = diskDir /\ diskDir' = diskDir /\ reader' = None BY <2>5 DEF PowerLoss
        <3>3. \A j \in Relied : data'[j] = data[j]
            BY <3>1, <2>Q DEF Quiet, Inv, TypeOK
        <3>4. MappedFile' = MappedDisk BY <3>2, <3>3, <2>M, <2>N, <2>R
        <3>5. MappedDisk' = MappedDisk BY <3>2, <3>3, <2>M, <2>N, <2>R
        <3>6. MappedSeen' = None BY <3>2, <2>N
        <3> QED BY <3>4, <3>5, <3>6, FileSteps
    <2>6. CASE UNCHANGED vars
        <3>1. UNCHANGED <<dir, data, diskDir, reader>> BY <2>6 DEF vars, diskVars
        <3>2. UNCHANGED <<MappedFile, MappedDisk, MappedSeen>> BY <3>1, <2>M, <2>N
        <3> QED BY <3>2, FileSteps
    <2> QED BY <2>1, <2>2, <2>3, <2>4, <2>5, <2>6 DEF Next, WriterStep
<1> QED BY <1>1, <1>2

-----------------------------------------------------------------------------
(* The theorems. *)

\* A writer has a file open exactly while it writes and synchronises it
\* (manifest_queue.py:147-158).
THEOREM AtomicTypeCorrect == Spec => []TypeOK
<1>1. Inv => TypeOK BY DEF Inv
<1> QED BY <1>1, AtomicInvariant, PTL

\* Only callers at work together leave a file that is no version
\* (manifest_queue.py:147-158, document_storage.py:128-139).
THEOREM OnlyMixedTears == Spec => []TornOnlyIfMixed
<1>1. Inv => TornOnlyIfMixed
    <2> SUFFICES ASSUME Inv, dir.destination # None, ~ mixed
                 PROVE  Content(data[dir.destination]) # Hole
        BY DEF TornOnlyIfMixed
    <2>1. dir.destination \in Relied /\ Quiet BY DEF Relied, Inv
    <2>2. PICK w \in Writers : data[dir.destination] = Whole(w) BY <2>1 DEF Quiet
    <2> QED BY <2>2, WholeIsVersion
<1> QED BY <1>1, AtomicInvariant, PTL

\* Whoever has returned, or found its temporary file gone, leaves a file behind
\* (manifest_queue.py:147-158).
THEOREM FinishedLeaveFile == Spec => []FinishedLeavesFile
<1>1. Inv => FinishedLeavesFile BY DEF Inv, Outcomes
<1> QED BY <1>1, AtomicInvariant, PTL

\* While its callers take turns, _write_atomic is the atomic file, however many writers,
\* blocks and losses of power there are (manifest_queue.py:147-158).
THEOREM AloneIsAtomic == Spec => WritesAreAtomic
<1>1. Init => File!FileInit
    <2> SUFFICES ASSUME Init PROVE File!FileInit OBVIOUS
    <2>1. dir.destination = None /\ diskDir.destination = None /\ reader = None
        BY DEF Init, NoFiles
    <2> QED BY <2>1 DEF File!FileInit, IfAlone, Named, Durable
<1>2. Inv /\ Inv' /\ [Next]_vars => [File!FileNext]_(File!fileVars)
    BY StepRefines, FileSteps
<1> QED BY <1>1, <1>2, AtomicInvariant, PTL DEF Spec, WritesAreAtomic, File!FileSpec
=============================================================================
