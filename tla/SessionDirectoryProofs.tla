------------------------ MODULE SessionDirectoryProofs ------------------------
(***************************************************************************)
(* TLAPS proofs about module SessionDirectory, for any set of processes    *)
(* that were given the same destination and any number of writes.          *)
(***************************************************************************)
EXTENDS SessionDirectory, TLAPS

-----------------------------------------------------------------------------
(* The inductive invariant.                                                *)

\* Which outputs reach which position.
Position(p) ==
  /\ pc[p] \in {"openADC", "hash", "stage", "validate"} => kind[p] = "session"
  /\ pc[p] = "inspect" => kind[p] = "transaction"
  /\ pc[p] \in {"open", "close", "link", "unlink", "rollback"} =>
       kind[p] # "transaction"
  /\ pc[p] = "rename" => kind[p] # "file"

\* Who owns the names OUT and OUT.part.
Ownership(p) ==
  /\ pc[p] \in InStage \cup {"unlink", "rollback"} => names["OUT.part"] = p
  /\ pc[p] \in {"unlink", "rollback"} /\ kind[p] = "file" => names["OUT"] = p
  /\ committed[p] => pc[p] = "done" /\ names["OUT"] = p
  /\ names["OUT"] = p =>
       pc[p] \in IF kind[p] = "file"
                 THEN {"unlink", "rollback", "done", "failed", "killed"}
                 ELSE {"done"}
  /\ opened[p] => /\ p \in {names["OUT"], names["OUT.part"]}
                  /\ pc[p] \notin {"start", "create", "openADC"}

AdcNames == {Part("adc.bin"), Final("adc.bin")}

\* How far the stage of a session is.
Progress(p) ==
  kind[p] = "session" =>
    /\ opened[p] => entries[p] \cap AdcNames # {}
    /\ pc[p] \in {"start", "create", "openADC", "open", "close", "hash"} =>
         leaf[p] = "adc.bin"
    /\ pc[p] \in {"unlink", "rollback"} =>
         {Part(leaf[p]), Final(leaf[p])} \subseteq entries[p]
    /\ pc[p] = "stage" => leaf[p] # "adc.bin"
    /\ pc[p] \in {"validate", "rename"} => leaf[p] = "capture.json"
    /\ leaf[p] = "capture.json" /\ pc[p] \in {"stage", "link", "unlink", "validate"} =>
         Final("radar.cfg") \in entries[p]
    /\ leaf[p] = "capture.json" /\ pc[p] \in {"link", "unlink", "validate"} =>
         manifest[p] = artifact[p]
    /\ pc[p] \in {"rename", "done"} =>
         entries[p] = Complete /\ manifest[p] = content[p]

DiskInv ==
  /\ TypeOK
  /\ \A p \in Processes : Position(p) /\ Ownership(p) /\ Progress(p)

-----------------------------------------------------------------------------
\* Nothing is on disk in the beginning.
LEMMA InitInv == Init => DiskInv
  BY DirectoryAssumption
  DEF Init, DiskInv, TypeOK, Position, Ownership, Progress, InStage, Leaves

\* A step of another process leaves the state of q and its claims to the names.
Untouched(q) ==
  /\ kind'[q] = kind[q]
  /\ pc'[q] = pc[q]
  /\ leaf'[q] = leaf[q]
  /\ artifact'[q] = artifact[q]
  /\ opened'[q] = opened[q]
  /\ committed'[q] = committed[q]
  /\ entries'[q] = entries[q]
  /\ content'[q] = content[q]
  /\ manifest'[q] = manifest[q]
  /\ names["OUT.part"] = q => names'["OUT.part"] = q
  /\ names["OUT"] = q <=> names'["OUT"] = q

\* The invariant of an untouched process is kept.
LEMMA UntouchedInv ==
  ASSUME NEW q \in Processes, Position(q), Ownership(q), Progress(q), Untouched(q)
  PROVE  Position(q)' /\ Ownership(q)' /\ Progress(q)'
  <1>1. Position(q)'
    BY DEF Position, Untouched
  <1>2. Ownership(q)'
    BY DEF Ownership, Untouched, InStage
  <1>3. Progress(q)'
    BY DEF Progress, Untouched
  <1> QED
    BY <1>1, <1>2, <1>3

\* Every step of a process keeps the invariant.
LEMMA StepInv ==
  ASSUME DiskInv, NEW p \in Processes,
         Creates(p) \/ WriteAt(p) \/ CommitContext(p) \/ Publishes(p)
           \/ StepFails(p) \/ Kill(p) \/ Cancel(p)
  PROVE  DiskInv'
  <1>t. TypeOK /\ Position(p) /\ Ownership(p) /\ Progress(p)
    BY DEF DiskInv
  <1>a. ASSUME TypeOK', Position(p)', Ownership(p)', Progress(p)',
               \A q \in Processes \ {p} : Untouched(q)
        PROVE  DiskInv'
    BY <1>a, UntouchedInv DEF DiskInv
  <1>1. CASE Lstat(p)
    <2>1. TypeOK'
      BY <1>t, <1>1 DEF Lstat, Goto, memory, disk, TypeOK
    <2>2. \A q \in Processes \ {p} : Untouched(q)
      BY <1>t, <1>1 DEF Lstat, Goto, memory, disk, Untouched
    <2>3. Position(p)'
      BY <1>t, <1>1 DEF Lstat, Goto, Position
    <2>4. Ownership(p)'
      BY <1>t, <1>1 DEF Lstat, Goto, memory, disk, Ownership, InStage
    <2>5. Progress(p)'
      BY <1>t, <1>1 DEF Lstat, Goto, memory, disk, Progress
    <2> QED
      BY <2>1, <2>2, <2>3, <2>4, <2>5, <1>a
  <1>2. CASE CreatePart(p)
    <2>1. TypeOK'
      BY <1>t, <1>2 DEF CreatePart, Goto, TypeOK
    <2>2. \A q \in Processes \ {p} : Untouched(q)
      BY <1>t, <1>2, DirectoryAssumption DEF CreatePart, Goto, Exclusive, Untouched
    <2>3. Position(p)'
      BY <1>t, <1>2 DEF CreatePart, Goto, TypeOK, Position
    <2>4. Ownership(p)'
      BY <1>t, <1>2 DEF CreatePart, Goto, TypeOK, Ownership
    <2>5. Progress(p)'
      BY <1>t, <1>2 DEF CreatePart, Goto, TypeOK, Progress
    <2> QED
      BY <2>1, <2>2, <2>3, <2>4, <2>5, <1>a
  <1>3. CASE OpenADC(p)
    <2>1. TypeOK'
      BY <1>t, <1>3 DEF OpenADC, Goto, TypeOK, Leaves, Part
    <2>2. \A q \in Processes \ {p} : Untouched(q)
      BY <1>t, <1>3 DEF OpenADC, Goto, Untouched
    <2>3. Position(p)'
      BY <1>t, <1>3 DEF OpenADC, Goto, Position
    <2>4. Ownership(p)'
      BY <1>t, <1>3 DEF OpenADC, Goto, TypeOK, Ownership, InStage
    <2>5. Progress(p)'
      BY <1>t, <1>3 DEF OpenADC, Goto, TypeOK, Progress, AdcNames
    <2> QED
      BY <2>1, <2>2, <2>3, <2>4, <2>5, <1>a
  <1>4. CASE OpenADCFails(p)
    <2>1. TypeOK'
      BY <1>t, <1>4 DEF OpenADCFails, Goto, memory, TypeOK
    <2>2. \A q \in Processes \ {p} : Untouched(q)
      BY <1>t, <1>4
      DEF OpenADCFails, Goto, memory, TypeOK, Untouched, Ownership, InStage
    <2>3. Position(p)'
      BY <1>t, <1>4 DEF OpenADCFails, Goto, Position
    <2>4. Ownership(p)'
      BY <1>t, <1>4 DEF OpenADCFails, Goto, memory, TypeOK, Ownership, InStage
    <2>5. Progress(p)'
      BY <1>t, <1>4 DEF OpenADCFails, Goto, memory, Progress
    <2> QED
      BY <2>1, <2>2, <2>3, <2>4, <2>5, <1>a
  <1>5. CASE WriteAt(p)
    <2>1. TypeOK'
      BY <1>t, <1>5 DEF WriteAt, memory, TypeOK
    <2>2. \A q \in Processes \ {p} : Untouched(q)
      BY <1>t, <1>5 DEF WriteAt, memory, Untouched
    <2>3. Position(p)'
      BY <1>t, <1>5 DEF WriteAt, Position
    <2>4. Ownership(p)'
      BY <1>t, <1>5 DEF WriteAt, memory, Ownership
    <2>5. Progress(p)'
      BY <1>t, <1>5 DEF WriteAt, memory, Progress
    <2> QED
      BY <2>1, <2>2, <2>3, <2>4, <2>5, <1>a
  <1>6. CASE SyncADC(p)
    <2>1. TypeOK'
      BY <1>t, <1>6 DEF SyncADC, Goto, memory, disk, TypeOK
    <2>2. \A q \in Processes \ {p} : Untouched(q)
      BY <1>t, <1>6 DEF SyncADC, Goto, memory, disk, Untouched
    <2>3. Position(p)'
      BY <1>t, <1>6 DEF SyncADC, Goto, Position
    <2>4. Ownership(p)'
      BY <1>t, <1>6 DEF SyncADC, Goto, memory, disk, Ownership, InStage
    <2>5. Progress(p)'
      BY <1>t, <1>6 DEF SyncADC, Goto, memory, disk, Progress
    <2> QED
      BY <2>1, <2>2, <2>3, <2>4, <2>5, <1>a
  <1>7. CASE CloseADC(p)
    <2>1. TypeOK'
      BY <1>t, <1>7 DEF CloseADC, Goto, memory, disk, TypeOK
    <2>2. \A q \in Processes \ {p} : Untouched(q)
      BY <1>t, <1>7 DEF CloseADC, Goto, memory, disk, Untouched
    <2>3. Position(p)'
      BY <1>t, <1>7 DEF CloseADC, Goto, Position
    <2>4. Ownership(p)'
      BY <1>t, <1>7 DEF CloseADC, Goto, memory, disk, Ownership, InStage
    <2>5. Progress(p)'
      BY <1>t, <1>7 DEF CloseADC, Goto, memory, disk, Progress
    <2> QED
      BY <2>1, <2>2, <2>3, <2>4, <2>5, <1>a
  <1>8. CASE Link(p)
    <2>1. TypeOK'
      BY <1>t, <1>8 DEF Link, Goto, memory, Stage, TypeOK, Final
    <2>2. \A q \in Processes \ {p} : Untouched(q)
      BY <1>t, <1>8, DirectoryAssumption
      DEF Link, Goto, memory, Stage, TypeOK, Untouched, Ownership, InStage
    <2>3. Position(p)'
      BY <1>t, <1>8 DEF Link, Goto, Position
    <2>4. Ownership(p)'
      BY <1>t, <1>8 DEF Link, Goto, memory, Stage, TypeOK, Ownership, InStage
    <2>5. Progress(p)'
      BY <1>t, <1>8
      DEF Link, Goto, memory, Stage, TypeOK, Ownership, Progress, InStage
    <2> QED
      BY <2>1, <2>2, <2>3, <2>4, <2>5, <1>a
  <1>9. CASE Unlink(p)
    <2>1. TypeOK'
      BY <1>t, <1>9 DEF Unlink, Goto, AfterUnlink, TypeOK, Leaves
    <2>2. \A q \in Processes \ {p} : Untouched(q)
      BY <1>t, <1>9 DEF Unlink, Goto, Stage, TypeOK, Untouched, Ownership
    <2>3. Position(p)'
      BY <1>t, <1>9 DEF Unlink, Goto, AfterUnlink, Leaves, TypeOK, Position
    <2>4. Ownership(p)'
      BY <1>t, <1>9 DEF Unlink, Goto, AfterUnlink, Leaves, TypeOK, Ownership, InStage
    <2>5. Progress(p)'
      BY <1>t, <1>9, DirectoryAssumption
      DEF Unlink, Goto, AfterUnlink, TypeOK, Progress, Leaves, AdcNames, Part, Final
    <2> QED
      BY <2>1, <2>2, <2>3, <2>4, <2>5, <1>a
  <1>10. CASE UnlinkFails(p)
    <2>1. TypeOK'
      BY <1>t, <1>10 DEF UnlinkFails, Goto, memory, disk, TypeOK
    <2>2. \A q \in Processes \ {p} : Untouched(q)
      BY <1>t, <1>10 DEF UnlinkFails, Goto, memory, disk, Untouched
    <2>3. Position(p)'
      BY <1>t, <1>10 DEF UnlinkFails, Goto, Position
    <2>4. Ownership(p)'
      BY <1>t, <1>10 DEF UnlinkFails, Goto, memory, disk, Ownership
    <2>5. Progress(p)'
      BY <1>t, <1>10 DEF UnlinkFails, Goto, memory, disk, Progress
    <2> QED
      BY <2>1, <2>2, <2>3, <2>4, <2>5, <1>a
  <1>11. CASE Rollback(p)
    <2>1. TypeOK'
      BY <1>t, <1>11 DEF Rollback, Goto, memory, TypeOK
    <2>2. \A q \in Processes \ {p} : Untouched(q)
      BY <1>t, <1>11, DirectoryAssumption
      DEF Rollback, Goto, memory, Stage, TypeOK, Untouched, Ownership
    <2>3. Position(p)'
      BY <1>t, <1>11 DEF Rollback, Goto, Position
    <2>4. Ownership(p)'
      BY <1>t, <1>11 DEF Rollback, Goto, memory, TypeOK, Ownership
    <2>5. Progress(p)'
      BY <1>t, <1>11
      DEF Rollback, Goto, memory, Removed, TypeOK, Progress, AdcNames, Part, Final
    <2> QED
      BY <2>1, <2>2, <2>3, <2>4, <2>5, <1>a
  <1>12. CASE HashADC(p)
    <2>1. TypeOK'
      BY <1>t, <1>12
      DEF HashADC, Goto, disk, Stage, TypeOK, Leaves, Ownership, InStage
    <2>2. \A q \in Processes \ {p} : Untouched(q)
      BY <1>t, <1>12 DEF HashADC, Goto, disk, Untouched
    <2>3. Position(p)'
      BY <1>t, <1>12 DEF HashADC, Goto, Position
    <2>4. Ownership(p)'
      BY <1>t, <1>12 DEF HashADC, Goto, disk, Ownership, InStage
    <2>5. Progress(p)'
      BY <1>t, <1>12 DEF HashADC, Goto, disk, TypeOK, Progress
    <2> QED
      BY <2>1, <2>2, <2>3, <2>4, <2>5, <1>a
  <1>13. CASE StageFile(p)
    <2>1. TypeOK'
      BY <1>t, <1>13
      DEF StageFile, Goto, memory, Stage, TypeOK, Part, Ownership, InStage
    <2>2. \A q \in Processes \ {p} : Untouched(q)
      BY <1>t, <1>13 DEF StageFile, Goto, memory, Stage, Untouched, Ownership, InStage
    <2>3. Position(p)'
      BY <1>t, <1>13 DEF StageFile, Goto, Position
    <2>4. Ownership(p)'
      BY <1>t, <1>13 DEF StageFile, Goto, memory, Ownership, InStage
    <2>5. Progress(p)'
      BY <1>t, <1>13
      DEF StageFile, Goto, memory, Stage, TypeOK, Ownership, Progress, InStage
    <2> QED
      BY <2>1, <2>2, <2>3, <2>4, <2>5, <1>a
  <1>14. CASE StageFileFails(p)
    <2>1. TypeOK'
      BY <1>t, <1>14
      DEF StageFileFails, Goto, memory, Stage, TypeOK, Part, Ownership, InStage
    <2>2. \A q \in Processes \ {p} : Untouched(q)
      BY <1>t, <1>14
      DEF StageFileFails, Goto, memory, Stage, Untouched, Ownership, InStage
    <2>3. Position(p)'
      BY <1>t, <1>14 DEF StageFileFails, Goto, Position
    <2>4. Ownership(p)'
      BY <1>t, <1>14 DEF StageFileFails, Goto, memory, Ownership, InStage
    <2>5. Progress(p)'
      BY <1>t, <1>14 DEF StageFileFails, Goto, memory, Progress
    <2> QED
      BY <2>1, <2>2, <2>3, <2>4, <2>5, <1>a
  <1>15. CASE ValidateStage(p)
    <2>1. TypeOK'
      BY <1>t, <1>15 DEF ValidateStage, Goto, memory, disk, TypeOK
    <2>2. \A q \in Processes \ {p} : Untouched(q)
      BY <1>t, <1>15 DEF ValidateStage, Goto, memory, disk, Untouched
    <2>3. Position(p)'
      BY <1>t, <1>15 DEF ValidateStage, Goto, Position
    <2>4. Ownership(p)'
      BY <1>t, <1>15 DEF ValidateStage, Goto, memory, disk, Ownership, InStage
    <2>5. Progress(p)'
      BY SMTT(30), <1>t, <1>15, DirectoryAssumption
      DEF ValidateStage, Goto, memory, disk, Stage, TypeOK, Position, Ownership,
          Progress, InStage, Leaves, AdcNames, Part, Final, Complete
    <2> QED
      BY <2>1, <2>2, <2>3, <2>4, <2>5, <1>a
  <1>16. CASE InspectStage(p)
    <2>1. TypeOK'
      BY <1>t, <1>16 DEF InspectStage, Goto, memory, disk, TypeOK
    <2>2. \A q \in Processes \ {p} : Untouched(q)
      BY <1>t, <1>16 DEF InspectStage, Goto, memory, disk, Untouched
    <2>3. Position(p)'
      BY <1>t, <1>16 DEF InspectStage, Goto, Position
    <2>4. Ownership(p)'
      BY <1>t, <1>16 DEF InspectStage, Goto, memory, disk, Ownership, InStage
    <2>5. Progress(p)'
      BY <1>t, <1>16 DEF InspectStage, Position, Progress
    <2> QED
      BY <2>1, <2>2, <2>3, <2>4, <2>5, <1>a
  <1>17. CASE Rename(p)
    <2>1. TypeOK'
      BY <1>t, <1>17 DEF Rename, Goto, Stage, TypeOK
    <2>2. \A q \in Processes \ {p} : Untouched(q)
      BY <1>t, <1>17, DirectoryAssumption
      DEF Rename, Goto, Stage, NoReplace, TypeOK, Untouched, Ownership, InStage
    <2>3. Position(p)'
      BY <1>t, <1>17 DEF Rename, Goto, Position
    <2>4. Ownership(p)'
      BY <1>t, <1>17 DEF Rename, Goto, Stage, TypeOK, Ownership, InStage
    <2>5. Progress(p)'
      BY <1>t, <1>17 DEF Rename, Goto, Progress
    <2> QED
      BY <2>1, <2>2, <2>3, <2>4, <2>5, <1>a
  <1>18. CASE StepFails(p)
    <2>1. TypeOK'
      BY <1>t, <1>18 DEF StepFails, Goto, memory, disk, TypeOK
    <2>2. \A q \in Processes \ {p} : Untouched(q)
      BY <1>t, <1>18 DEF StepFails, Goto, memory, disk, Untouched
    <2>3. Position(p)'
      BY <1>t, <1>18 DEF StepFails, Goto, Position
    <2>4. Ownership(p)'
      BY <1>t, <1>18 DEF StepFails, Goto, memory, disk, Ownership, InStage
    <2>5. Progress(p)'
      BY <1>t, <1>18 DEF StepFails, Goto, memory, disk, Progress
    <2> QED
      BY <2>1, <2>2, <2>3, <2>4, <2>5, <1>a
  <1>19. CASE Kill(p)
    <2>1. TypeOK'
      BY <1>t, <1>19 DEF Kill, Goto, memory, disk, TypeOK
    <2>2. \A q \in Processes \ {p} : Untouched(q)
      BY <1>t, <1>19 DEF Kill, Goto, memory, disk, Untouched
    <2>3. Position(p)'
      BY <1>t, <1>19 DEF Kill, Goto, Position
    <2>4. Ownership(p)'
      BY <1>t, <1>19 DEF Kill, Goto, memory, disk, Ownership, InStage
    <2>5. Progress(p)'
      BY <1>t, <1>19 DEF Kill, Goto, memory, disk, Progress
    <2> QED
      BY <2>1, <2>2, <2>3, <2>4, <2>5, <1>a
  <1>20. CASE Cancel(p)
    <2>1. TypeOK'
      BY <1>t, <1>20 DEF Cancel, memory, disk, TypeOK
    <2>2. \A q \in Processes \ {p} : Untouched(q)
      BY <1>t, <1>20 DEF Cancel, memory, disk, Untouched
    <2>3. Position(p)'
      BY <1>t, <1>20 DEF Cancel, Position
    <2>4. Ownership(p)'
      BY <1>t, <1>20 DEF Cancel, memory, disk, Ownership
    <2>5. Progress(p)'
      BY <1>t, <1>20 DEF Cancel, memory, disk, Progress
    <2> QED
      BY <2>1, <2>2, <2>3, <2>4, <2>5, <1>a
  <1> QED
    BY <1>1, <1>2, <1>3, <1>4, <1>5, <1>6, <1>7, <1>8, <1>9, <1>10,
       <1>11, <1>12, <1>13, <1>14, <1>15, <1>16, <1>17, <1>18, <1>19, <1>20
    DEF Creates, CommitContext, Publishes

\* The invariant is inductive.
LEMMA NextInv == DiskInv /\ [Next]_vars => DiskInv'
  <1> SUFFICES ASSUME DiskInv, [Next]_vars PROVE DiskInv'
    OBVIOUS
  <1>1. CASE Next
    BY <1>1, StepInv DEF Next
  <1>2. CASE UNCHANGED vars
    BY <1>2 DEF vars, disk, memory, DiskInv, TypeOK, Position, Ownership, Progress,
                InStage, Leaves, AdcNames
  <1> QED
    BY <1>1, <1>2

\* The invariant holds in every reachable state.
LEMMA Invariance == Spec => []DiskInv
  BY InitInv, NextInv, PTL DEF Spec

-----------------------------------------------------------------------------
(* Theorems.                                                               *)

\* Publication never overwrites: whichever processes share a destination and
\* wherever they fail or are killed, a committed output stays what it is.
THEOREM NeverOverwritten == Spec => []CommittedStays
  <1>1. DiskInv => CommittedStays
    BY DEF DiskInv, Ownership, CommittedStays
  <1> QED
    BY <1>1, Invariance, PTL

\* OUT.part belongs to one process from its creation to its publication: the
\* exclusive creation is a lock, and every path below it leads to its owner's
\* files.
THEOREM StageExclusive == Spec => []StageIsOwn
  <1>1. DiskInv => StageIsOwn
    BY DEF DiskInv, Ownership, StageIsOwn
  <1> QED
    BY <1>1, Invariance, PTL

\* No failure, kill or rollback loses the recorded bytes.
THEOREM CapturesKept == Spec => []CaptureIsKept
  <1>1. DiskInv => CaptureIsKept
    BY DEF DiskInv, Ownership, Progress, AdcNames, CaptureIsKept
  <1> QED
    BY <1>1, Invariance, PTL

\* Whatever is found under OUT is complete, and its manifest describes its
\* bytes.
THEOREM PublicationComplete == Spec => []PublishedIsComplete
  <1>1. ASSUME DiskInv PROVE PublishedIsComplete
    <2>1. SUFFICES ASSUME NEW p \in Processes, names["OUT"] = p
                   PROVE  CASE kind[p] = "file"        -> pc[p] \notin {"open", "close"}
                            [] kind[p] = "session"     -> /\ entries[p] = Complete
                                                          /\ manifest[p] = content[p]
                            [] kind[p] = "transaction" -> TRUE
      BY DEF PublishedIsComplete
    <2>2. TypeOK /\ Ownership(p) /\ Progress(p)
      BY <1>1 DEF DiskInv
    <2>3. kind[p] \in {"file", "session", "transaction"}
      BY <2>2 DEF TypeOK
    <2>4. CASE kind[p] = "file"
      BY <2>1, <2>2, <2>4 DEF Ownership
    <2>5. CASE kind[p] = "session"
      BY <2>1, <2>2, <2>5 DEF Ownership, Progress
    <2>6. CASE kind[p] = "transaction"
      BY <2>6
    <2> QED
      BY <2>3, <2>4, <2>5, <2>6
  <1> QED
    BY <1>1, Invariance, PTL

\* A commit of a directory that reports an error has published nothing.
THEOREM FailureUnpublished == Spec => []FailedIsUnpublished
  <1>1. DiskInv => FailedIsUnpublished
    BY DEF DiskInv, Ownership, FailedIsUnpublished
  <1> QED
    BY <1>1, Invariance, PTL
=============================================================================
