--------------------------- MODULE SessionDirectory ---------------------------
(***************************************************************************)
(* The output transactions of internal/capturefile: File,                  *)
(* SessionDirectory and TransactionDirectory, with the finaliser of        *)
(* internal/capturemanifest, on a Linux file system.                       *)
(*                                                                         *)
(* Several processes are given the same destination OUT.  Each stages its  *)
(* capture under OUT.part, works on it by path, and publishes it as OUT.   *)
(* Any system call may fail, the context may be cancelled, and a process   *)
(* may be killed between any two of its steps.                             *)
(***************************************************************************)
EXTENDS Integers, FiniteSets

CONSTANTS
  Processes,   \* processes that were given the same destination
  NoProcess,   \* nothing exists under a name
  MaxWrites    \* bound: writes to one ADC file

ASSUME DirectoryAssumption == NoProcess \notin Processes /\ MaxWrites \in Nat

VARIABLES
  kind,       \* the output each process uses
  names,      \* whose object exists as OUT and as OUT.part
  entries,    \* files in the directory a process created
  content,    \* version of the bytes in a process's ADC file
  manifest,   \* version of the bytes capture.json describes
  pc,         \* the next system call of a process
  leaf,       \* the file publishNoReplace is applied to
  artifact,   \* SessionStage.adc: the version that was hashed
  opened,     \* the ADC part file was created
  cancelled,  \* the context of CommitContext
  committed   \* Committed()

disk == <<names, entries, content, manifest>>
memory == <<leaf, artifact, opened, committed>>
vars == <<kind, disk, pc, memory, cancelled>>

Leaves == {"adc.bin", "radar.cfg", "capture.json"}
Part(f) == <<f, "part">>
Final(f) == <<f, "final">>
Complete == {Final(f) : f \in Leaves}

Init ==
  /\ kind \in [Processes -> {"file", "session", "transaction"}]
  /\ names = [n \in {"OUT", "OUT.part"} |-> NoProcess]
  /\ entries = [p \in Processes |-> {}]
  /\ content = [p \in Processes |-> 0]
  /\ manifest = [p \in Processes |-> 0]
  /\ pc = [p \in Processes |-> "start"]
  /\ leaf = [p \in Processes |-> "adc.bin"]
  /\ artifact = [p \in Processes |-> 0]
  /\ opened = [p \in Processes |-> FALSE]
  /\ cancelled = [p \in Processes |-> FALSE]
  /\ committed = [p \in Processes |-> FALSE]

-----------------------------------------------------------------------------
(* Creation.                                                               *)

Goto(p, to) == pc' = [pc EXCEPT ![p] = to]

\* The output must not exist yet.
Lstat(p) ==
  /\ pc[p] = "start"
  /\ names["OUT"] = NoProcess
  /\ Goto(p, "create")
  /\ UNCHANGED <<kind, disk, memory, cancelled>>

\* Mutant: an existing OUT.part is taken over.
Exclusive_takesOver == TRUE

\* Mkdir, or OpenFile with O_EXCL.
Exclusive == names["OUT.part"] = NoProcess

CreatePart(p) ==
  /\ pc[p] = "create"
  /\ Exclusive
  /\ names' = [names EXCEPT !["OUT.part"] = p]
  /\ Goto(p, CASE kind[p] = "file"        -> "open"
               [] kind[p] = "session"     -> "openADC"
               [] kind[p] = "transaction" -> "inspect")
  /\ opened' = [opened EXCEPT ![p] = kind[p] = "file"]
  /\ UNCHANGED <<kind, entries, content, manifest, leaf, artifact, cancelled,
                 committed>>

OpenADC(p) ==
  /\ pc[p] = "openADC"
  /\ entries' = [entries EXCEPT ![p] = @ \cup {Part("adc.bin")}]
  /\ opened' = [opened EXCEPT ![p] = TRUE]
  /\ Goto(p, "open")
  /\ UNCHANGED <<kind, names, content, manifest, leaf, artifact, cancelled,
                 committed>>

\* The empty stage is removed, when that works.
OpenADCFails(p) ==
  /\ pc[p] = "openADC"
  /\ names' \in {names, [names EXCEPT !["OUT.part"] = NoProcess]}
  /\ Goto(p, "failed")
  /\ UNCHANGED <<kind, entries, content, manifest, memory, cancelled>>

-----------------------------------------------------------------------------
(* Use and CommitContext.                                                  *)

WriteAt(p) ==
  /\ pc[p] = "open"
  /\ content[p] < MaxWrites
  /\ content' = [content EXCEPT ![p] = @ + 1]
  /\ UNCHANGED <<kind, names, entries, manifest, pc, memory, cancelled>>

SyncADC(p) ==
  /\ pc[p] = "open"
  /\ ~ cancelled[p]
  /\ Goto(p, "close")
  /\ UNCHANGED <<kind, disk, memory, cancelled>>

CloseADC(p) ==
  /\ pc[p] = "close"
  /\ ~ cancelled[p]
  /\ Goto(p, "link")
  /\ UNCHANGED <<kind, disk, memory, cancelled>>

\* The directory that paths below OUT.part reach.
Stage == names["OUT.part"]

\* publishNoReplace: a hard link, which fails when the final name exists.
Link(p) ==
  /\ pc[p] = "link"
  /\ ~ cancelled[p]
  /\ IF kind[p] = "file"
     THEN /\ names["OUT"] = NoProcess
          /\ names' = [names EXCEPT !["OUT"] = Stage]
          /\ UNCHANGED entries
     ELSE /\ Part(leaf[p]) \in entries[Stage]
          /\ Final(leaf[p]) \notin entries[Stage]
          /\ entries' = [entries EXCEPT ![Stage] = @ \cup {Final(leaf[p])}]
          /\ UNCHANGED names
  /\ Goto(p, "unlink")
  /\ UNCHANGED <<kind, content, manifest, memory, cancelled>>

\* Mutant: the stage is published before capture.json is in it.
AfterUnlink_early(p) ==
  IF kind[p] = "file" THEN "done"
  ELSE IF leaf[p] = "adc.bin" THEN "hash" ELSE "rename"

\* adc.bin, radar.cfg and capture.json are published in this order.
AfterUnlink(p) ==
  IF kind[p] = "file" THEN "done"
  ELSE CASE leaf[p] = "adc.bin"      -> "hash"
         [] leaf[p] = "radar.cfg"    -> "stage"
         [] leaf[p] = "capture.json" -> "validate"

\* publishNoReplace removes the part name.
Unlink(p) ==
  /\ pc[p] = "unlink"
  /\ IF kind[p] = "file"
     THEN names' = [names EXCEPT !["OUT.part"] = NoProcess] /\ UNCHANGED entries
     ELSE /\ entries' = [entries EXCEPT ![Stage] = @ \ {Part(leaf[p])}]
          /\ UNCHANGED names
  /\ committed' = [committed EXCEPT ![p] = kind[p] = "file"]
  /\ leaf' = [leaf EXCEPT ![p] = IF @ = "radar.cfg" THEN "capture.json" ELSE @]
  /\ Goto(p, AfterUnlink(p))
  /\ UNCHANGED <<kind, content, manifest, artifact, opened, cancelled>>

UnlinkFails(p) ==
  /\ pc[p] = "unlink"
  /\ Goto(p, "rollback")
  /\ UNCHANGED <<kind, disk, memory, cancelled>>

\* Mutant: the rollback clears both names.
Removed_both(p) == {Part(leaf[p]), Final(leaf[p])}

Removed(p) == {Final(leaf[p])}

\* The final name is removed again, when that works; CommitContext fails.
Rollback(p) ==
  /\ pc[p] = "rollback"
  /\ IF kind[p] = "file"
     THEN names' \in {names, [names EXCEPT !["OUT"] = NoProcess]} /\ UNCHANGED entries
     ELSE /\ entries' \in {entries, [entries EXCEPT ![Stage] = @ \ Removed(p)]}
          /\ UNCHANGED names
  /\ Goto(p, "failed")
  /\ UNCHANGED <<kind, content, manifest, memory, cancelled>>

\* inspectSessionADC; the finaliser refuses an empty ADC file.
HashADC(p) ==
  /\ pc[p] = "hash"
  /\ ~ cancelled[p]
  /\ Final("adc.bin") \in entries[Stage]
  /\ content[Stage] > 0
  /\ artifact' = [artifact EXCEPT ![p] = content[Stage]]
  /\ leaf' = [leaf EXCEPT ![p] = "radar.cfg"]
  /\ Goto(p, "stage")
  /\ UNCHANGED <<kind, disk, opened, cancelled, committed>>

\* WriteFileContext up to the publication of NAME.part.
StageFile(p) ==
  /\ pc[p] = "stage"
  /\ ~ cancelled[p]
  /\ Part(leaf[p]) \notin entries[Stage]
  /\ entries' = [entries EXCEPT ![Stage] = @ \cup {Part(leaf[p])}]
  /\ manifest' = IF leaf[p] = "capture.json"
                 THEN [manifest EXCEPT ![Stage] = artifact[p]]
                 ELSE manifest
  /\ Goto(p, "link")
  /\ UNCHANGED <<kind, names, content, memory, cancelled>>

\* A write, sync or close of NAME.part fails and leaves it behind.
StageFileFails(p) ==
  /\ pc[p] = "stage"
  /\ ~ cancelled[p]
  /\ entries' = [entries EXCEPT ![Stage] = @ \cup {Part(leaf[p])}]
  /\ Goto(p, "failed")
  /\ UNCHANGED <<kind, names, content, manifest, memory, cancelled>>

\* validateCompletedSessionStage.
ValidateStage(p) ==
  /\ pc[p] = "validate"
  /\ ~ cancelled[p]
  /\ \A f \in Leaves : Part(f) \notin entries[Stage]
  /\ {Final("adc.bin"), Final("capture.json")} \subseteq entries[Stage]
  /\ content[Stage] = artifact[p]
  /\ Goto(p, "rename")
  /\ UNCHANGED <<kind, disk, memory, cancelled>>

\* TransactionDirectory.CommitContext, after its owner filled the stage.
InspectStage(p) ==
  /\ pc[p] = "inspect"
  /\ ~ cancelled[p]
  /\ Stage # NoProcess
  /\ Goto(p, "rename")
  /\ UNCHANGED <<kind, disk, memory, cancelled>>

\* Mutant: a plain rename, which replaces what is there.
NoReplace_rename == TRUE

NoReplace == names["OUT"] = NoProcess

\* Mutant: the context is tested once more after the rename.
Rename_testsAfter(p) ==
  /\ pc[p] = "rename"
  /\ NoReplace
  /\ names' = [names EXCEPT !["OUT"] = Stage, !["OUT.part"] = NoProcess]
  /\ committed' = [committed EXCEPT ![p] = ~ cancelled[p]]
  /\ Goto(p, IF cancelled[p] THEN "failed" ELSE "done")
  /\ UNCHANGED <<kind, entries, content, manifest, leaf, artifact, opened,
                 cancelled>>

\* publishDirectoryNoReplace: renameat2 with RENAME_NOREPLACE.
Rename(p) ==
  /\ pc[p] = "rename"
  /\ NoReplace
  /\ names' = [names EXCEPT !["OUT"] = Stage, !["OUT.part"] = NoProcess]
  /\ committed' = [committed EXCEPT ![p] = TRUE]
  /\ Goto(p, "done")
  /\ UNCHANGED <<kind, entries, content, manifest, leaf, artifact, opened,
                 cancelled>>

-----------------------------------------------------------------------------
\* A system call or a test fails and leaves the disk as it is; also a session
\* that closes its output without a commit.
StepFails(p) ==
  /\ pc[p] \in {"start", "create", "open", "close", "link", "hash", "stage",
                "validate", "inspect", "rename"}
  /\ Goto(p, "failed")
  /\ UNCHANGED <<kind, disk, memory, cancelled>>

Kill(p) ==
  /\ pc[p] \notin {"done", "failed", "killed"}
  /\ Goto(p, "killed")
  /\ UNCHANGED <<kind, disk, memory, cancelled>>

Cancel(p) ==
  /\ ~ cancelled[p]
  /\ cancelled' = [cancelled EXCEPT ![p] = TRUE]
  /\ UNCHANGED <<kind, disk, pc, memory>>

Creates(p) == Lstat(p) \/ CreatePart(p) \/ OpenADC(p) \/ OpenADCFails(p)

Publishes(p) == Link(p) \/ Unlink(p) \/ UnlinkFails(p) \/ Rollback(p)

CommitContext(p) ==
  \/ SyncADC(p)
  \/ CloseADC(p)
  \/ HashADC(p)
  \/ StageFile(p)
  \/ StageFileFails(p)
  \/ ValidateStage(p)
  \/ InspectStage(p)
  \/ Rename(p)

Next ==
  \E p \in Processes :
    \/ Creates(p)
    \/ WriteAt(p)
    \/ CommitContext(p)
    \/ Publishes(p)
    \/ StepFails(p)
    \/ Kill(p)
    \/ Cancel(p)

Spec == Init /\ [][Next]_vars

-----------------------------------------------------------------------------
(* Properties.                                                             *)

TypeOK ==
  /\ kind \in [Processes -> {"file", "session", "transaction"}]
  /\ names \in [{"OUT", "OUT.part"} -> Processes \cup {NoProcess}]
  /\ entries \in [Processes -> SUBSET (Leaves \X {"part", "final"})]
  /\ content \in [Processes -> Nat]
  /\ manifest \in [Processes -> Nat]
  /\ pc \in [Processes ->
       {"start", "create", "openADC", "open", "close", "link", "unlink",
        "rollback", "hash", "stage", "validate", "inspect", "rename", "done",
        "failed", "killed"}]
  /\ leaf \in [Processes -> Leaves]
  /\ artifact \in [Processes -> Nat]
  /\ opened \in [Processes -> BOOLEAN]
  /\ cancelled \in [Processes -> BOOLEAN]
  /\ committed \in [Processes -> BOOLEAN]

\* What is published is whole, whoever was killed or failed before: a session
\* has exactly its three files and a manifest for the bytes that are in adc.bin;
\* a single file is no longer open for writing.
PublishedIsComplete ==
  \A p \in Processes :
    names["OUT"] = p =>
      CASE kind[p] = "file"        -> pc[p] \notin {"open", "close"}
        [] kind[p] = "session"     -> entries[p] = Complete /\ manifest[p] = content[p]
        [] kind[p] = "transaction" -> TRUE

\* A committed output stays: no other process replaces or removes it, although
\* its check for an existing output came before this one was published.
CommittedStays == \A p \in Processes : committed[p] => names["OUT"] = p

InStage ==
  {"openADC", "open", "close", "link", "hash", "stage", "validate", "inspect",
   "rename"}

\* While a process works below OUT.part by path, the path leads to what it
\* created itself.
StageIsOwn ==
  \A p \in Processes : pc[p] \in InStage => names["OUT.part"] = p

\* The recorded bytes are never lost: after any failure, kill or rollback the
\* ADC file is still found under OUT.part or OUT.
CaptureIsKept ==
  \A p \in Processes :
    opened[p] =>
      /\ p \in {names["OUT"], names["OUT.part"]}
      /\ kind[p] = "session" =>
           entries[p] \cap {Part("adc.bin"), Final("adc.bin")} # {}

\* A commit that reported an error has not published a directory.
FailedIsUnpublished ==
  \A p \in Processes :
    pc[p] = "failed" /\ kind[p] # "file" => names["OUT"] # p
=============================================================================
