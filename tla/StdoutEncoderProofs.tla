------------------------- MODULE StdoutEncoderProofs -------------------------
(***************************************************************************)
(* TLAPS proofs about module StdoutEncoder, for every number of frames.    *)
(***************************************************************************)
EXTENDS StdoutEncoder, FiniteSetTheorems, TLAPS

-----------------------------------------------------------------------------
(* The inductive invariant.                                                *)

Kinds == {"session", "config", "frame", "commit", "abort"}
Records == [kind : Kinds, index : Nat, whole : BOOLEAN]
Encoders == [state : {"ready", "poisoned", "terminal"}, nextFrame : Nat]
Workers == [pc : {"idle", "lock", "armed", "writing", "settle", "stopped"},
            frame : Nat, err : BOOLEAN]
Owners == [pc : {"create", "writing", "settle", "serving", "lock", "done"},
           call : {"create", "commit", "abort"}, ok : BOOLEAN]
Hooks == [{"worker", "owner"} -> {"off", "armed", "fired"}]

TypeInv ==
  /\ stdout \in Seq(Records)
  /\ outputClosed \in BOOLEAN
  /\ closeErr \in BOOLEAN
  /\ mutex \in {"free", "worker", "owner"}
  /\ encoder \in Encoders
  /\ worker \in Workers
  /\ owner \in Owners
  /\ hook \in Hooks
  /\ captureCancelled \in BOOLEAN
  /\ sinkCancelled \in BOOLEAN
  /\ expired \in BOOLEAN
  /\ outcome \in {"running", "published", "failed"}
  /\ artifactMatches \in BOOLEAN

\* NewStdoutEncoder has returned the encoder.
Created == owner.pc = "serving" \/ owner.call # "create"

\* Who writes has the mutex; the creation comes before everything else.
Exclusion ==
  /\ worker.pc \in {"armed", "writing", "settle"} <=> mutex = "worker"
  /\ owner.call # "create" /\ owner.pc \in {"writing", "settle"} <=> mutex = "owner"
  /\ owner.pc \in {"create", "serving"} => owner.call = "create"
  /\ owner.pc = "lock" => owner.call # "create"
  /\ ~ Created => worker.pc = "idle" /\ encoder.nextFrame = 0
  /\ ~ Created => encoder.state # "terminal"

\* Only a ready encoder has a record under way, and it is the next one.
NextRecord ==
  /\ worker.pc = "writing" => encoder.state = "ready" /\ worker.frame = encoder.nextFrame
  /\ owner.pc \in {"create", "writing"} => encoder.state = "ready"
  /\ owner.pc = "create" => stdout = <<>>
  /\ owner.pc = "writing" /\ owner.call = "create" => Len(stdout) < 2
  /\ owner.pc = "settle" /\ owner.call = "create" /\ owner.ok =>
       Len(stdout) = 2 /\ encoder.state = "ready"

Terminals == {"commit", "abort"}

\* A ready encoder has written whole records only, one for each frame after the
\* two of its creation.
Shape ==
  /\ StreamWellFormed
  /\ encoder.state = "ready" =>
       \A i \in DOMAIN stdout : stdout[i].whole /\ stdout[i].kind \notin Terminals
  /\ encoder.state = "ready" /\ Created => Len(stdout) = encoder.nextFrame + 2
  /\ Created => Len(stdout) >= encoder.nextFrame + 2
  /\ \A i \in DOMAIN stdout :
       stdout[i].kind = "frame" /\ stdout[i].whole <=> i \in 3 .. (encoder.nextFrame + 2)

\* The promise of COMMIT, from the call to the record.
Promise ==
  /\ owner.call = "commit" => outcome = "published"
  /\ owner.call = "commit" /\ owner.pc = "writing" => Committable
  /\ owner.call = "commit" /\ owner.ok =>
       Committed /\ (owner.pc = "settle" \/ ~ closeErr)
  /\ owner.pc = "done" => outputClosed
  /\ Committed =>
       /\ owner.call = "commit"
       /\ owner.pc \in {"settle", "done"}
       /\ owner.ok <=> owner.pc = "settle" \/ ~ closeErr
       /\ encoder.state = "terminal"
       /\ Committable

Inv == TypeInv /\ Exclusion /\ NextRecord /\ Shape /\ Promise

-----------------------------------------------------------------------------
(* Steps that write no record.                                             *)

USE FrameCountAssumption DEF Encoders, Workers, Owners, Hooks, output, Close

LEMMA PendingType ==
  ASSUME TypeInv, NEW t \in Threads
  PROVE  Pending(t) \in Records /\ [Pending(t) EXCEPT !.whole = FALSE] \in Records
  <1>1. /\ worker.frame \in Nat /\ encoder.nextFrame \in Nat
        /\ owner.call \in {"create", "commit", "abort"}
    BY DEF TypeInv
  <1> QED
    BY <1>1 DEF Pending, Record, Records, Kinds

LEMMA TypeNext == TypeInv /\ [Next]_vars => TypeInv'
  <1> SUFFICES ASSUME TypeInv, [Next]_vars PROVE TypeInv'
    OBVIOUS
  <1>1. CASE Create \/ CreateSettles \/ TerminalLocks \/ TerminalSettles
    <2>1. owner' \in Owners
      <3>1. CASE Create
        BY ZenonT(40), <3>1 DEF TypeInv, Create
      <3>2. CASE CreateSettles
        BY ZenonT(40), <3>2 DEF TypeInv, CreateSettles
      <3>3. CASE TerminalLocks
        BY <3>3 DEF TypeInv, TerminalLocks
      <3>4. CASE TerminalSettles
        BY <3>4 DEF TypeInv, TerminalSettles
      <3> QED
        BY <1>1, <3>1, <3>2, <3>3, <3>4
    <2>2. hook' \in Hooks
      BY <1>1 DEF TypeInv, Create, CreateSettles, TerminalLocks, TerminalSettles
    <2>5. outputClosed' \in BOOLEAN /\ closeErr' \in BOOLEAN
      BY <1>1 DEF TypeInv, Create, CreateSettles, TerminalLocks, TerminalSettles
    <2>3. encoder' \in Encoders /\ mutex' \in {"free", "worker", "owner"}
      BY <1>1 DEF TypeInv, Create, CreateSettles, TerminalLocks, TerminalSettles
    <2>4. UNCHANGED <<stdout, worker, contexts, session>>
      BY <1>1 DEF Create, CreateSettles, TerminalLocks, TerminalSettles
    <2> QED
      BY <2>1, <2>2, <2>3, <2>4, <2>5 DEF TypeInv, contexts, session
  <1>2. CASE \E call \in {"commit", "abort"} : TerminalEnters(call)
    <2> PICK call \in {"commit", "abort"} : TerminalEnters(call)
      BY <1>2
    <2>1. owner' \in Owners
      <3>1. /\ [pc |-> "done", call |-> call, ok |-> FALSE] \in Owners
            /\ [pc |-> "lock", call |-> call, ok |-> FALSE] \in Owners
        OBVIOUS
      <3> QED
        BY <3>1 DEF TerminalEnters
    <2>2. hook' \in Hooks /\ outputClosed' \in BOOLEAN /\ closeErr' \in BOOLEAN
      BY ZenonT(40) DEF TypeInv, TerminalEnters, ArmTerminal
    <2>3. UNCHANGED <<stdout, mutex, encoder, worker, contexts, session>>
      BY DEF TerminalEnters
    <2> QED
      BY <2>1, <2>2, <2>3 DEF TypeInv, contexts, session
  <1>3. CASE FrameEnters \/ FrameStep
    <2>1. worker' \in Workers
      <3>1. [pc |-> "idle", frame |-> worker.frame + 1, err |-> FALSE] \in Workers
        BY DEF TypeInv
      <3>2. CASE FrameEnters \/ FrameLocks
        BY <3>2 DEF TypeInv, FrameEnters, FrameLocks
      <3>3. CASE FrameBegins
        BY <3>3 DEF TypeInv, FrameBegins
      <3>4. CASE FrameSettles
        BY <3>1, <3>4 DEF TypeInv, FrameSettles
      <3> QED
        BY <1>3, <3>2, <3>3, <3>4 DEF FrameStep
    <2>2. hook' \in Hooks /\ mutex' \in {"free", "worker", "owner"}
      BY <1>3 DEF TypeInv, FrameStep, FrameEnters, FrameLocks, FrameBegins, FrameSettles,
         ArmFrame
    <2>3. encoder' \in Encoders
      BY <1>3 DEF TypeInv, FrameStep, FrameEnters, FrameLocks, FrameBegins, FrameSettles
    <2>4. UNCHANGED <<stdout, output, owner, contexts, session>>
      BY <1>3 DEF FrameStep, FrameEnters, FrameLocks, FrameBegins, FrameSettles
    <2> QED
      BY <2>1, <2>2, <2>3, <2>4 DEF TypeInv, contexts, session
  <1>4. CASE \E t \in Threads : HookFires(t)
    <2>1. hook' \in Hooks /\ outputClosed' \in BOOLEAN /\ closeErr' \in BOOLEAN
      BY <1>4 DEF TypeInv, HookFires, Threads
    <2>2. UNCHANGED <<stdout, mutex, encoder, worker, owner, contexts, session>>
      BY <1>4 DEF HookFires
    <2> QED
      BY <2>1, <2>2 DEF TypeInv, contexts, session
  <1>5. CASE \E t \in Threads : RecordWritten(t) \/ RecordFails(t)
    <2> PICK t \in Threads : RecordWritten(t) \/ RecordFails(t)
      BY <1>5
    <2>1. stdout' \in Seq(Records)
      <3>1. \/ stdout' = stdout
            \/ \E x \in Records : stdout' = Append(stdout, x)
        BY PendingType DEF RecordWritten, RecordFails
      <3>2. stdout \in Seq(Records)
        BY DEF TypeInv
      <3>3. ASSUME NEW x \in Records, stdout' = Append(stdout, x) PROVE stdout' \in Seq(Records)
        BY <3>2, <3>3
      <3> QED
        BY <3>1, <3>2, <3>3, Zenon
    <2>2. owner' \in Owners
      <3>1. CASE RecordWritten(t)
        BY ZenonT(40), <3>1 DEF TypeInv, RecordWritten
      <3>2. CASE RecordFails(t)
        BY <3>2 DEF TypeInv, RecordFails
      <3> QED
        BY <3>1, <3>2
    <2>3. worker' \in Workers
      BY ZenonT(40) DEF TypeInv, RecordWritten, RecordFails
    <2>4. encoder' \in Encoders
      BY DEF TypeInv, RecordWritten, RecordFails
    <2>5. UNCHANGED <<output, mutex, hook, contexts, session>>
      BY DEF RecordWritten, RecordFails
    <2> QED
      BY <2>1, <2>2, <2>3, <2>4, <2>5 DEF TypeInv, contexts, session
  <1>6. CASE Environment
    BY ZenonT(40), <1>6 DEF TypeInv, Environment, SessionPublishes, SessionFails, MirrorCancelsSink,
       CancelCapture, TerminalExpires, session
  <1>7. CASE UNCHANGED vars
    BY <1>7 DEF TypeInv, vars, contexts, session
  <1> QED
    BY <1>1, <1>2, <1>3, <1>4, <1>5, <1>6, <1>7
       DEF Next, OwnerStep, WriteInterrupted, WriteBreaks

LEMMA InitInv == Init => Inv
  <1> SUFFICES ASSUME Init PROVE Inv
    OBVIOUS
  <1>1. TypeInv
    <2>1. <<>> \in Seq(Records)
      OBVIOUS
    <2>2. encoder \in Encoders
      BY DEF Init, Encoders
    <2>3. worker \in Workers
      BY DEF Init, Workers
    <2>4. owner \in Owners
      BY DEF Init, Owners
    <2>5. hook \in Hooks
      BY DEF Init, Hooks
    <2> QED
      BY <2>1, <2>2, <2>3, <2>4, <2>5 DEF Init, TypeInv
  <1>2. Exclusion /\ NextRecord
    BY DEF Init, Exclusion, NextRecord, Created
  <1>3. Shape /\ Promise
    BY DEF Init, Shape, Promise, Created, StreamWellFormed, Committed
  <1> QED
    BY <1>1, <1>2, <1>3 DEF Inv

\* A step that leaves the stream, the encoder and the owner's call alone.
LEMMA QuietInv ==
  ASSUME Inv, UNCHANGED <<stdout, encoder, artifactMatches>>,
         TypeInv', Exclusion', NextRecord',
         owner'.call = "commit" => outcome' = "published",
         Created' <=> Created,
         owner'.call = "commit" <=> owner.call = "commit",
         owner'.pc = "writing" => owner.pc = "writing",
         owner'.ok <=> owner.ok /\ (owner'.pc = owner.pc \/ ~ closeErr'),
         owner'.pc = owner.pc \/ (owner.pc = "settle" /\ owner'.pc = "done"),
         owner'.pc = "done" => outputClosed',
         outputClosed => UNCHANGED closeErr,
         owner.pc \in {"settle", "done"} => owner'.pc \in {"settle", "done"}
  PROVE  Inv'
  <1>1. Shape'
    BY DEF Inv, Shape, StreamWellFormed, Terminals, Expected
  <1>2. (Committed' <=> Committed) /\ (Committable' <=> Committable)
    BY DEF Committed, Committable
  <1>3. closeErr' = closeErr \/ owner.pc # "done"
    BY DEF Inv, Promise
  <1>4. Promise'
    BY <1>2, <1>3 DEF Inv, Promise
  <1> QED
    BY <1>1, <1>4 DEF Inv

LEMMA EnvironmentInv ==
  ASSUME Inv, Environment PROVE Inv'
  <1> USE DEF Inv, TypeInv, Exclusion, NextRecord, Created, contexts, session
  <1>1. CASE SessionPublishes
    BY <1>1, QuietInv DEF SessionPublishes, Promise
  <1>2. CASE SessionFails
    BY <1>2, QuietInv DEF SessionFails, Promise
  <1>3. CASE MirrorCancelsSink
    BY <1>3, QuietInv DEF MirrorCancelsSink, Promise
  <1>4. CASE CancelCapture
    BY <1>4, QuietInv DEF CancelCapture, Promise
  <1>5. CASE TerminalExpires
    BY <1>5, QuietInv DEF TerminalExpires, Promise
  <1> QED
    BY <1>1, <1>2, <1>3, <1>4, <1>5 DEF Environment

\* A step that writes no record keeps the shape of the stream.
LEMMA SameShape ==
  ASSUME Inv, UNCHANGED stdout, encoder'.nextFrame = encoder.nextFrame,
         encoder'.state = "ready" => encoder.state = "ready",
         Created' => Created \/ (Len(stdout) = 2 /\ encoder.nextFrame = 0)
  PROVE  Shape'
  <1>1. StreamWellFormed'
    BY DEF Inv, Shape, StreamWellFormed, Expected
  <1>2. encoder'.nextFrame \in Nat /\ Len(stdout) \in Nat
    BY DEF Inv, TypeInv
  <1>6. /\ encoder.state = "ready" /\ Created => Len(stdout) = encoder.nextFrame + 2
        /\ Created => Len(stdout) >= encoder.nextFrame + 2
    BY DEF Inv, Shape
  <1>3. Created' => Len(stdout') >= encoder'.nextFrame + 2
    BY <1>2, <1>6 DEF Inv, TypeInv
  <1>4. encoder'.state = "ready" /\ Created' => Len(stdout') = encoder'.nextFrame + 2
    <2> SUFFICES ASSUME encoder'.state = "ready", Created'
                 PROVE  Len(stdout) = encoder.nextFrame + 2
      OBVIOUS
    <2>1. encoder.state = "ready"
      OBVIOUS
    <2>2. CASE Created
      BY <1>6, <2>1, <2>2
    <2>3. CASE Len(stdout) = 2 /\ encoder.nextFrame = 0
      BY <2>3
    <2> QED
      BY <2>2, <2>3
  <1>5. /\ encoder'.state = "ready" =>
             \A i \in DOMAIN stdout' : stdout'[i].whole /\ stdout'[i].kind \notin Terminals
        /\ \A i \in DOMAIN stdout' : stdout'[i].kind = "frame" /\ stdout'[i].whole
                                     <=> i \in 3 .. (encoder'.nextFrame + 2)
    BY DEF Inv, Shape
  <1> QED
    BY <1>1, <1>3, <1>4, <1>5 DEF Shape

\* The owner's steps that begin or end a call.
LEMMA OwnerInv ==
  ASSUME Inv, OwnerStep PROVE Inv'
  <1> USE DEF Inv, Exclusion, NextRecord, Created, contexts, session
  <1>1. CASE Create
    <2>1. TypeInv'
      BY <1>1, TypeNext DEF Next, OwnerStep
    <2>2. Exclusion'
      BY ZenonT(40), <1>1 DEF Create, TypeInv
    <2>3. Len(<<>>) = 0 /\ stdout = <<>>
      BY <1>1 DEF Create
    <2>4. NextRecord'
      <3>1. worker.pc # "writing" /\ encoder.state = "ready"
        BY <1>1 DEF Create, TypeInv
      <3>2. UNCHANGED <<worker, encoder, stdout>> /\ owner'.pc \in {"done", "writing"}
        BY <1>1 DEF Create, TypeInv
      <3> QED
        BY <2>3, <3>1, <3>2
    <2>5. ~ Committed
      BY <2>3 DEF Committed
    <2>6. Shape'
      <3>1. UNCHANGED <<stdout, encoder>> /\ ~ Created' /\ ~ Created
        BY ZenonT(40), <1>1 DEF Create, TypeInv
      <3> QED
        BY <3>1, SameShape
    <2>7. Promise'
      BY <1>1, <2>5 DEF Create, Promise, Committed, TypeInv
    <2> QED
      BY <2>1, <2>2, <2>4, <2>6, <2>7
  <1>2. CASE CreateSettles
    <2>1. TypeInv'
      BY <1>2, TypeNext DEF Next, OwnerStep
    <2>2. Exclusion'
      BY ZenonT(40), <1>2 DEF CreateSettles, TypeInv
    <2>7. NextRecord'
      BY ZenonT(40), <1>2 DEF CreateSettles, TypeInv
    <2>3. ~ Committed
      BY <1>2 DEF CreateSettles, Promise
    <2>4. /\ UNCHANGED <<stdout, encoder>>
          /\ Created' => Len(stdout) = 2 /\ encoder.nextFrame = 0
      BY <1>2 DEF CreateSettles, TypeInv
    <2>5. Shape'
      BY <2>4, SameShape
    <2>6. Promise'
      BY <1>2, <2>3 DEF CreateSettles, Promise, Committed, Committable, TypeInv
    <2> QED
      BY <2>1, <2>2, <2>5, <2>6, <2>7
  <1>3. ASSUME NEW call \in {"commit", "abort"}, TerminalEnters(call) PROVE Inv'
    <2>1. /\ owner'.pc \in {"done", "lock"} /\ ~ owner'.ok /\ owner'.call = call
          /\ UNCHANGED <<stdout, mutex, encoder, worker, contexts, session>>
      BY <1>3 DEF TerminalEnters
    <2>2. TypeInv'
      BY <1>3, TypeNext DEF Next, OwnerStep
    <2>3. owner.pc = "serving" /\ owner.call = "create"
      BY <1>3 DEF TerminalEnters
    <2>4. Exclusion' /\ NextRecord'
      BY <2>1, <2>3 DEF TypeInv
    <2>5. ~ Committed
      BY <2>3 DEF Promise
    <2>6. Shape'
      BY <2>1, <2>3, SameShape
    <2>7. Promise'
      BY <1>3, <2>1, <2>5 DEF TerminalEnters, Promise, Committed, Committable, TypeInv
    <2> QED
      BY <2>2, <2>4, <2>6, <2>7
  <1>4. CASE TerminalLocks
    <2>1. TypeInv'
      BY <1>4, TypeNext DEF Next, OwnerStep
    <2>2. Exclusion'
      BY <1>4 DEF TerminalLocks, TypeInv
    <2>7. NextRecord'
      BY <1>4 DEF TerminalLocks, Ready, TypeInv
    <2>3. ~ Committed
      BY <1>4 DEF TerminalLocks, Promise
    <2>4. /\ UNCHANGED stdout /\ encoder'.nextFrame = encoder.nextFrame
          /\ encoder'.state = "ready" => encoder.state = "ready"
          /\ Created /\ Created'
      BY <1>4 DEF TerminalLocks, TypeInv
    <2>5. Shape'
      BY <2>4, SameShape
    <2>6. Promise'
      BY <1>4, <2>3 DEF TerminalLocks, Promise, Committed, Committable, Ready, TypeInv
    <2> QED
      BY <2>1, <2>2, <2>5, <2>6, <2>7
  <1>5. CASE TerminalSettles
    <2>1. /\ owner.pc = "settle" /\ owner.call # "create"
          /\ owner'.pc = "done" /\ owner'.call = owner.call
          /\ owner'.ok <=> owner.ok /\ ~ closeErr'
          /\ mutex' = "free" /\ outputClosed' /\ (outputClosed => UNCHANGED closeErr)
          /\ UNCHANGED <<stdout, encoder, worker, contexts, session>>
      BY <1>5 DEF TerminalSettles, TypeInv
    <2>2. TypeInv'
      BY <1>5, TypeNext DEF Next, OwnerStep
    <2>3. Exclusion' /\ NextRecord'
      BY <2>1 DEF TypeInv
    <2> QED
      BY <2>1, <2>2, <2>3, QuietInv DEF Promise
  <1> QED
    BY <1>1, <1>2, <1>3, <1>4, <1>5 DEF OwnerStep

\* The worker's steps around a record, and the hooks.
LEMMA FrameInv ==
  ASSUME Inv, FrameEnters \/ FrameStep PROVE Inv'
  <1> USE DEF Inv, TypeInv, Exclusion, NextRecord, Created, contexts, session
  <1>1. CASE FrameEnters
    BY <1>1, QuietInv DEF FrameEnters, Promise
  <1>2. CASE FrameLocks
    BY <1>2, QuietInv DEF FrameLocks, ArmFrame, Promise
  <1>3. CASE FrameBegins
    <2>1. TypeInv'
      BY <1>3, TypeNext DEF Next, FrameStep
    <2>5. Exclusion'
      BY <1>3 DEF FrameBegins
    <2>6. NextRecord'
      BY <1>3 DEF FrameBegins, Ready
    <2>2. /\ UNCHANGED <<stdout, owner>> /\ encoder'.nextFrame = encoder.nextFrame
          /\ encoder'.state = "ready" => encoder.state = "ready"
          /\ encoder.state = "terminal" => encoder'.state = "terminal"
      BY <1>3 DEF FrameBegins, Ready
    <2>3. Shape'
      BY <2>2, SameShape
    <2>4. Promise'
      BY <1>3, <2>2 DEF FrameBegins, Promise, Committed, Committable
    <2> QED
      BY <2>1, <2>3, <2>4, <2>5, <2>6
  <1>4. CASE FrameSettles
    BY <1>4, QuietInv DEF FrameSettles, FrameAccepted, Promise
  <1> QED
    BY <1>1, <1>2, <1>3, <1>4 DEF FrameStep

LEMMA HookInv ==
  ASSUME Inv, NEW t \in Threads, HookFires(t) PROVE Inv'
  <1>1. /\ outputClosed' /\ (outputClosed => UNCHANGED closeErr)
        /\ UNCHANGED <<stdout, mutex, encoder, worker, owner, outcome, artifactMatches>>
    BY DEF HookFires, session
  <1>2. TypeInv'
    BY TypeNext DEF Inv, Next
  <1>3. Exclusion' /\ NextRecord' /\ (Created' <=> Created)
    BY <1>1 DEF Inv, Exclusion, NextRecord, Created
  <1> QED
    BY <1>1, <1>2, <1>3, QuietInv DEF Inv, Promise

-----------------------------------------------------------------------------
(* Records.                                                                *)

\* The record under way is the one expected at the next place of the stream.
LEMMA PendingExpected ==
  ASSUME Inv, NEW t \in Threads, Writing(t)
  PROVE  /\ Pending(t) \in Records /\ Pending(t).whole
         /\ <<Pending(t).kind, Pending(t).index>> \in Expected(Len(stdout) + 1)
         /\ encoder.state = "ready"
         /\ Pending(t).kind = "frame" <=> t = "worker"
         /\ Pending(t).kind = "commit" <=> t = "owner" /\ owner.call = "commit"
         /\ t = "worker" => Created
  <1> USE DEF Inv, TypeInv, Exclusion, NextRecord, Created, Shape
  <1>1. Len(stdout) \in Nat /\ (stdout = <<>> <=> Len(stdout) = 0)
    OBVIOUS
  <1>2. CASE t = "worker"
    <2>1. /\ worker.pc = "writing" /\ mutex = "worker" /\ worker.frame \in Nat
          /\ encoder.state = "ready" /\ worker.frame = encoder.nextFrame
      BY <1>2 DEF Writing
    <2>2. Created
      BY <2>1
    <2>3. Len(stdout) = worker.frame + 2
      BY <2>1, <2>2
    <2>4. Pending(t) = [kind |-> "frame", index |-> worker.frame, whole |-> TRUE]
      BY <1>2 DEF Pending, Record
    <2>5. <<"frame", worker.frame>> \in Expected(Len(stdout) + 1)
      BY <2>1, <2>3 DEF Expected
    <2> HIDE DEF Inv, TypeInv, Exclusion, NextRecord, Created, Shape
    <2>6. /\ Pending(t) \in Records /\ Pending(t).whole
          /\ Pending(t).kind = "frame" /\ Pending(t).index = worker.frame
      BY <2>1, <2>4 DEF Records, Kinds
    <2> QED
      BY <1>2, <2>1, <2>2, <2>5, <2>6
  <1>3. CASE t = "owner" /\ owner.call = "create"
    BY <1>1, <1>3 DEF Writing, Pending, Record, Records, Kinds, Expected
  <1>4. CASE t = "owner" /\ owner.call # "create"
    BY <1>1, <1>4 DEF Writing, Pending, Record, Records, Kinds, Expected
  <1> QED
    BY <1>2, <1>3, <1>4 DEF Threads

\* One more record behind a stream of a ready encoder.
LEMMA AppendShape ==
  ASSUME Inv, NEW t \in Threads, Writing(t), NEW r \in Records,
         r.kind = Pending(t).kind, r.index = Pending(t).index,
         stdout' = Append(stdout, r)
  PROVE  /\ stdout' \in Seq(Records)
         /\ Len(stdout') = Len(stdout) + 1
         /\ \A i \in 1 .. Len(stdout) : stdout'[i] = stdout[i]
         /\ stdout'[Len(stdout) + 1] = r
         /\ StreamWellFormed'
  <1>1. stdout \in Seq(Records) /\ Len(stdout) \in Nat /\ DOMAIN stdout = 1 .. Len(stdout)
    BY DEF Inv, TypeInv
  <1>2. /\ stdout' \in Seq(Records)
        /\ Len(stdout') = Len(stdout) + 1
        /\ DOMAIN stdout' = 1 .. (Len(stdout) + 1)
        /\ \A i \in 1 .. Len(stdout) : stdout'[i] = stdout[i]
        /\ stdout'[Len(stdout) + 1] = r
    BY <1>1
  <1>3. /\ <<r.kind, r.index>> \in Expected(Len(stdout) + 1)
        /\ encoder.state = "ready"
    BY PendingExpected
  <1>4. ASSUME NEW i \in DOMAIN stdout'
        PROVE  /\ <<stdout'[i].kind, stdout'[i].index>> \in Expected(i)
               /\ i < Len(stdout') =>
                    stdout'[i].whole /\ stdout'[i].kind \notin {"commit", "abort"}
    <2>1. CASE i = Len(stdout) + 1
      <3>1. stdout'[i] = r /\ ~ (i < Len(stdout'))
        BY <1>1, <1>2, <2>1
      <3> QED
        BY <1>3, <2>1, <3>1
    <2>2. CASE i \in DOMAIN stdout
      <3>1. stdout'[i] = stdout[i]
        BY <1>1, <1>2, <2>2
      <3> QED
        BY <1>3, <2>2, <3>1 DEF Inv, Shape, StreamWellFormed, Terminals
    <2>3. i = Len(stdout) + 1 \/ i \in DOMAIN stdout
      BY <1>1, <1>2
    <2> QED
      BY <2>1, <2>2, <2>3
  <1>5. StreamWellFormed'
    BY <1>4 DEF StreamWellFormed, Expected
  <1> QED
    BY <1>2, <1>5

\* What is to be shown of one more record.
LEMMA GrownShape ==
  ASSUME Inv, StreamWellFormed', NEW r, encoder'.nextFrame \in Nat,
         DOMAIN stdout' = 1 .. (Len(stdout) + 1), Len(stdout') = Len(stdout) + 1,
         \A i \in 1 .. Len(stdout) : stdout'[i] = stdout[i],
         stdout'[Len(stdout) + 1] = r,
         encoder.state = "ready",
         encoder'.state = "ready" => r.whole /\ r.kind \notin Terminals,
         encoder'.state = "ready" /\ Created' => Len(stdout) = encoder'.nextFrame + 1,
         Created' => Len(stdout) >= encoder'.nextFrame + 1,
         \/ /\ r.kind = "frame" /\ r.whole /\ Created
            /\ encoder'.nextFrame = encoder.nextFrame + 1
         \/ /\ ~ (r.kind = "frame" /\ r.whole)
            /\ encoder'.nextFrame = encoder.nextFrame
            /\ Created \/ encoder.nextFrame = 0
  PROVE  Shape'
  <1>1. Len(stdout) \in Nat /\ DOMAIN stdout = 1 .. Len(stdout) /\ encoder.nextFrame \in Nat
    BY DEF Inv, TypeInv
  <1>2. encoder'.state = "ready" =>
           \A i \in DOMAIN stdout' : stdout'[i].whole /\ stdout'[i].kind \notin Terminals
    BY <1>1 DEF Inv, Shape
  <1>3. /\ encoder'.state = "ready" /\ Created' => Len(stdout') = encoder'.nextFrame + 2
        /\ Created' => Len(stdout') >= encoder'.nextFrame + 2
    BY <1>1
  <1>4. ASSUME NEW i \in DOMAIN stdout'
        PROVE  stdout'[i].kind = "frame" /\ stdout'[i].whole
               <=> i \in 3 .. (encoder'.nextFrame + 2)
    <2>1. CASE i = Len(stdout) + 1
      <3>1. stdout'[i] = r
        BY <2>1
      <3>2. CASE r.kind = "frame" /\ r.whole
        <4>1. Len(stdout) = encoder.nextFrame + 2 /\ encoder'.nextFrame = encoder.nextFrame + 1
          BY <3>2 DEF Inv, Shape
        <4> QED
          BY <1>1, <2>1, <3>1, <3>2, <4>1
      <3>3. CASE ~ (r.kind = "frame" /\ r.whole)
        <4>1. /\ Len(stdout) = encoder.nextFrame + 2 \/ encoder.nextFrame = 0
              /\ encoder'.nextFrame = encoder.nextFrame
          BY <3>3 DEF Inv, Shape
        <4> QED
          BY <1>1, <2>1, <3>1, <3>3, <4>1
      <3> QED
        BY <3>2, <3>3
    <2>2. CASE i \in DOMAIN stdout
      <3>1. /\ stdout'[i] = stdout[i]
            /\ stdout[i].kind = "frame" /\ stdout[i].whole
               <=> i \in 3 .. (encoder.nextFrame + 2)
        BY <1>1, <2>2 DEF Inv, Shape
      <3>2. i \in 3 .. (encoder.nextFrame + 2) <=> i \in 3 .. (encoder'.nextFrame + 2)
        <4>1. \/ encoder'.nextFrame = encoder.nextFrame
              \/ /\ encoder'.nextFrame = encoder.nextFrame + 1
                 /\ Len(stdout) = encoder.nextFrame + 2
          BY DEF Inv, Shape
        <4> QED
          BY <1>1, <2>2, <4>1
      <3> QED
        BY <3>1, <3>2
    <2>3. i = Len(stdout) + 1 \/ i \in DOMAIN stdout
      BY <1>1
    <2> QED
      BY <2>1, <2>2, <2>3
  <1> QED
    BY <1>2, <1>3, <1>4 DEF Shape

LEMMA RecordWrittenInv ==
  ASSUME Inv, NEW t \in Threads, RecordWritten(t) PROVE Inv'
  <1> DEFINE r == Pending(t)
  <1>1. Writing(t) /\ stdout' = Append(stdout, r)
    BY DEF RecordWritten
  <1>2. /\ r \in Records /\ r.whole
        /\ encoder.state = "ready"
        /\ r.kind = "frame" <=> t = "worker"
        /\ r.kind = "commit" <=> t = "owner" /\ owner.call = "commit"
        /\ t = "worker" => Created
        /\ <<r.kind, r.index>> \in Expected(Len(stdout) + 1)
    BY <1>1, PendingExpected
  <1>3. /\ stdout' \in Seq(Records)
        /\ Len(stdout') = Len(stdout) + 1
        /\ \A i \in 1 .. Len(stdout) : stdout'[i] = stdout[i]
        /\ stdout'[Len(stdout) + 1] = r
        /\ StreamWellFormed'
    BY <1>1, <1>2, AppendShape
  <1>4. /\ Len(stdout) \in Nat /\ DOMAIN stdout = 1 .. Len(stdout)
        /\ DOMAIN stdout' = 1 .. (Len(stdout) + 1)
    BY <1>3 DEF Inv, TypeInv
  <1> HIDE DEF r
  <1>5. CASE t = "worker"
    <2>1. /\ worker.pc = "writing" /\ worker' = [worker EXCEPT !.pc = "settle", !.err = FALSE]
          /\ encoder' = [encoder EXCEPT !.nextFrame = @ + 1]
          /\ UNCHANGED <<owner, output, mutex, hook, contexts, session>>
      BY <1>5 DEF RecordWritten, Writing
    <2>2. TypeInv'
      BY TypeNext DEF Inv, Next
    <2>3. mutex = "worker" /\ Created /\ Created'
      BY <1>2, <1>5, <2>1 DEF Inv, Exclusion, Created
    <2>4. Exclusion' /\ NextRecord'
      BY <2>1, <2>3 DEF Inv, TypeInv, Exclusion, NextRecord, Created
    <2>5. Shape'
      <3>1. /\ encoder.nextFrame \in Nat /\ encoder'.nextFrame = encoder.nextFrame + 1
            /\ Len(stdout) = encoder.nextFrame + 2
        BY <1>2, <2>1, <2>3 DEF Inv, TypeInv, Shape
      <3> QED
        BY SMTT(30), <1>2, <1>3, <1>4, <1>5, <2>1, <2>3, <3>1, GrownShape DEF Terminals
    <2>6. ~ Committed /\ ~ Committed'
      BY <1>2, <1>3, <1>4, <1>5 DEF Inv, Promise, Committed
    <2>7. Promise'
      BY <2>1, <2>3, <2>6 DEF Inv, Promise, TypeInv, Exclusion, Created, session
    <2> QED
      BY <2>2, <2>4, <2>5, <2>7 DEF Inv
  <1>6. CASE t = "owner" /\ owner.call = "create"
    <2>1. /\ owner.pc = "writing"
          /\ owner' = [owner EXCEPT !.pc = IF stdout = <<>> THEN "writing" ELSE "settle",
                                    !.ok = stdout # <<>>]
          /\ UNCHANGED <<encoder, worker, output, mutex, hook, contexts, session>>
      BY <1>6 DEF RecordWritten, Writing
    <2>2. TypeInv'
      BY TypeNext DEF Inv, Next
    <2>3. stdout = <<>> <=> Len(stdout) = 0
      BY DEF Inv, TypeInv
    <2>4. Exclusion'
      BY <1>6, <2>1 DEF Inv, TypeInv, Exclusion, Created
    <2>10. NextRecord'
      BY <1>2, <1>3, <1>4, <1>6, <2>1, <2>3
         DEF Inv, TypeInv, Exclusion, NextRecord, Created
    <2>5. ~ Created /\ ~ Created' /\ encoder.nextFrame = 0
      BY <1>6, <2>1 DEF Inv, TypeInv, Exclusion, Created
    <2>6. r.kind \notin Terminals
      BY <1>2, <1>6, <2>1, <2>3 DEF Inv, NextRecord, Expected, Terminals, r, Pending, Record
    <2>7. Shape'
      BY <1>2, <1>3, <1>4, <1>6, <2>1, <2>5, <2>6, GrownShape
    <2>8. ~ Committed /\ ~ Committed'
      BY <1>2, <1>3, <1>4, <1>6 DEF Inv, Promise, Committed
    <2>9. Promise'
      BY <1>6, <2>1, <2>8 DEF Inv, TypeInv, Promise
    <2> QED
      BY <2>2, <2>4, <2>7, <2>9, <2>10 DEF Inv
  <1>7. CASE t = "owner" /\ owner.call # "create"
    <2>1. /\ owner.pc = "writing" /\ owner' = [owner EXCEPT !.pc = "settle", !.ok = TRUE]
          /\ encoder' = [encoder EXCEPT !.state = "terminal"]
          /\ UNCHANGED <<worker, output, mutex, hook, contexts, session>>
      BY <1>7 DEF RecordWritten, Writing
    <2>2. TypeInv'
      BY TypeNext DEF Inv, Next
    <2>3. mutex = "owner" /\ Created /\ Created'
      BY <1>7, <2>1 DEF Inv, TypeInv, Exclusion, Created
    <2>4. Exclusion' /\ NextRecord'
      BY <2>1, <2>3 DEF Inv, TypeInv, Exclusion, NextRecord, Created
    <2>5. Shape'
      <3>1. /\ encoder.nextFrame \in Nat /\ encoder'.nextFrame = encoder.nextFrame
            /\ encoder'.state = "terminal" /\ Len(stdout) = encoder.nextFrame + 2
        BY <1>2, <2>1, <2>3 DEF Inv, TypeInv, Shape
      <3> QED
        BY <1>2, <1>3, <1>4, <1>7, <2>3, <3>1, GrownShape
    <2>6. Committed' <=> owner.call = "commit"
      BY <1>2, <1>3, <1>4, <1>7, <2>1 DEF Inv, Promise, Committed
    <2>7. Promise'
      BY <1>7, <2>1, <2>6 DEF Inv, TypeInv, Promise, Committable, session
    <2> QED
      BY <2>2, <2>4, <2>5, <2>7 DEF Inv
  <1> QED
    BY <1>5, <1>6, <1>7 DEF Threads

LEMMA RecordFailsInv ==
  ASSUME Inv, NEW t \in Threads, RecordFails(t) PROVE Inv'
  <1> DEFINE r == [Pending(t) EXCEPT !.whole = FALSE]
  <1>1. Writing(t) /\ stdout' \in {stdout, Append(stdout, r)}
    BY DEF RecordFails
  <1>2. /\ r \in Records /\ ~ r.whole
        /\ r.kind = Pending(t).kind /\ r.index = Pending(t).index
        /\ encoder.state = "ready"
    BY <1>1, PendingExpected DEF Records
  <1> HIDE DEF r
  <1>3. \/ stdout' = stdout
        \/ /\ stdout' \in Seq(Records)
           /\ Len(stdout') = Len(stdout) + 1
           /\ \A i \in 1 .. Len(stdout) : stdout'[i] = stdout[i]
           /\ stdout'[Len(stdout) + 1] = r
           /\ StreamWellFormed'
    BY <1>1, <1>2, AppendShape
  <1>4. /\ Len(stdout) \in Nat /\ DOMAIN stdout = 1 .. Len(stdout)
        /\ Len(stdout') \in Nat /\ DOMAIN stdout' = 1 .. Len(stdout')
        /\ stdout' \in Seq(Records)
    BY <1>3 DEF Inv, TypeInv
  <1>5. /\ encoder' = [encoder EXCEPT !.state = "poisoned"]
        /\ \/ /\ t = "worker" /\ worker.pc = "writing" /\ mutex = "worker"
              /\ worker' = [worker EXCEPT !.pc = "settle", !.err = TRUE]
              /\ UNCHANGED owner
           \/ /\ t = "owner" /\ owner.pc = "writing"
              /\ owner' = [owner EXCEPT !.pc = "settle", !.ok = FALSE]
              /\ UNCHANGED worker
        /\ UNCHANGED <<output, mutex, hook, contexts, session>>
    BY DEF RecordFails, Writing, Threads, Inv, Exclusion
  <1>6. TypeInv'
    BY TypeNext DEF Inv, Next, WriteInterrupted, WriteBreaks
  <1>7. Exclusion'
    BY ZenonT(40), <1>5 DEF Inv, TypeInv, Exclusion, Created
  <1>8. NextRecord'
    BY <1>2, <1>5, <1>7 DEF Inv, TypeInv, Exclusion, NextRecord, Created
  <1>9. Created' <=> Created
    BY <1>5 DEF Inv, TypeInv, Created
  <1>10. Shape'
    <2>1. CASE stdout' = stdout
      BY <1>5, <1>9, <2>1, SameShape DEF Inv, TypeInv
    <2>2. CASE stdout' # stdout
      <3>1. /\ encoder.nextFrame \in Nat /\ encoder'.nextFrame = encoder.nextFrame
            /\ encoder'.state = "poisoned"
            /\ Created => Len(stdout) = encoder.nextFrame + 2
            /\ Created \/ encoder.nextFrame = 0
        BY <1>2, <1>5 DEF Inv, TypeInv, Shape, Exclusion
      <3>2. /\ DOMAIN stdout' = 1 .. (Len(stdout) + 1) /\ Len(stdout') = Len(stdout) + 1
            /\ \A i \in 1 .. Len(stdout) : stdout'[i] = stdout[i]
            /\ stdout'[Len(stdout) + 1] = r
            /\ StreamWellFormed'
        BY <1>3, <1>4, <2>2
      <3> QED
        BY <1>2, <1>4, <1>9, <3>1, <3>2, GrownShape
    <2> QED
      BY <2>1, <2>2
  <1>11. ~ Committed /\ ~ Committed'
    <2>1. ~ Committed
      BY <1>2 DEF Inv, Promise
    <2>2. CASE stdout' = stdout
      BY <2>1, <2>2 DEF Committed
    <2>3. CASE stdout' # stdout
      <3>1. /\ DOMAIN stdout' = 1 .. (Len(stdout) + 1)
            /\ \A i \in 1 .. Len(stdout) : stdout'[i] = stdout[i]
            /\ stdout'[Len(stdout) + 1] = r
        BY <1>3, <1>4, <2>3
      <3>2. ASSUME NEW i \in DOMAIN stdout' PROVE ~ (stdout'[i].kind = "commit" /\ stdout'[i].whole)
        <4>1. CASE i = Len(stdout) + 1
          BY <1>2, <3>1, <4>1
        <4>2. CASE i \in 1 .. Len(stdout)
          BY <1>4, <2>1, <3>1, <4>2 DEF Committed
        <4> QED
          BY <1>4, <3>1, <4>1, <4>2
      <3> QED
        BY <2>1, <3>2, Zenon DEF Committed
    <2> QED
      BY <2>1, <2>2, <2>3
  <1>12. Promise'
    BY <1>5, <1>11 DEF Inv, TypeInv, Promise, Committable, session
  <1> QED
    BY <1>6, <1>7, <1>8, <1>10, <1>12 DEF Inv

-----------------------------------------------------------------------------
(* Theorems.                                                               *)

LEMMA NextInv == Inv /\ [Next]_vars => Inv'
  <1> SUFFICES ASSUME Inv, [Next]_vars PROVE Inv'
    OBVIOUS
  <1>1. CASE OwnerStep
    BY <1>1, OwnerInv
  <1>2. CASE FrameEnters \/ FrameStep
    BY <1>2, FrameInv
  <1>3. CASE \E t \in Threads : HookFires(t)
    BY <1>3, HookInv
  <1>4. CASE \E t \in Threads : RecordWritten(t)
    BY <1>4, RecordWrittenInv
  <1>5. CASE \E t \in Threads : WriteInterrupted(t) \/ WriteBreaks(t)
    BY <1>5, RecordFailsInv DEF WriteInterrupted, WriteBreaks
  <1>6. CASE Environment
    BY <1>6, EnvironmentInv
  <1>7. CASE UNCHANGED vars
    BY <1>7, QuietInv DEF vars, contexts, session, Inv, TypeInv, Exclusion, NextRecord,
       Created, Promise
  <1> QED
    BY <1>1, <1>2, <1>3, <1>4, <1>5, <1>6, <1>7 DEF Next

LEMMA Invariance == Spec => []Inv
  BY InitInv, NextInv, PTL DEF Spec

\* Whichever thread is interrupted in whichever record, the consumer reads a
\* prefix of one well-formed stream (WriteFrame, terminal and their hooks).
THEOREM StreamIsWellFormed == Spec => []StreamWellFormed
  <1>1. Inv => StreamWellFormed
    BY DEF Inv, Shape
  <1> QED
    BY <1>1, Invariance, PTL

\* COMMIT on the wire promises a published capture, all of its frames and the
\* matching file, and Commit reports success exactly when it is there.
THEOREM CommitTruthful == Spec => []CommitIsTruthful
  <1>1. ASSUME Inv PROVE CommitIsTruthful
    <2>1. ASSUME Committed
          PROVE  outcome = "published" /\ artifactMatches
                 /\ Cardinality(WholeFrames) = FrameCount
      <3>1. encoder.nextFrame = FrameCount /\ Created
        BY <1>1, <2>1 DEF Inv, Promise, Committable, Created
      <3>2. WholeFrames = 3 .. (FrameCount + 2)
        BY <1>1, <3>1 DEF Inv, TypeInv, Shape, WholeFrames
      <3>3. Cardinality(3 .. (FrameCount + 2)) = FrameCount
        BY FS_Interval
      <3> QED
        BY <1>1, <2>1, <3>2, <3>3 DEF Inv, Promise, Committable
    <2> QED
      BY <1>1, <2>1 DEF Inv, Promise, CommitIsTruthful
  <1> QED
    BY <1>1, Invariance, PTL
=============================================================================
