---------------------- MODULE MultiSensorCaptureProofs ----------------------
(***************************************************************************)
(* MultiSensorCapture implements Participant, leaves nothing behind and    *)
(* calls complete only what is exact: for any number of sources, queues of *)
(* any size, any number of frames and faults.                              *)
(*                                                                         *)
(* The invariant has a part for each source on its own (SourceOK: what is  *)
(* on its way between camera and payload file) and a part for each source  *)
(* as the coordinator has left it (Handled).  A step changes one source;   *)
(* the lemmas about sources take their records as parameters.              *)
(***************************************************************************)
EXTENDS MultiSensorCapture, WellFoundedInduction, TLAPS

-----------------------------------------------------------------------------
(* Types.                                                                  *)

Acks == [type : {"ACK"}, command : Commands, ok : BOOLEAN]
Items == [type : {"ITEM"}, frame : Nat]
Ends == [type : {"END"}, frames : Seq(Nat)]
Records == Acks \cup Items \cup Ends \cup {SESSION, ERROR, EOF}

Clients ==
  [phase : {"init", "ready", "armed", "started", "streaming", "stopped", "ended",
            "eof", "complete", "canceled", "failed"},
   pending : Commands \cup {"none"}, ack : {"none", "ok", "rejected"},
   queue : Seq(Records), open : BOOLEAN, cause : BOOLEAN,
   terminal : {"none", "ok", "failed"}]

Children ==
  [pc : {"none", "ready", "arm", "idle", "stream", "write", "stuck", "exit"},
   inbox : Seq(Commands), out : Seq(Records), script : Seq(Records),
   next : {"none", "arm", "idle", "stream", "exit"},
   camera : {"off", "on", "gone"}, frame : Nat, held : Nat,
   mark : Nat \cup {Unset}, boundary : Nat, items : Seq(Nat), code : {0, 1}]

Workers ==
  [state : {"none", "read", "sink", "done"},
   seen : {"nothing", "session", "end", "eof"}, got : Seq(Nat),
   failed : BOOLEAN, intentional : BOOLEAN, stop : BOOLEAN, from : Nat]

AbortPcs == {"abort", "abortAck", "abortWait", "abortDrain"}

Coordinators ==
  [phase : {"starting", "ready", "armed", "started", "finished", "failed"},
   pc : {"idle", "launch", "send", "await", "remove", "collect"} \cup AbortPcs,
   op : {"none", "READY", "ARM", "START", "STOP", "COLLECT", "ABORT"},
   at : Nat, fatal : BOOLEAN, late : BOOLEAN, over : BOOLEAN]

TypeInv ==
  /\ client \in [Sources -> Clients]
  /\ child \in [Sources -> Children]
  /\ cancelled \in BOOLEAN
  /\ coord \in Coordinators
  /\ slot \in [Sources -> {"ok", "failed"}]
  /\ worker \in [Sources -> Workers]
  /\ dir \in [Sources -> {"none", "made", "removed"}]

-----------------------------------------------------------------------------
(* One source.                                                             *)

\* The members of a sequence.
In(q) == {q[i] : i \in 1 .. Len(q)}

\* The capture has passed Arm: only then is START sent.
Begun == coord.phase \notin {"starting", "ready"}

\* Consecutive camera frames, all of them after the given one.
Consecutive(frames, from) ==
  \A i \in 1 .. Len(frames) :
    frames[i] > from /\ (i > 1 => frames[i] = frames[i - 1] + 1)

\* Every END among the records announces such frames.
EndsExact(records, from) ==
  \A r \in In(records) : r.type = "END" => Consecutive(r.frames, from)

NoEnd(records) == \A r \in In(records) : r.type # "END"

\* Nothing of START has reached the producer.
Unstarted(p) ==
  /\ "START" \notin In(p.inbox)
  /\ p.mark = Unset /\ p.pc # "stream" /\ p.next # "stream"
  /\ p.items = <<>> /\ NoEnd(p.out) /\ NoEnd(p.script)

\* Whoever was told of START, by a command or by a record, is past Arm.
Timely(c, w, begun) ==
  /\ c.pending = "START" \/ c.phase \in {"started", "streaming"} => begun
  /\ \A r \in In(c.queue) : r.type \in {"SESSION", "ITEM"} => begun
  /\ w.seen = "session" => begun

\* A client that may still send START.
Early(c) ==
  /\ c.terminal = "none"
  /\ \/ c.pending \in {"READY", "ARM"}
     \/ c.pending # "START" /\ c.phase \in {"init", "ready", "armed"}

Fresh(c, p, w) ==
  Early(c) => Unstarted(p) /\ NoEnd(c.queue) /\ w.seen \notin {"end", "eof"}

\* The frames the camera has completed and the producer has passed on.
Filmed(p, from) ==
  /\ "START" \in In(p.inbox) => p.frame >= from
  /\ p.mark # Unset => p.mark >= from /\ p.inbox # <<>> /\ p.pc \in {"idle", "stuck"}
  /\ p.pc = "stream" \/ p.next = "stream" => p.boundary >= from
  /\ p.held # 0 => p.held = p.frame
  /\ p.items # <<>> =>
       /\ Consecutive(p.items, from) /\ p.pc \in {"stream", "stuck"}
       /\ p.items[Len(p.items)] > p.boundary
       /\ p.items[Len(p.items)] = IF p.held = 0 THEN p.frame ELSE p.frame - 1

\* The counts announced, and what was recorded up to them.
Announced(c, p, w) ==
  /\ EndsExact(c.queue, w.from) /\ EndsExact(p.out, w.from) /\ EndsExact(p.script, w.from)
  /\ w.seen \in {"end", "eof"} => Consecutive(w.got, w.from)

\* The recorder breaks for good, or ends after the transport's end of file.
Drawn(w) ==
  /\ w.failed => w.state = "done"
  /\ w.state = "done" /\ ~ w.failed => w.seen = "eof"
  /\ w.state = "none" => w = NoWorker

SourceOK(c, p, w, begun) ==
  Timely(c, w, begun) /\ Fresh(c, p, w) /\ Filmed(p, w.from) /\ Announced(c, p, w) /\ Drawn(w)

SourcesInv == \A s \in Sources : SourceOK(client[s], child[s], worker[s], Begun)

-----------------------------------------------------------------------------
(* The coordinator.                                                        *)

PhaseOf(op) ==
  CASE op = "READY" -> {"starting"} [] op = "ARM" -> {"ready"} [] op = "START" -> {"armed"}
    [] op \in {"STOP", "COLLECT"} -> {"started"}
    [] op = "ABORT" -> {"starting", "ready", "armed", "started", "failed"}
    [] op = "none" -> {"ready", "armed", "started", "finished", "failed"}

PcsOf(op) ==
  CASE op = "READY" -> {"launch", "send", "await", "remove"} \cup AbortPcs
    [] op \in {"ARM", "START"} -> {"send", "await", "remove"} \cup AbortPcs
    [] op = "STOP" -> {"send", "await"} \cup AbortPcs
    [] op = "COLLECT" -> {"collect", "remove"} \cup AbortPcs
    [] op = "ABORT" -> AbortPcs
    [] op = "none" -> {"idle"}

\* Which operation runs in which phase, and where it can be.
Positioned(c) ==
  /\ c.phase \in PhaseOf(c.op) /\ c.pc \in PcsOf(c.op)
  /\ IF c.op = "none" THEN c.at = 0 ELSE c.at \in Sources

\* What is left of a source, from its five records.
Running(p) == p.pc \notin {"none", "exit"}
Reaped(c, p) == c.terminal # "none" /\ ~ Running(p)
Emptied(w) == w.state \in {"none", "done"}

\* What Finish(true) has found of a source before it goes on.
Accounted(s, c, p, w, sl, d) ==
  /\ Reaped(c, p) /\ Emptied(w)
  /\ sl = "failed" => s \notin Required /\ d = "removed"
  /\ sl = "ok" => w.state = "done" /\ ~ w.failed /\ ~ w.intentional

\* The whole capture is lost, or about to be.
Lost(k) == k.op = "ABORT" \/ k.phase = "failed"

\* A source the coordinator is not at (or no more).
Left(k, c, p, w, sl, d) ==
  /\ w.state = "none" => ~ Running(p) /\ (sl = "failed" \/ Lost(k))
  /\ w.intentional => sl = "failed" \/ Lost(k)
  /\ w.state # "none" /\ sl = "ok" => d = "made"
  /\ sl = "failed" => Lost(k) \/ k.fatal \/ (Reaped(c, p) /\ Emptied(w))
  /\ k.phase = "failed" => ~ Running(p)

\* ... and has visited in the operation under way.
Visited(k, s, c, p, w, sl, d) ==
  /\ k.op = "COLLECT" => k.fatal \/ Accounted(s, c, p, w, sl, d)
  /\ k.op = "ABORT" => ~ Running(p)

\* The source the coordinator is at.
Current(k, c, p, w, sl, d) ==
  /\ w.state = "none" =>
       /\ sl = "failed" \/ Lost(k)
       /\ Running(p) => k.op = "READY" /\ k.pc \in {"abort", "abortAck", "abortWait"}
  /\ w.intentional => sl = "failed" \/ Lost(k)
  /\ w.state # "none" /\ sl = "ok" => d = "made"
  /\ k.op # "ABORT" /\ k.pc \in AbortPcs \cup {"remove"} => sl = "failed"
  /\ sl = "failed" =>
       \/ Lost(k) \/ k.fatal \/ k.pc \in {"abort", "abortAck", "abortWait"}
       \/ Reaped(c, p) /\ (Emptied(w) \/ k.pc = "abortDrain")
  /\ k.op = "ABORT" /\ k.pc = "abortDrain" => ~ Running(p)
  /\ k.phase = "failed" => ~ Running(p)

\* Start has not got to the source.
Ahead(k, s) == k.op = "READY" /\ (s > k.at \/ (s = k.at /\ k.pc = "launch"))

Handled(k, s, c, p, w, sl, d) ==
  /\ Ahead(k, s) => w.state = "none" /\ sl = "ok" /\ Reaped(c, p)
  /\ ~ Ahead(k, s) /\ k.at = s => Current(k, c, p, w, sl, d)
  /\ ~ Ahead(k, s) /\ k.at # s => Left(k, c, p, w, sl, d)
  /\ s < k.at => Visited(k, s, c, p, w, sl, d)
  /\ k.phase = "finished" => Accounted(s, c, p, w, sl, d)

CoordinatorInv ==
  /\ Positioned(coord)
  /\ \A s \in Sources : Handled(coord, s, client[s], child[s], worker[s], slot[s], dir[s])

Inv == TypeInv /\ SourcesInv /\ CoordinatorInv

-----------------------------------------------------------------------------
(* Sequences.                                                              *)

\* The members of a sequence are members of its element set.
LEMMA InFacts ==
  ASSUME NEW S, NEW q \in Seq(S)
  PROVE  /\ In(q) \subseteq S
         /\ Len(q) \in Nat
         /\ \A i \in 1 .. Len(q) : q[i] \in S
  BY DEF In

\* An empty sequence has no members.
LEMMA InEmpty == In(<<>>) = {}
  BY DEF In

\* The members of an answer of one record,
LEMMA InOne ==
  ASSUME NEW S, NEW e \in S
  PROVE  <<e>> \in Seq(S) /\ In(<<e>>) = {e}
  <1>1. Len(<<e>>) = 1 /\ <<e>>[1] = e /\ 1 .. 1 = {1} /\ <<e>> \in Seq(S)
    OBVIOUS
  <1> QED
    BY <1>1 DEF In

\* ... of two,
LEMMA InTwo ==
  ASSUME NEW S, NEW e \in S, NEW f \in S
  PROVE  <<e, f>> \in Seq(S) /\ In(<<e, f>>) = {e, f}
  <1>1. /\ Len(<<e, f>>) = 2 /\ <<e, f>>[1] = e /\ <<e, f>>[2] = f /\ 1 .. 2 = {1, 2}
        /\ <<e, f>> \in Seq(S)
    OBVIOUS
  <1> QED
    BY <1>1 DEF In

\* ... of three.
LEMMA InThree ==
  ASSUME NEW S, NEW e \in S, NEW f \in S, NEW g \in S
  PROVE  <<e, f, g>> \in Seq(S) /\ In(<<e, f, g>>) = {e, f, g}
  <1>1. /\ Len(<<e, f, g>>) = 3 /\ <<e, f, g>>[1] = e /\ <<e, f, g>>[2] = f
        /\ <<e, f, g>>[3] = g /\ 1 .. 3 = {1, 2, 3} /\ <<e, f, g>> \in Seq(S)
    OBVIOUS
  <1> QED
    BY <1>1 DEF In

\* Append adds one member.
LEMMA InAppend ==
  ASSUME NEW S, NEW q \in Seq(S), NEW e \in S
  PROVE  Append(q, e) \in Seq(S) /\ In(Append(q, e)) = In(q) \cup {e}
  <1> DEFINE a == Append(q, e)
  <1>1. a \in Seq(S) /\ Len(a) = Len(q) + 1 /\ Len(q) \in Nat /\ a[Len(q) + 1] = e
    OBVIOUS
  <1>2. \A i \in 1 .. Len(q) : a[i] = q[i]
    OBVIOUS
  <1> HIDE DEF a
  <1>3. \A i \in 1 .. (Len(q) + 1) : i \in 1 .. Len(q) \/ i = Len(q) + 1
    BY <1>1
  <1>4. In(a) \subseteq In(q) \cup {e}
    BY <1>1, <1>2, <1>3 DEF In
  <1>5. 1 .. Len(q) \subseteq 1 .. Len(a) /\ Len(q) + 1 \in 1 .. Len(a)
    BY <1>1
  <1>6. In(q) \cup {e} \subseteq In(a)
    BY <1>1, <1>2, <1>5 DEF In
  <1> QED
    BY <1>1, <1>4, <1>6 DEF a

\* Taking the head leaves members only.
LEMMA InTail ==
  ASSUME NEW S, NEW q \in Seq(S), q # <<>>
  PROVE  /\ Head(q) \in S /\ Head(q) \in In(q)
         /\ Tail(q) \in Seq(S) /\ In(Tail(q)) \subseteq In(q)
  <1> DEFINE t == Tail(q)
  <1>1. Len(q) \in Nat /\ Len(q) > 0 /\ Head(q) = q[1] /\ q[1] \in S
    OBVIOUS
  <1>2. t \in Seq(S) /\ Len(t) = Len(q) - 1 /\ \A i \in 1 .. Len(t) : t[i] = q[i + 1]
    OBVIOUS
  <1> HIDE DEF t
  <1>3. \A i \in 1 .. Len(t) : i + 1 \in 1 .. Len(q)
    BY <1>1, <1>2
  <1>4. In(t) \subseteq In(q)
    BY <1>2, <1>3 DEF In
  <1>5. 1 \in 1 .. Len(q)
    BY <1>1
  <1> QED
    BY <1>1, <1>2, <1>4, <1>5 DEF t, In

\* A concatenation has no members but those of its parts.
LEMMA InConcat ==
  ASSUME NEW S, NEW q \in Seq(S), NEW r \in Seq(S)
  PROVE  q \o r \in Seq(S) /\ In(q \o r) \subseteq In(q) \cup In(r)
  <1> DEFINE a == q \o r
  <1>1. /\ a \in Seq(S) /\ Len(a) = Len(q) + Len(r) /\ Len(q) \in Nat /\ Len(r) \in Nat
    OBVIOUS
  <1>2. \A i \in 1 .. Len(q) + Len(r) : a[i] = IF i <= Len(q) THEN q[i] ELSE r[i - Len(q)]
    OBVIOUS
  <1> HIDE DEF a
  <1>3. \A i \in 1 .. Len(q) + Len(r) : i \in 1 .. Len(q) \/ (~ i <= Len(q) /\ i - Len(q) \in 1 .. Len(r))
    BY <1>1
  <1>4. \A i \in 1 .. Len(q) : i <= Len(q)
    BY <1>1
  <1>5. \A i \in 1 .. Len(a) : a[i] \in In(q) \cup In(r)
    BY <1>1, <1>2, <1>3, <1>4 DEF In
  <1>6. In(a) \subseteq In(q) \cup In(r)
    BY <1>5 DEF In
  <1> QED
    BY <1>1, <1>6 DEF a

\* Neither has a prefix.
LEMMA InPrefix ==
  ASSUME NEW S, NEW q \in Seq(S), NEW n \in 0 .. Len(q)
  PROVE  SubSeq(q, 1, n) \in Seq(S) /\ In(SubSeq(q, 1, n)) \subseteq In(q)
  <1> DEFINE a == SubSeq(q, 1, n)
  <1>1. Len(q) \in Nat /\ n \in Nat /\ n <= Len(q)
    OBVIOUS
  <1>2. a \in Seq(S) /\ Len(a) = n /\ \A i \in 1 .. n : a[i] = q[i]
    BY <1>1
  <1> HIDE DEF a
  <1>3. 1 .. n \subseteq 1 .. Len(q)
    BY <1>1
  <1> QED
    BY <1>2, <1>3 DEF a, In

\* The shapes of the records of the transport.
LEMMA RecordFacts ==
  /\ \A r \in Records : r.type = "END" => r.frames \in Seq(Nat)
  /\ \A r \in Records : r.type = "ITEM" => r.frame \in Nat
  /\ \A r \in Records : r.type = "ACK" => r.command \in Commands /\ r.ok \in BOOLEAN
  /\ \A r \in Records : r.type \in {"ACK", "ITEM", "END", "SESSION", "ERROR", "EOF"}
  /\ SESSION.type = "SESSION" /\ ERROR.type = "ERROR" /\ EOF.type = "EOF"
  /\ SESSION \in Records /\ ERROR \in Records /\ EOF \in Records
  /\ \A command \in Commands, ok \in BOOLEAN :
       ACK(command, ok) \in Records /\ ACK(command, ok).type = "ACK"
  /\ \A n \in Nat : ITEM(n) \in Records /\ ITEM(n).type = "ITEM"
  /\ \A f \in Seq(Nat) : END(f) \in Records /\ END(f).type = "END" /\ END(f).frames = f
  <1>1. \A r \in Records : r \in Acks \/ r \in Items \/ r \in Ends \/ r = SESSION \/ r = ERROR \/ r = EOF
    BY DEF Records
  <1>2. SESSION.type = "SESSION" /\ ERROR.type = "ERROR" /\ EOF.type = "EOF"
    BY DEF SESSION, ERROR, EOF
  <1>3. \A r \in Acks : r.type = "ACK" /\ r.command \in Commands /\ r.ok \in BOOLEAN
    BY DEF Acks
  <1>4. \A r \in Items : r.type = "ITEM" /\ r.frame \in Nat
    BY DEF Items
  <1>5. \A r \in Ends : r.type = "END" /\ r.frames \in Seq(Nat)
    BY DEF Ends
  <1>6. SESSION \in Records /\ ERROR \in Records /\ EOF \in Records
    BY DEF Records
  <1>7. \A command \in Commands, ok \in BOOLEAN :
          ACK(command, ok) \in Acks /\ ACK(command, ok).type = "ACK"
    BY DEF ACK, Acks
  <1>8. \A n \in Nat : ITEM(n) \in Items /\ ITEM(n).type = "ITEM"
    BY DEF ITEM, Items
  <1>9. \A f \in Seq(Nat) : END(f) \in Ends /\ END(f).type = "END" /\ END(f).frames = f
    BY DEF END, Ends
  <1>10. Acks \subseteq Records /\ Items \subseteq Records /\ Ends \subseteq Records
    BY DEF Records
  <1>11. \A r \in Records : r.type = "END" => r.frames \in Seq(Nat)
    BY <1>1, <1>2, <1>3, <1>4, <1>5
  <1>12. \A r \in Records : r.type = "ITEM" => r.frame \in Nat
    BY <1>1, <1>2, <1>3, <1>4, <1>5
  <1>13. \A r \in Records : r.type = "ACK" => r.command \in Commands /\ r.ok \in BOOLEAN
    BY <1>1, <1>2, <1>3, <1>4, <1>5
  <1>14. \A r \in Records : r.type \in {"ACK", "ITEM", "END", "SESSION", "ERROR", "EOF"}
    BY <1>1, <1>2, <1>3, <1>4, <1>5
  <1> QED
    BY <1>2, <1>6, <1>7, <1>8, <1>9, <1>10, <1>11, <1>12, <1>13, <1>14

-----------------------------------------------------------------------------
(* The client of one source.                                               *)

\* A client that has finished keeps its queue and sends no command again.
LEMMA FinishFacts ==
  ASSUME NEW c, c.queue \in Seq(Records), c.ack \in {"none", "ok", "rejected"}, NEW f \in BOOLEAN
  PROVE  /\ Finish(c, f) \in Clients /\ Finish(c, f).terminal # "none"
         /\ Finish(c, f).queue = c.queue /\ Finish(c, f).phase = "init" /\ Finish(c, f).pending = "none"
         /\ ~ Early(Finish(c, f))
  BY DEF Finish, NewClient, Clients, Early

\* AcceptACK opens "started" only in answer to START.
LEMMA AckFacts ==
  ASSUME NEW c \in Clients, NEW r \in Records, r.type = "ACK", c.terminal = "none"
  PROVE  /\ AcceptACK(c, r) \in Clients
         /\ AcceptACK(c, r).queue = c.queue /\ AcceptACK(c, r).pending = "none"
         /\ AcceptACK(c, r).phase = "started" => c.pending = "START"
         /\ AcceptACK(c, r).phase # "streaming"
         /\ Early(AcceptACK(c, r)) => Early(c)
  <1> DEFINE expected == c.pending # "none" /\ c.pending = r.command
             failing == Fail(c)
             rejected == [failing EXCEPT !.pending = "none"]
             granted == [c EXCEPT !.pending = "none", !.phase = PhaseAfter(r.command)]
             accepted == IF ~ expected THEN failing ELSE IF ~ r.ok THEN rejected ELSE granted
  <1>1. r.command \in Commands /\ r.ok \in BOOLEAN
    BY RecordFacts
  <1>2. /\ PhaseAfter(r.command) \in {"ready", "armed", "started", "stopped", "canceled"}
        /\ PhaseAfter(r.command) = "started" => r.command = "START"
        /\ PhaseAfter(r.command) \in {"ready", "armed"} => r.command \in {"READY", "ARM"}
    BY <1>1 DEF PhaseAfter, Commands
  <1>3. c.queue \in Seq(Records) /\ c.ack \in {"none", "ok", "rejected"}
    BY DEF Clients
  <1>4. failing \in Clients /\ failing.queue = c.queue /\ failing.ack = c.ack
    BY DEF Fail, Clients
  <1>5. /\ rejected \in Clients /\ rejected.queue = c.queue /\ rejected.ack = c.ack
        /\ rejected.pending = "none" /\ rejected.phase = "failed"
    BY DEF Fail, Clients
  <1>6. /\ granted \in Clients /\ granted.queue = c.queue /\ granted.ack = c.ack
        /\ granted.pending = "none" /\ granted.phase = PhaseAfter(r.command)
    BY <1>2 DEF Clients
  <1> HIDE DEF failing, rejected, granted
  <1>7. accepted.queue = c.queue /\ accepted.ack = c.ack
    BY <1>4, <1>5, <1>6
  <1>8. CASE c.ack # "none"
    <2>1. AcceptACK(c, r) = Finish(accepted, TRUE)
      BY <1>8 DEF AcceptACK, failing, rejected, granted
    <2> HIDE DEF accepted
    <2> QED
      BY <1>3, <1>7, <2>1, FinishFacts
  <1>9. CASE c.ack = "none" /\ ~ expected
    <2> DEFINE told == [failing EXCEPT !.ack = "rejected"]
    <2>1. AcceptACK(c, r) = Finish(told, TRUE)
      BY <1>9 DEF AcceptACK, failing
    <2>2. told.queue = c.queue /\ told.ack = "rejected"
      BY <1>4 DEF Clients
    <2> HIDE DEF told
    <2> QED
      BY <1>3, <2>1, <2>2, FinishFacts
  <1>10. CASE c.ack = "none" /\ expected /\ r.ok
    <2>1. AcceptACK(c, r) = [granted EXCEPT !.ack = "ok"]
      BY <1>10 DEF AcceptACK, granted
    <2>2. /\ AcceptACK(c, r) \in Clients /\ AcceptACK(c, r).queue = c.queue
          /\ AcceptACK(c, r).pending = "none" /\ AcceptACK(c, r).phase = PhaseAfter(r.command)
      BY <1>6, <2>1 DEF Clients
    <2> QED
      BY <1>2, <1>10, <2>2 DEF Early
  <1>11. CASE c.ack = "none" /\ expected /\ ~ r.ok
    <2>1. AcceptACK(c, r) = [rejected EXCEPT !.ack = "rejected"]
      BY <1>11 DEF AcceptACK, rejected, failing
    <2>2. /\ AcceptACK(c, r) \in Clients /\ AcceptACK(c, r).queue = c.queue
          /\ AcceptACK(c, r).pending = "none" /\ AcceptACK(c, r).phase = "failed"
      BY <1>5, <2>1 DEF Clients
    <2> QED
      BY <2>2 DEF Early
  <1> QED
    BY <1>1, <1>8, <1>9, <1>10, <1>11

\* A data record is refused, which ends the client, or queued in its phase.
LEMMA DataFacts ==
  ASSUME NEW c \in Clients, NEW r \in Records, r.type # "ACK", c.terminal = "none",
         NEW d, d = Receive(c, r)
  PROVE  /\ d \in Clients
         /\ \/ d.terminal # "none" /\ d.queue = c.queue /\ d.pending = "none" /\ d.phase = "init"
            \/ /\ d.terminal = "none" /\ d.queue = Append(c.queue, r) /\ d.pending = c.pending
               /\ r.type = "SESSION" => c.phase = "started"
               /\ r.type = "ITEM" => c.phase = "streaming"
               /\ d.phase \in {"started", "streaming"} => c.phase \in {"started", "streaming"}
               /\ d.phase \notin {"init", "ready", "armed"}
  <1> DEFINE taken == AcceptData(c, r)
  <1>1. r.type \in {"ITEM", "END", "SESSION", "ERROR", "EOF"}
    BY RecordFacts
  <1>2. c.queue \in Seq(Records) /\ c.ack \in {"none", "ok", "rejected"}
    BY DEF Clients
  <1>3. Append(c.queue, r) \in Seq(Records)
    BY <1>2, InAppend
  <1>4. CASE ~ DataAllowed(c, r)
    <2>1. d = Finish(Fail(c), TRUE)
      BY <1>4 DEF Receive
    <2>2. Fail(c).queue = c.queue /\ Fail(c).ack = c.ack
      BY DEF Fail, Clients
    <2> QED
      BY <1>2, <2>1, <2>2, FinishFacts, ZenonT(60)
  <1>5. CASE DataAllowed(c, r)
    <2>1. d = Enqueue(taken, r)
      BY <1>5 DEF Receive
    <2>2. /\ taken \in Clients /\ taken.queue = c.queue /\ taken.ack = c.ack
          /\ taken.terminal = "none" /\ taken.pending = c.pending
      BY <1>1 DEF AcceptData, Clients
    <2>3. /\ r.type = "SESSION" => c.phase = "started"
          /\ r.type = "ITEM" => c.phase = "streaming"
      BY <1>5 DEF DataAllowed
    <2>4. /\ taken.phase \in {"started", "streaming"} => c.phase \in {"started", "streaming"}
          /\ taken.phase \notin {"init", "ready", "armed"}
      BY <1>1, <1>5 DEF AcceptData, DataAllowed, Clients
    <2> HIDE DEF taken
    <2>5. CASE Len(taken.queue) < QueueSize
      <3>1. d = [taken EXCEPT !.queue = Append(c.queue, r)]
        BY <2>1, <2>2, <2>5 DEF Enqueue
      <3>2. /\ d \in Clients /\ d.queue = Append(c.queue, r) /\ d.terminal = "none"
            /\ d.pending = taken.pending /\ d.phase = taken.phase
        BY <1>3, <2>2, <3>1 DEF Clients
      <3> QED
        BY <2>2, <2>3, <2>4, <3>2
    <2>6. CASE ~ Len(taken.queue) < QueueSize
      <3>1. d = Finish(taken, TRUE)
        BY <2>1, <2>6 DEF Enqueue
      <3> QED
        BY <1>2, <2>2, <3>1, FinishFacts, ZenonT(60)
    <2> QED
      BY <2>5, <2>6
  <1> QED
    BY <1>4, <1>5

\* A change of the client that brings no news of START.
LEMMA ClientKeeps ==
  ASSUME NEW c, NEW d, NEW p, NEW w, NEW b, SourceOK(c, p, w, b),
         d.pending = "START" \/ d.phase \in {"started", "streaming"} => b,
         Early(d) => Early(c), In(d.queue) \subseteq In(c.queue)
  PROVE  SourceOK(d, p, w, b)
  <1>1. Timely(c, w, b) /\ Fresh(c, p, w) /\ Filmed(p, w.from) /\ Announced(c, p, w) /\ Drawn(w)
    BY DEF SourceOK
  <1>2. Timely(d, w, b)
    BY <1>1 DEF Timely
  <1>3. Fresh(d, p, w)
    BY <1>1 DEF Fresh, NoEnd
  <1>4. Announced(d, p, w)
    BY <1>1 DEF Announced, EndsExact
  <1> QED
    BY <1>1, <1>2, <1>3, <1>4 DEF SourceOK

\* The client accepts or refuses the next record of the pipe.
LEMMA ReceiveKeeps ==
  ASSUME NEW c \in Clients, NEW p \in Children, NEW w, NEW b, SourceOK(c, p, w, b),
         c.terminal = "none", p.out # <<>>
  PROVE  Receive(c, Head(p.out)) \in Clients /\ SourceOK(Receive(c, Head(p.out)), p, w, b)
  <1> DEFINE r == Head(p.out)
             d == Receive(c, r)
  <1>1. p.out \in Seq(Records) /\ c.queue \in Seq(Records)
    BY DEF Children, Clients
  <1>2. r \in Records /\ r \in In(p.out)
    BY <1>1, InTail
  <1>3. Timely(c, w, b) /\ Fresh(c, p, w) /\ Filmed(p, w.from) /\ Announced(c, p, w) /\ Drawn(w)
    BY DEF SourceOK
  <1> HIDE DEF r
  <1>4. CASE r.type = "ACK"
    <2>1. d = AcceptACK(c, r)
      BY <1>4 DEF Receive
    <2> HIDE DEF d
    <2>2. /\ d \in Clients /\ d.queue = c.queue /\ d.pending = "none"
          /\ d.phase = "started" => c.pending = "START"
          /\ d.phase # "streaming" /\ (Early(d) => Early(c))
      BY <1>2, <1>4, <2>1, AckFacts
    <2>3. d.pending = "START" \/ d.phase \in {"started", "streaming"} => b
      BY <1>3, <2>2 DEF Timely
    <2>4. SourceOK(d, p, w, b)
      BY <2>2, <2>3, ClientKeeps
    <2> QED
      BY <2>2, <2>4 DEF d, r
  <1>5. CASE r.type # "ACK"
    <2> HIDE DEF d
    <2>1. /\ d \in Clients
          /\ \/ d.terminal # "none" /\ d.queue = c.queue /\ d.pending = "none" /\ d.phase = "init"
             \/ /\ d.terminal = "none" /\ d.queue = Append(c.queue, r) /\ d.pending = c.pending
                /\ r.type = "SESSION" => c.phase = "started"
                /\ r.type = "ITEM" => c.phase = "streaming"
                /\ d.phase \in {"started", "streaming"} => c.phase \in {"started", "streaming"}
                /\ d.phase \notin {"init", "ready", "armed"}
      BY <1>2, <1>5, DataFacts DEF d
    <2>2. CASE d.terminal # "none"
      <3>1. SourceOK(d, p, w, b)
        BY <2>1, <2>2, ClientKeeps DEF Early
      <3> QED
        BY <2>1, <3>1 DEF d, r
    <2>3. CASE d.terminal = "none"
      <3>0. In(Append(c.queue, r)) = In(c.queue) \cup {r}
        BY <1>1, <1>2, InAppend
      <3>1. In(d.queue) = In(c.queue) \cup {r}
        BY <2>1, <2>3, <3>0
      <3>2. Timely(d, w, b)
        BY <1>3, <2>1, <2>3, <3>1 DEF Timely
      <3>3. Early(d) => Early(c)
        BY <2>1, <2>3 DEF Early
      <3>4. Early(d) => r.type # "END"
        BY <1>2, <1>3, <3>3 DEF Fresh, Unstarted, NoEnd
      <3>5. Fresh(d, p, w)
        BY <1>3, <3>1, <3>3, <3>4 DEF Fresh, NoEnd
      <3>6. Announced(d, p, w)
        BY <1>2, <1>3, <3>1 DEF Announced, EndsExact
      <3>7. SourceOK(d, p, w, b)
        BY <1>3, <3>2, <3>5, <3>6 DEF SourceOK
      <3> QED
        BY <2>1, <3>7 DEF d, r
    <2> QED
      BY <2>2, <2>3
  <1> QED
    BY <1>4, <1>5

-----------------------------------------------------------------------------
(* The producer of one source.                                             *)

\* What a producer has filmed and announced.
Legible(p, from) ==
  Filmed(p, from) /\ EndsExact(p.out, from) /\ EndsExact(p.script, from)

\* What every step of a producer keeps.
Continues(p, q, from) ==
  /\ q \in Children /\ Legible(q, from)
  /\ Unstarted(p) => Unstarted(q)
  /\ Running(q) => Running(p)

\* What a producer may do on its own (Continues) leaves the source in order.
LEMMA ChildKeeps ==
  ASSUME NEW c, NEW p, NEW q, NEW w, NEW b, SourceOK(c, p, w, b), Continues(p, q, w.from)
  PROVE  SourceOK(c, q, w, b)
  <1>1. Timely(c, w, b) /\ Fresh(c, p, w) /\ Announced(c, p, w) /\ Drawn(w)
    BY DEF SourceOK
  <1>2. Fresh(c, q, w)
    BY <1>1 DEF Fresh, Continues
  <1>3. Announced(c, q, w) /\ Filmed(q, w.from)
    BY <1>1 DEF Announced, Continues, Legible
  <1> QED
    BY <1>1, <1>2, <1>3 DEF SourceOK

\* What a source in order says of its producer.
LEMMA LegibleSource ==
  ASSUME NEW c, NEW p, NEW w, NEW b, SourceOK(c, p, w, b)
  PROVE  Legible(p, w.from)
  BY DEF SourceOK, Legible, Announced

\* The fields of a producer.
LEMMA ChildTypes ==
  ASSUME NEW p \in Children
  PROVE  /\ p.inbox \in Seq(Commands) /\ p.out \in Seq(Records) /\ p.script \in Seq(Records)
         /\ p.frame \in Nat /\ p.held \in Nat /\ p.mark \in Nat \cup {Unset}
         /\ p.boundary \in Nat /\ p.items \in Seq(Nat) /\ p.code \in {0, 1}
         /\ p.camera \in {"off", "on", "gone"}
         /\ p.next \in {"none", "arm", "idle", "stream", "exit"}
         /\ p.pc \in {"none", "ready", "arm", "idle", "stream", "write", "stuck", "exit"}
  BY DEF Children

\* Where there is no END, every END is exact.
LEMMA NoEndsAreExact ==
  ASSUME NEW q, NEW from, NoEnd(q)
  PROVE  EndsExact(q, from)
  BY DEF NoEnd, EndsExact

\* A producer that has nothing more to film.
LEMMA SpentKeeps ==
  ASSUME NEW p, NEW q \in Children, NEW from \in Nat, Running(p),
         q.inbox = <<>>, q.mark = Unset, q.pc # "stream", q.next # "stream", q.held = 0,
         q.items = <<>>, EndsExact(q.out, from), EndsExact(q.script, from),
         Unstarted(p) => NoEnd(q.out) /\ NoEnd(q.script)
  PROVE  Continues(p, q, from)
  <1>1. Filmed(q, from)
    BY InEmpty DEF Filmed
  <1>2. Unstarted(p) => Unstarted(q)
    BY InEmpty DEF Unstarted
  <1> QED
    BY <1>1, <1>2 DEF Continues, Legible

\* The producer writes its last records and will exit.
LEMMA LastWordsKeeps ==
  ASSUME NEW p \in Children, NEW from \in Nat, Legible(p, from), Running(p),
         NEW script \in Seq(Records), NEW code \in {0, 1}, EndsExact(script, from),
         Unstarted(p) => NoEnd(script)
  PROVE  Continues(p, LastWords(p, script, code), from)
  <1> DEFINE q == LastWords(p, script, code)
  <1>1. p.out \in Seq(Records)
    BY ChildTypes
  <1>2. <<>> \in Seq(Commands) /\ <<>> \in Seq(Nat) /\ Unset \in Nat \cup {Unset}
    OBVIOUS
  <1>3. /\ q \in Children /\ q.inbox = <<>> /\ q.mark = Unset /\ q.pc = "write" /\ q.next = "exit"
        /\ q.held = 0 /\ q.items = <<>> /\ q.out = p.out /\ q.script = script
    BY <1>1, <1>2 DEF LastWords, NewChild, Children
  <1> HIDE DEF q
  <1>4. EndsExact(q.out, from) /\ (Unstarted(p) => NoEnd(q.out))
    BY <1>3 DEF Legible, Unstarted
  <1> QED
    BY <1>3, <1>4, SpentKeeps DEF q

\* The producer exits, with what is left in the pipe.
LEMMA GoneKeeps ==
  ASSUME NEW p \in Children, NEW from \in Nat, Running(p), NEW code \in {0, 1},
         NEW r, r.out \in Seq(Records), r.frame \in Nat, EndsExact(r.out, from),
         Unstarted(p) => NoEnd(r.out)
  PROVE  Continues(p, Gone(r, code), from) /\ ~ Running(Gone(r, code))
  <1> DEFINE q == Gone(r, code)
  <1>1. <<>> \in Seq(Commands) /\ <<>> \in Seq(Nat) /\ <<>> \in Seq(Records) /\ Unset \in Nat \cup {Unset}
    OBVIOUS
  <1>2. /\ q \in Children /\ q.inbox = <<>> /\ q.mark = Unset /\ q.pc = "exit" /\ q.next = "none"
        /\ q.held = 0 /\ q.items = <<>> /\ q.out = r.out /\ q.script = <<>>
    BY <1>1 DEF Gone, NewChild, Children
  <1> HIDE DEF q
  <1>3. NoEnd(q.script)
    BY <1>2, InEmpty DEF NoEnd
  <1>4. ~ Running(q)
    BY <1>2 DEF Running
  <1>5. Continues(p, q, from)
    BY <1>2, <1>3, NoEndsAreExact, SpentKeeps
  <1> QED
    BY <1>4, <1>5 DEF q

\* The producer is killed.
LEMMA KilledKeeps ==
  ASSUME NEW p \in Children, NEW from \in Nat, Running(p), Legible(p, from)
  PROVE  Continues(p, Killed(p), from) /\ ~ Running(Killed(p))
  BY ChildTypes, GoneKeeps DEF Killed, Legible, Unstarted

\* The client takes something out of the pipe.
LEMMA OutKeeps ==
  ASSUME NEW p \in Children, NEW from \in Nat, Legible(p, from),
         NEW o \in Seq(Records), In(o) \subseteq In(p.out)
  PROVE  Continues(p, [p EXCEPT !.out = o], from)
  <1> DEFINE q == [p EXCEPT !.out = o]
  <1>1. q \in Children /\ q.out = o
    BY DEF Children
  <1>2. /\ q.inbox = p.inbox /\ q.mark = p.mark /\ q.pc = p.pc /\ q.next = p.next /\ q.held = p.held
        /\ q.items = p.items /\ q.frame = p.frame /\ q.boundary = p.boundary /\ q.script = p.script
    BY DEF Children
  <1> HIDE DEF q
  <1>3. Legible(q, from)
    BY <1>1, <1>2 DEF Legible, Filmed, EndsExact
  <1>4. Unstarted(p) => Unstarted(q)
    BY <1>1, <1>2 DEF Unstarted, NoEnd
  <1>5. Running(q) => Running(p)
    BY <1>2 DEF Running
  <1> QED
    BY <1>1, <1>3, <1>4, <1>5 DEF Continues, q

\* Another command than START arrives.
LEMMA InboxKeeps ==
  ASSUME NEW p \in Children, NEW from \in Nat, Legible(p, from),
         NEW command \in Commands, command # "START"
  PROVE  Continues(p, [p EXCEPT !.inbox = Append(p.inbox, command)], from)
  <1> DEFINE q == [p EXCEPT !.inbox = Append(p.inbox, command)]
  <1>1. Append(p.inbox, command) \in Seq(Commands) /\ In(Append(p.inbox, command)) = In(p.inbox) \cup {command}
    BY ChildTypes, InAppend
  <1>2. q \in Children /\ q.inbox = Append(p.inbox, command)
    BY <1>1 DEF Children
  <1>3. /\ q.out = p.out /\ q.mark = p.mark /\ q.pc = p.pc /\ q.next = p.next /\ q.held = p.held
        /\ q.items = p.items /\ q.frame = p.frame /\ q.boundary = p.boundary /\ q.script = p.script
    BY DEF Children
  <1> HIDE DEF q
  <1>4. Legible(q, from)
    BY <1>1, <1>2, <1>3 DEF Legible, Filmed, EndsExact
  <1>5. Unstarted(p) => Unstarted(q)
    BY <1>1, <1>2, <1>3 DEF Unstarted, NoEnd
  <1>6. Running(q) => Running(p)
    BY <1>3 DEF Running
  <1> QED
    BY <1>2, <1>4, <1>5, <1>6 DEF Continues, q

\* The producer answers a request that is not START.
LEMMA AnswerKeeps ==
  ASSUME NEW p \in Children, NEW from \in Nat, Legible(p, from), Running(p), p.inbox # <<>>,
         p.pc \in {"ready", "arm"}, NEW r \in Records, r.type # "END",
         NEW next \in {"arm", "idle"}, NEW camera \in {"off", "on", "gone"}
  PROVE  Continues(p, Answer([p EXCEPT !.camera = camera], <<r>>, next), from)
  <1> DEFINE q == Answer([p EXCEPT !.camera = camera], <<r>>, next)
  <1>1. Tail(p.inbox) \in Seq(Commands) /\ In(Tail(p.inbox)) \subseteq In(p.inbox)
    BY ChildTypes, InTail
  <1>2. <<r>> \in Seq(Records) /\ In(<<r>>) = {r}
    BY InOne
  <1>3. q \in Children /\ q.inbox = Tail(p.inbox) /\ q.script = <<r>> /\ q.pc = "write" /\ q.next = next
    BY <1>1, <1>2 DEF Answer, Taken, Children
  <1>4. /\ q.out = p.out /\ q.mark = p.mark /\ q.held = p.held /\ q.items = p.items
        /\ q.frame = p.frame /\ q.boundary = p.boundary
    BY DEF Answer, Taken, Children
  <1> HIDE DEF q
  <1>5. Filmed(p, from) /\ p.items = <<>>
    BY DEF Legible, Filmed
  <1>6. Filmed(q, from)
    BY <1>1, <1>3, <1>4, <1>5 DEF Filmed
  <1>7. EndsExact(q.out, from) /\ EndsExact(q.script, from)
    BY <1>2, <1>3, <1>4 DEF EndsExact, Legible
  <1>8. Unstarted(p) => Unstarted(q)
    BY <1>1, <1>2, <1>3, <1>4 DEF Unstarted, NoEnd
  <1> QED
    BY <1>3, <1>6, <1>7, <1>8 DEF Continues, Legible, q

\* The producer reads the camera's frame counter when START arrives,
LEMMA MarkKeeps ==
  ASSUME NEW p \in Children, NEW from \in Nat, Legible(p, from), p.pc = "idle",
         p.inbox # <<>>, "START" \in In(p.inbox)
  PROVE  Continues(p, [p EXCEPT !.mark = p.frame], from)
  <1> DEFINE q == [p EXCEPT !.mark = p.frame]
  <1>1. q \in Children /\ q.mark = p.frame /\ p.frame \in Nat
    BY DEF Children
  <1>2. /\ q.inbox = p.inbox /\ q.out = p.out /\ q.pc = p.pc /\ q.next = p.next /\ q.held = p.held
        /\ q.items = p.items /\ q.frame = p.frame /\ q.boundary = p.boundary /\ q.script = p.script
    BY DEF Children
  <1> HIDE DEF q
  <1>3. Filmed(p, from)
    BY DEF Legible
  <1>4. Filmed(q, from)
    BY <1>1, <1>2, <1>3 DEF Filmed
  <1>5. EndsExact(q.out, from) /\ EndsExact(q.script, from)
    BY <1>2 DEF Legible
  <1>6. ~ Unstarted(p)
    BY DEF Unstarted
  <1>7. Running(q) => Running(p)
    BY <1>2 DEF Running
  <1> QED
    BY <1>1, <1>4, <1>5, <1>6, <1>7 DEF Continues, Legible, q

\* ... and makes it the boundary of its stream.
LEMMA StartKeeps ==
  ASSUME NEW p \in Children, NEW from \in Nat, Legible(p, from), p.pc = "idle", p.mark # Unset
  PROVE  Continues(p, Answer([p EXCEPT !.boundary = p.mark, !.mark = Unset],
                             <<ACK("START", TRUE), SESSION>>, "stream"), from)
  <1> DEFINE script == <<ACK("START", TRUE), SESSION>>
             q == Answer([p EXCEPT !.boundary = p.mark, !.mark = Unset], script, "stream")
  <1>1. ACK("START", TRUE) \in Records /\ ACK("START", TRUE).type = "ACK"
    BY RecordFacts DEF Commands
  <1>2. script \in Seq(Records) /\ In(script) = {ACK("START", TRUE), SESSION}
    <2> DEFINE ack == ACK("START", TRUE)
    <2>1. ack \in Records /\ SESSION \in Records
      BY <1>1, RecordFacts
    <2> HIDE DEF ack
    <2>2. <<ack, SESSION>> \in Seq(Records) /\ In(<<ack, SESSION>>) = {ack, SESSION}
      BY <2>1, InTwo
    <2> QED
      BY <2>2 DEF ack
  <1>3. EndsExact(script, from)
    BY <1>1, <1>2, RecordFacts DEF EndsExact
  <1> HIDE DEF script
  <1>4. p.mark \in Nat /\ p.mark >= from /\ Unset \in Nat \cup {Unset}
    BY ChildTypes DEF Legible, Filmed
  <1>5. p.inbox \in Seq(Commands)
    BY ChildTypes
  <1>6. Tail(p.inbox) \in Seq(Commands) /\ In(Tail(p.inbox)) \subseteq In(p.inbox)
    <2>1. p.inbox # <<>>
      BY DEF Legible, Filmed
    <2> QED
      BY <1>5, <2>1, InTail
  <1>7. /\ q \in Children /\ q.inbox = Tail(p.inbox) /\ q.script = script /\ q.pc = "write"
        /\ q.next = "stream" /\ q.boundary = p.mark /\ q.mark = Unset
    BY <1>2, <1>4, <1>6 DEF Answer, Taken, Children
  <1>8. q.out = p.out /\ q.held = p.held /\ q.items = p.items /\ q.frame = p.frame
    BY DEF Answer, Taken, Children
  <1> HIDE DEF q
  <1>9. Filmed(p, from) /\ p.items = <<>>
    BY DEF Legible, Filmed
  <1>10. Filmed(q, from)
    BY <1>4, <1>6, <1>7, <1>8, <1>9 DEF Filmed
  <1>11. EndsExact(q.out, from) /\ EndsExact(q.script, from)
    BY <1>3, <1>7, <1>8 DEF Legible
  <1> QED
    BY <1>7, <1>10, <1>11 DEF Continues, Legible, Unstarted, Running, q, script

\* The camera completes a frame.
LEMMA CameraKeeps ==
  ASSUME NEW p \in Children, NEW from \in Nat, Legible(p, from), p.held = 0
  PROVE  Continues(p, [p EXCEPT !.frame = p.frame + 1, !.held = p.frame + 1], from)
  <1> DEFINE n == p.frame + 1
             q == [p EXCEPT !.frame = n, !.held = n]
  <1>1. p.frame \in Nat /\ p.items \in Seq(Nat) /\ p.boundary \in Nat /\ p.mark \in Nat \cup {Unset}
    BY ChildTypes
  <1>2. n \in Nat /\ n # 0 /\ n - 1 = p.frame /\ n > p.frame
    BY <1>1
  <1> HIDE DEF n
  <1>0. q \in Children /\ q.frame = n /\ q.held = n
    BY <1>2 DEF Children
  <1>3. /\ q.inbox = p.inbox /\ q.out = p.out /\ q.pc = p.pc /\ q.next = p.next /\ q.mark = p.mark
        /\ q.items = p.items /\ q.boundary = p.boundary /\ q.script = p.script
    BY DEF Children
  <1> HIDE DEF q
  <1>4. Filmed(p, from)
    BY DEF Legible
  <1>5. "START" \in In(q.inbox) => q.frame >= from
    <2>1. "START" \in In(q.inbox) => p.frame >= from
      BY <1>3, <1>4 DEF Filmed
    <2> QED
      BY <1>0, <1>1, <1>2, <2>1
  <1>6. q.items # <<>> => q.items[Len(q.items)] = p.frame
    BY <1>3, <1>4 DEF Filmed
  <1>7. q.held # 0 /\ q.frame - 1 = p.frame /\ q.held = q.frame
    BY <1>0, <1>2
  <1>8. Filmed(q, from)
    BY <1>3, <1>4, <1>5, <1>6, <1>7 DEF Filmed
  <1>9. EndsExact(q.out, from) /\ EndsExact(q.script, from)
    BY <1>3 DEF Legible
  <1>10. Unstarted(p) => Unstarted(q)
    BY <1>3 DEF Unstarted
  <1> QED
    BY <1>0, <1>3, <1>8, <1>9, <1>10 DEF Continues, Legible, Running, q, n

\* A frame that is not part of the stream is thrown away.
LEMMA DiscardKeeps ==
  ASSUME NEW p \in Children, NEW from \in Nat, Legible(p, from), p.held # 0,
         p.pc = "idle" \/ (p.pc = "stream" /\ p.held <= p.boundary)
  PROVE  Continues(p, [p EXCEPT !.held = 0], from)
  <1> DEFINE q == [p EXCEPT !.held = 0]
  <1>1. p.frame \in Nat /\ p.items \in Seq(Nat) /\ p.boundary \in Nat /\ p.held \in Nat
    BY ChildTypes
  <1>2. q \in Children /\ q.held = 0
    BY <1>1 DEF Children
  <1>3. /\ q.inbox = p.inbox /\ q.out = p.out /\ q.pc = p.pc /\ q.next = p.next /\ q.mark = p.mark
        /\ q.items = p.items /\ q.boundary = p.boundary /\ q.script = p.script /\ q.frame = p.frame
    BY DEF Children
  <1> HIDE DEF q
  <1>4. Filmed(p, from)
    BY DEF Legible
  <1>5. p.items = <<>>
    <2> SUFFICES ASSUME p.items # <<>> PROVE FALSE
      OBVIOUS
    <2>1. Len(p.items) \in 1 .. Len(p.items)
      BY <1>1
    <2>2. p.items[Len(p.items)] \in Nat
      BY <1>1, <2>1, InFacts
    <2>3. p.held = p.frame /\ p.pc = "stream" /\ p.items[Len(p.items)] > p.boundary
          /\ p.items[Len(p.items)] = p.frame - 1
      BY <1>4 DEF Filmed
    <2> QED
      BY <1>1, <2>2, <2>3
  <1>6. Filmed(q, from)
    BY <1>2, <1>3, <1>4, <1>5 DEF Filmed
  <1>7. EndsExact(q.out, from) /\ EndsExact(q.script, from)
    BY <1>3 DEF Legible
  <1>8. Unstarted(p) => Unstarted(q)
    BY <1>3 DEF Unstarted
  <1> QED
    BY <1>2, <1>3, <1>6, <1>7, <1>8 DEF Continues, Legible, Running, q

\* The frame after the last one continues the stream.
LEMMA ConsecutiveAppend ==
  ASSUME NEW f \in Seq(Nat), NEW from \in Nat, NEW n \in Nat, Consecutive(f, from), n > from,
         f # <<>> => n = f[Len(f)] + 1
  PROVE  Consecutive(Append(f, n), from)
  <1> DEFINE a == Append(f, n)
  <1>1. Len(f) \in Nat /\ (Len(f) = 0 => f = <<>>) /\ Len(a) = Len(f) + 1 /\ a[Len(f) + 1] = n
    OBVIOUS
  <1>2. \A i \in 1 .. Len(f) : a[i] = f[i]
    OBVIOUS
  <1> HIDE DEF a
  <1>3. ASSUME NEW i \in 1 .. Len(a) PROVE a[i] > from /\ (i > 1 => a[i] = a[i - 1] + 1)
    <2>1. CASE i \in 1 .. Len(f)
      <3>1. a[i] = f[i] /\ f[i] > from /\ (i > 1 => f[i] = f[i - 1] + 1)
        BY <1>2, <2>1 DEF Consecutive
      <3>2. i > 1 => a[i - 1] = f[i - 1]
        BY <1>1, <1>2, <2>1, SMTT(40)
      <3> QED
        BY <3>1, <3>2
    <2>2. CASE i = Len(f) + 1
      <3>1. i > 1 => Len(f) \in 1 .. Len(f) /\ f # <<>> /\ i - 1 = Len(f)
        BY <1>1, <2>2
      <3> QED
        BY <1>1, <1>2, <2>2, <3>1
    <2> QED
      BY <1>1, <2>1, <2>2
  <1> QED
    BY <1>3 DEF a, Consecutive

\* A frame after the boundary is streamed.
LEMMA StreamKeeps ==
  ASSUME NEW p \in Children, NEW from \in Nat, Legible(p, from), p.pc = "stream", p.held # 0,
         ~ p.held <= p.boundary
  PROVE  Continues(p, [p EXCEPT !.out = Append(p.out, ITEM(p.held)),
                                !.items = Append(p.items, p.held), !.held = 0], from)
  <1> DEFINE item == ITEM(p.held)
             more == Append(p.items, p.held)
             q == [p EXCEPT !.out = Append(p.out, item), !.items = more, !.held = 0]
  <1>1. /\ p.frame \in Nat /\ p.items \in Seq(Nat) /\ p.boundary \in Nat /\ p.held \in Nat
        /\ p.out \in Seq(Records)
    BY ChildTypes
  <1>2. item \in Records /\ item.type = "ITEM"
    BY <1>1, RecordFacts
  <1>3. Filmed(p, from)
    BY DEF Legible
  <1>4. p.held = p.frame /\ p.held > p.boundary /\ p.boundary >= from /\ p.held > from
    BY <1>1, <1>3 DEF Filmed
  <1>5. more \in Seq(Nat) /\ more # <<>> /\ more[Len(more)] = p.held
    BY <1>1, SMTT(40)
  <1>6. Consecutive(more, from)
    <2>1. Consecutive(p.items, from)
      <3>1. CASE p.items = <<>>
        BY <3>1 DEF Consecutive
      <3>2. CASE p.items # <<>>
        BY <1>3, <3>2 DEF Filmed
      <3> QED
        BY <3>1, <3>2
    <2>2. p.items # <<>> => p.held = p.items[Len(p.items)] + 1
      <3> SUFFICES ASSUME p.items # <<>> PROVE p.held = p.items[Len(p.items)] + 1
        OBVIOUS
      <3>1. p.items[Len(p.items)] = p.frame - 1
        BY <1>3 DEF Filmed
      <3> QED
        BY <1>1, <1>4, <3>1
    <2> QED
      BY <1>1, <1>4, <2>1, <2>2, ConsecutiveAppend
  <1>7. Append(p.out, item) \in Seq(Records) /\ In(Append(p.out, item)) = In(p.out) \cup {item}
    BY <1>1, <1>2, InAppend
  <1> HIDE DEF item, more
  <1>8. q \in Children /\ q.held = 0 /\ q.out = Append(p.out, item) /\ q.items = more
    BY <1>5, <1>7 DEF Children
  <1>9. /\ q.inbox = p.inbox /\ q.pc = p.pc /\ q.next = p.next /\ q.mark = p.mark
        /\ q.boundary = p.boundary /\ q.script = p.script /\ q.frame = p.frame
    BY DEF Children
  <1> HIDE DEF q
  <1>10. Filmed(q, from)
    BY <1>3, <1>4, <1>5, <1>6, <1>8, <1>9 DEF Filmed
  <1>11. EndsExact(q.out, from) /\ EndsExact(q.script, from)
    BY <1>2, <1>7, <1>8, <1>9 DEF Legible, EndsExact
  <1> QED
    BY <1>8, <1>10, <1>11 DEF Continues, Legible, Unstarted, Running, q, item, more

\* The records of the answer are written; the producer goes on.
LEMMA WritesKeeps ==
  ASSUME NEW p \in Children, NEW from \in Nat, Legible(p, from), p.pc = "write", p.next # "exit"
  PROVE  Continues(p, [p EXCEPT !.out = p.out \o p.script, !.script = <<>>, !.pc = p.next,
                                !.next = "none"], from)
  <1> DEFINE o == p.out \o p.script
             q == [p EXCEPT !.out = o, !.script = <<>>, !.pc = p.next, !.next = "none"]
  <1>1. p.out \in Seq(Records) /\ p.script \in Seq(Records) /\ p.next \in {"none", "arm", "idle", "stream"}
    BY ChildTypes
  <1>2. o \in Seq(Records) /\ In(o) \subseteq In(p.out) \cup In(p.script)
    BY <1>1, InConcat
  <1> HIDE DEF o
  <1>3. q \in Children /\ q.out = o /\ q.script = <<>> /\ q.pc = p.next /\ q.next = "none"
    <2>1. p.next \in {"none", "ready", "arm", "idle", "stream", "write", "stuck", "exit"}
      BY <1>1
    <2> DEFINE nothing == <<>>
    <2>2. nothing \in Seq(Records)
      OBVIOUS
    <2> HIDE DEF nothing
    <2>3. [p EXCEPT !.out = o, !.script = nothing, !.pc = p.next, !.next = "none"] \in Children
      BY <1>2, <2>1, <2>2 DEF Children
    <2>4. q \in Children
      BY <2>3 DEF nothing
    <2> QED
      BY <2>4 DEF Children
  <1>4. /\ q.inbox = p.inbox /\ q.mark = p.mark /\ q.boundary = p.boundary /\ q.frame = p.frame
        /\ q.held = p.held /\ q.items = p.items
    BY DEF Children
  <1> HIDE DEF q
  <1>5. Filmed(p, from) /\ p.items = <<>>
    BY DEF Legible, Filmed
  <1>6. Filmed(q, from)
    BY <1>3, <1>4, <1>5 DEF Filmed
  <1>7. EndsExact(q.out, from) /\ EndsExact(q.script, from)
    BY <1>2, <1>3, InEmpty DEF Legible, EndsExact
  <1>8. Unstarted(p) => Unstarted(q)
    BY <1>2, <1>3, <1>4, InEmpty DEF Unstarted, NoEnd
  <1> QED
    BY <1>3, <1>6, <1>7, <1>8 DEF Continues, Legible, Running, q, o

\* The producer hangs, or its camera is gone.
LEMMA StuckKeeps ==
  ASSUME NEW p \in Children, NEW from \in Nat, Legible(p, from), Running(p)
  PROVE  /\ Continues(p, [p EXCEPT !.pc = "stuck"], from)
         /\ Continues(p, [p EXCEPT !.camera = "gone"], from)
  <1> DEFINE q == [p EXCEPT !.pc = "stuck"]
             r == [p EXCEPT !.camera = "gone"]
  <1>1. q \in Children /\ q.pc = "stuck" /\ r \in Children /\ r.pc = p.pc
    BY DEF Children
  <1>2. /\ q.inbox = p.inbox /\ q.out = p.out /\ q.script = p.script /\ q.mark = p.mark
        /\ q.boundary = p.boundary /\ q.frame = p.frame /\ q.held = p.held /\ q.items = p.items
        /\ q.next = p.next
    BY DEF Children
  <1>3. /\ r.inbox = p.inbox /\ r.out = p.out /\ r.script = p.script /\ r.mark = p.mark
        /\ r.boundary = p.boundary /\ r.frame = p.frame /\ r.held = p.held /\ r.items = p.items
        /\ r.next = p.next
    BY DEF Children
  <1> HIDE DEF q, r
  <1>4. Legible(q, from)
    BY <1>1, <1>2 DEF Legible, Filmed
  <1>5. Legible(r, from)
    BY <1>1, <1>3 DEF Legible, Filmed
  <1>6. (Unstarted(p) => Unstarted(q)) /\ (Unstarted(p) => Unstarted(r))
    BY <1>1, <1>2, <1>3 DEF Unstarted
  <1> QED
    BY <1>1, <1>4, <1>5, <1>6 DEF Continues, q, r

\* A record out of place.
LEMMA RogueKeeps ==
  ASSUME NEW p \in Children, NEW from \in Nat, Legible(p, from), NEW r \in Rogue
  PROVE  Continues(p, [p EXCEPT !.out = Append(p.out, r)], from)
  <1> DEFINE o == Append(p.out, r)
             q == [p EXCEPT !.out = o]
  <1>1. r \in Records /\ r.type # "END"
    <2>1. ACK("START", TRUE) \in Records /\ ACK("START", TRUE).type = "ACK"
      BY RecordFacts DEF Commands
    <2>2. ITEM(0) \in Records /\ ITEM(0).type = "ITEM"
      BY RecordFacts
    <2> QED
      BY <2>1, <2>2 DEF Rogue
  <1>2. o \in Seq(Records) /\ In(o) = In(p.out) \cup {r}
    BY <1>1, ChildTypes, InAppend
  <1> HIDE DEF o
  <1>3. q \in Children /\ q.out = o
    BY <1>2 DEF Children
  <1>4. /\ q.inbox = p.inbox /\ q.mark = p.mark /\ q.pc = p.pc /\ q.next = p.next /\ q.held = p.held
        /\ q.items = p.items /\ q.frame = p.frame /\ q.boundary = p.boundary /\ q.script = p.script
    BY DEF Children
  <1> HIDE DEF q
  <1>5. Legible(q, from)
    BY <1>1, <1>2, <1>3, <1>4 DEF Legible, Filmed, EndsExact
  <1>6. Unstarted(p) => Unstarted(q)
    BY <1>1, <1>2, <1>3, <1>4 DEF Unstarted, NoEnd
  <1>7. Running(q) => Running(p)
    BY <1>4 DEF Running
  <1> QED
    BY <1>3, <1>5, <1>6, <1>7 DEF Continues, q, o

-----------------------------------------------------------------------------
(* The recorder of one source.                                             *)

\* What a step of source s alone may do to it.
Harmless(c, p, w, d, q, v) ==
  /\ v.state = "none" <=> w.state = "none"
  /\ w.state = "done" => v = w
  /\ v.intentional => w.intentional
  /\ Running(q) => Running(p)
  /\ c.terminal # "none" => d.terminal # "none"

\* The three recorders that are constants.
LEMMA BrokenFacts ==
  /\ Broken \in Workers /\ Broken.state = "done" /\ Broken.failed /\ Broken.seen = "nothing"
  /\ ~ Broken.intentional /\ Broken.from = 0 /\ Broken.got = <<>>
  /\ NewWorker \in Workers /\ NewWorker.state = "read" /\ ~ NewWorker.failed
  /\ NewWorker.seen = "nothing" /\ ~ NewWorker.intentional /\ NewWorker.got = <<>>
  /\ NoWorker \in Workers /\ NoWorker.state = "none" /\ ~ NoWorker.failed
  /\ NoWorker.seen = "nothing" /\ ~ NoWorker.intentional /\ NoWorker.got = <<>>
  /\ ~ NoWorker.stop /\ NoWorker.from = 0 /\ NewWorker.from = 0
  <1>1. <<>> \in Seq(Nat)
    OBVIOUS
  <1>2. /\ NewWorker \in Workers /\ NewWorker.state = "read" /\ ~ NewWorker.failed
        /\ NewWorker.seen = "nothing" /\ ~ NewWorker.intentional /\ NewWorker.got = <<>>
        /\ ~ NewWorker.stop /\ NewWorker.from = 0
    BY <1>1 DEF NewWorker, Workers
  <1>3. /\ NoWorker \in Workers /\ NoWorker.state = "none" /\ NoWorker.failed = NewWorker.failed
        /\ NoWorker.seen = NewWorker.seen /\ NoWorker.intentional = NewWorker.intentional
        /\ NoWorker.got = NewWorker.got /\ NoWorker.stop = NewWorker.stop
        /\ NoWorker.from = NewWorker.from
    BY <1>2 DEF NoWorker, Workers
  <1>4. /\ Broken \in Workers /\ Broken.state = "done" /\ Broken.failed = TRUE
        /\ Broken.seen = NewWorker.seen /\ Broken.intentional = NewWorker.intentional
        /\ Broken.got = NewWorker.got /\ Broken.from = NewWorker.from
    BY <1>2 DEF Broken, Workers
  <1> QED
    BY <1>2, <1>3, <1>4

\* Frames after START are frames.
LEMMA LaterIsEnough ==
  ASSUME NEW f \in Seq(Nat), NEW from \in Nat, Consecutive(f, from)
  PROVE  Consecutive(f, 0)
  <1>1. ASSUME NEW i \in 1 .. Len(f) PROVE f[i] > 0 /\ (i > 1 => f[i] = f[i - 1] + 1)
    <2>1. f[i] \in Nat
      OBVIOUS
    <2>2. f[i] > from /\ (i > 1 => f[i] = f[i - 1] + 1)
      BY DEF Consecutive
    <2> QED
      BY <2>1, <2>2
  <1> QED
    BY <1>1 DEF Consecutive

\* ... and so are those an END announces.
LEMMA EndsLater ==
  ASSUME NEW q \in Seq(Records), NEW from \in Nat, EndsExact(q, from)
  PROVE  EndsExact(q, 0)
  <1>1. ASSUME NEW r \in In(q), r.type = "END" PROVE Consecutive(r.frames, 0)
    <2>1. r \in Records
      BY InFacts
    <2>2. r.frames \in Seq(Nat) /\ Consecutive(r.frames, from)
      BY <1>1, <2>1, RecordFacts DEF EndsExact
    <2> QED
      BY <2>2, LaterIsEnough
  <1> QED
    BY <1>1 DEF EndsExact

\* A broken recorder forgets what it had: nothing is claimed of it.
LEMMA BreakKeeps ==
  ASSUME NEW c \in Clients, NEW p \in Children, NEW w \in Workers, NEW b, SourceOK(c, p, w, b)
  PROVE  SourceOK(c, p, Broken, b)
  <1>1. Timely(c, w, b) /\ Fresh(c, p, w) /\ Filmed(p, w.from) /\ Announced(c, p, w)
    BY DEF SourceOK
  <1>2. w.from \in Nat /\ c.queue \in Seq(Records)
    BY DEF Workers, Clients
  <1>3. Timely(c, Broken, b) /\ Fresh(c, p, Broken) /\ Drawn(Broken)
    BY <1>1, BrokenFacts DEF Timely, Fresh, Drawn
  <1>4. EndsExact(c.queue, 0) /\ EndsExact(p.out, 0) /\ EndsExact(p.script, 0)
    BY <1>1, <1>2, ChildTypes, EndsLater DEF Announced
  <1>5. Announced(c, p, Broken)
    BY <1>4, BrokenFacts DEF Announced
  <1>6. Filmed(p, 0)
    <2>1. p.mark \in Nat \cup {Unset} /\ p.frame \in Nat /\ p.boundary \in Nat /\ p.items \in Seq(Nat)
      BY ChildTypes
    <2>2. /\ "START" \in In(p.inbox) => p.frame >= 0
          /\ p.mark # Unset => p.mark >= 0
          /\ p.pc = "stream" \/ p.next = "stream" => p.boundary >= 0
      BY <2>1
    <2>3. p.items # <<>> => Consecutive(p.items, 0)
      BY <1>1, <1>2, <2>1, LaterIsEnough DEF Filmed
    <2> QED
      BY <1>1, <2>2, <2>3 DEF Filmed
  <1> QED
    BY <1>3, <1>5, <1>6, BrokenFacts DEF SourceOK

\* What readStream makes of a record.
Reading(w, r, v) ==
  \/ v = Broken
  \/ r.type = "SESSION" /\ v \in Workers /\ v = [w EXCEPT !.seen = "session"]
  \/ /\ r.type = "ITEM" /\ w.seen = "session" /\ Len(w.got) < MaxItems /\ v \in Workers
     /\ v = [w EXCEPT !.got = Append(w.got, r.frame), !.state = "sink"]
  \/ /\ r.type = "END" /\ w.seen = "session" /\ w.got = r.frames /\ v \in Workers
     /\ v = [w EXCEPT !.seen = "end"]
  \/ r.type = "EOF" /\ w.seen = "end" /\ v \in Workers /\ v = [w EXCEPT !.seen = "eof"]

\* The recorder takes a record in one of the ways of Reading.
LEMMA RecordedFacts ==
  ASSUME NEW w \in Workers, NEW r \in Records
  PROVE  Reading(w, r, Recorded(w, r))
  <1> DEFINE v == Recorded(w, r)
  <1>1. CASE r.type = "SESSION"
    BY <1>1 DEF Recorded, Reading, Workers
  <1>2. CASE r.type = "ITEM"
    <2>1. v = Broken \/ (/\ w.seen = "session" /\ Len(w.got) < MaxItems
                         /\ v = [w EXCEPT !.got = Append(w.got, r.frame), !.state = "sink"])
      BY <1>2 DEF Recorded
    <2>2. r.frame \in Nat /\ w.got \in Seq(Nat)
      BY <1>2, RecordFacts DEF Workers
    <2> DEFINE a == Append(w.got, r.frame)
    <2>3. a \in Seq(Nat)
      BY <2>2
    <2> HIDE DEF a
    <2>4. [w EXCEPT !.got = a, !.state = "sink"] \in Workers
      BY <2>3 DEF Workers
    <2> QED
      BY <1>2, <2>1, <2>4 DEF a, Reading
  <1>3. CASE r.type = "END"
    BY <1>3 DEF Recorded, Reading, Workers
  <1>4. CASE r.type = "EOF"
    BY <1>4 DEF Recorded, Reading, Workers
  <1>5. CASE r.type \notin {"SESSION", "ITEM", "END", "EOF"}
    BY <1>5 DEF Recorded, Reading
  <1> QED
    BY <1>1, <1>2, <1>3, <1>4, <1>5

\* The recorder takes a record off the client's queue.
LEMMA RecordedKeeps ==
  ASSUME NEW c \in Clients, NEW p \in Children, NEW w \in Workers, NEW b \in BOOLEAN,
         SourceOK(c, p, w, b), c.queue # <<>>, w.state = "read",
         NEW d, d = [c EXCEPT !.queue = Tail(c.queue)],
         NEW v, v = Recorded(w, Head(c.queue))
  PROVE  /\ d \in Clients /\ v \in Workers /\ SourceOK(d, p, v, b)
         /\ Harmless(c, p, w, d, p, v)
         /\ Head(c.queue).type = "ITEM" /\ w.seen = "session" => b
  <1> DEFINE r == Head(c.queue)
  <1>1. c.queue \in Seq(Records)
    BY DEF Clients
  <1>2. /\ r \in Records /\ r \in In(c.queue)
        /\ Tail(c.queue) \in Seq(Records) /\ In(Tail(c.queue)) \subseteq In(c.queue)
    BY <1>1, InTail
  <1>3. /\ d \in Clients /\ d.queue = Tail(c.queue) /\ d.pending = c.pending /\ d.phase = c.phase
        /\ d.terminal = c.terminal
    BY <1>2 DEF Clients
  <1> HIDE DEF r
  <1>4. Timely(c, w, b) /\ Fresh(c, p, w) /\ Filmed(p, w.from) /\ Announced(c, p, w) /\ Drawn(w)
    BY DEF SourceOK
  <1>5. SourceOK(d, p, w, b)
    BY <1>2, <1>3, <1>4, ClientKeeps DEF Timely, Early
  <1>6. Early(d) => Early(c)
    BY <1>3 DEF Early
  <1>7. Timely(d, w, b) /\ Fresh(d, p, w) /\ Announced(d, p, w)
    BY <1>5 DEF SourceOK
  <1>8. v = Recorded(w, r)
    BY DEF r
  <1>9. ~ w.failed
    BY <1>4 DEF Drawn
  <1>10. r.type \in {"SESSION", "ITEM"} => b
    BY <1>2, <1>4 DEF Timely
  <1>11. CASE v = Broken
    <2>1. SourceOK(d, p, v, b) /\ v \in Workers
      BY <1>3, <1>5, <1>11, BreakKeeps, BrokenFacts
    <2>2. Harmless(c, p, w, d, p, v)
      BY <1>3, <1>11, BrokenFacts DEF Harmless
    <2> QED
      BY <1>3, <1>10, <2>1, <2>2 DEF r
  <1>12. CASE r.type = "SESSION" /\ v \in Workers /\ v = [w EXCEPT !.seen = "session"]
    <2>1. /\ v.seen = "session" /\ v.state = "read" /\ v.got = w.got /\ v.from = w.from
          /\ v.failed = w.failed /\ v.intentional = w.intentional
      BY <1>12 DEF Workers
    <2>2. Timely(d, v, b) /\ Fresh(d, p, v) /\ Announced(d, p, v) /\ Drawn(v)
      BY <1>7, <1>9, <1>10, <1>12, <2>1 DEF Timely, Fresh, Announced, Drawn
    <2>3. SourceOK(d, p, v, b)
      BY <1>4, <2>1, <2>2 DEF SourceOK
    <2> QED
      BY <1>3, <1>10, <1>12, <2>1, <2>3 DEF Harmless, r
  <1>13. CASE /\ r.type = "ITEM" /\ w.seen = "session" /\ v \in Workers
              /\ v = [w EXCEPT !.got = Append(w.got, r.frame), !.state = "sink"]
    <2>1. /\ v.seen = "session" /\ v.state = "sink" /\ v.from = w.from
          /\ v.failed = w.failed /\ v.intentional = w.intentional
      BY <1>13 DEF Workers
    <2>2. Timely(d, v, b) /\ Fresh(d, p, v) /\ Announced(d, p, v) /\ Drawn(v)
      BY <1>7, <1>9, <1>10, <1>13, <2>1 DEF Timely, Fresh, Announced, Drawn
    <2>3. SourceOK(d, p, v, b)
      BY <1>4, <2>1, <2>2 DEF SourceOK
    <2> QED
      BY <1>3, <1>10, <1>13, <2>1, <2>3 DEF Harmless, r
  <1>14. CASE /\ r.type = "END" /\ w.seen = "session" /\ w.got = r.frames /\ v \in Workers
              /\ v = [w EXCEPT !.seen = "end"]
    <2>1. /\ v.seen = "end" /\ v.state = "read" /\ v.got = w.got /\ v.from = w.from
          /\ v.failed = w.failed /\ v.intentional = w.intentional
      BY <1>14 DEF Workers
    <2>2. ~ Early(d)
      BY <1>2, <1>4, <1>6, <1>14 DEF Fresh, NoEnd
    <2>3. Consecutive(w.got, w.from)
      BY <1>2, <1>4, <1>14 DEF Announced, EndsExact
    <2>4. Timely(d, v, b) /\ Fresh(d, p, v) /\ Announced(d, p, v) /\ Drawn(v)
      BY <1>7, <1>9, <2>1, <2>2, <2>3 DEF Timely, Fresh, Announced, Drawn
    <2>5. SourceOK(d, p, v, b)
      BY <1>4, <2>1, <2>4 DEF SourceOK
    <2> QED
      BY <1>3, <1>10, <1>14, <2>1, <2>5 DEF Harmless, r
  <1>15. CASE r.type = "EOF" /\ w.seen = "end" /\ v \in Workers /\ v = [w EXCEPT !.seen = "eof"]
    <2>1. /\ v.seen = "eof" /\ v.state = "read" /\ v.got = w.got /\ v.from = w.from
          /\ v.failed = w.failed /\ v.intentional = w.intentional
      BY <1>15 DEF Workers
    <2>2. ~ Early(d)
      BY <1>7, <1>15 DEF Fresh
    <2>3. Timely(d, v, b) /\ Fresh(d, p, v) /\ Announced(d, p, v) /\ Drawn(v)
      BY <1>7, <1>9, <1>15, <2>1, <2>2 DEF Timely, Fresh, Announced, Drawn
    <2>4. SourceOK(d, p, v, b)
      BY <1>4, <2>1, <2>3 DEF SourceOK
    <2> QED
      BY <1>3, <1>10, <1>15, <2>1, <2>4 DEF Harmless, r
  <1>16. Reading(w, r, v)
    BY <1>2, <1>8, RecordedFacts
  <1> QED
    BY <1>11, <1>12, <1>13, <1>14, <1>15, <1>16 DEF Reading

-----------------------------------------------------------------------------
(* Steps of one source.                                                    *)

\* What the coordinator left in order stays in order under a harmless change.
LEMMA HandledKeeps ==
  ASSUME NEW k, NEW s, NEW c, NEW p, NEW w, NEW sl, NEW d, NEW e, NEW q, NEW v,
         Handled(k, s, c, p, w, sl, d), Harmless(c, p, w, e, q, v)
  PROVE  Handled(k, s, e, q, v, sl, d)
  <1>1. /\ v.state = "none" <=> w.state = "none"
        /\ w.state = "done" => v = w
        /\ v.intentional => w.intentional
        /\ Running(q) => Running(p)
        /\ Emptied(w) => Emptied(v)
        /\ Reaped(c, p) => Reaped(e, q)
    BY DEF Harmless, Emptied, Reaped
  <1>2. Accounted(s, c, p, w, sl, d) => Accounted(s, e, q, v, sl, d)
    BY <1>1 DEF Accounted
  <1>3. Left(k, c, p, w, sl, d) => Left(k, e, q, v, sl, d)
    BY <1>1 DEF Left
  <1>4. Current(k, c, p, w, sl, d) => Current(k, e, q, v, sl, d)
    BY <1>1 DEF Current
  <1>5. Visited(k, s, c, p, w, sl, d) => Visited(k, s, e, q, v, sl, d)
    BY <1>1, <1>2 DEF Visited
  <1> QED
    BY <1>1, <1>2, <1>3, <1>4, <1>5 DEF Handled

\* A step of source s alone.
Alone(s) ==
  /\ client' \in [Sources -> Clients] /\ child' \in [Sources -> Children]
  /\ worker' \in [Sources -> Workers] /\ cancelled' \in BOOLEAN
  /\ UNCHANGED <<coord, slot, dir>>
  /\ \A t \in Sources \ {s} :
       client'[t] = client[t] /\ child'[t] = child[t] /\ worker'[t] = worker[t]
  /\ SourceOK(client'[s], child'[s], worker'[s], Begun)
  /\ Harmless(client[s], child[s], worker[s], client'[s], child'[s], worker'[s])

\* A harmless change at one source preserves the invariant.
LEMMA AloneKeeps ==
  ASSUME Inv, NEW s \in Sources, Alone(s)
  PROVE  Inv'
  <1>1. TypeInv /\ SourcesInv /\ CoordinatorInv
    BY DEF Inv
  <1>2. coord' = coord /\ slot' = slot /\ dir' = dir
    BY DEF Alone
  <1>3. TypeInv'
    BY <1>1, <1>2 DEF TypeInv, Alone
  <1>4. Begun' = Begun
    BY <1>2 DEF Begun
  <1>5. SourcesInv'
    <2> SUFFICES ASSUME NEW t \in Sources
                 PROVE  SourceOK(client'[t], child'[t], worker'[t], Begun)
      BY <1>4 DEF SourcesInv
    <2>1. CASE t = s
      BY <2>1 DEF Alone
    <2>2. CASE t # s
      <3>1. client'[t] = client[t] /\ child'[t] = child[t] /\ worker'[t] = worker[t]
        BY <2>2 DEF Alone
      <3> QED
        BY <1>1, <3>1 DEF SourcesInv
    <2> QED
      BY <2>1, <2>2
  <1>6. ASSUME NEW t \in Sources
        PROVE  Handled(coord, t, client'[t], child'[t], worker'[t], slot[t], dir[t])
    <2>1. Handled(coord, t, client[t], child[t], worker[t], slot[t], dir[t])
      BY <1>1 DEF CoordinatorInv
    <2>2. CASE t = s
      <3>1. Harmless(client[t], child[t], worker[t], client'[t], child'[t], worker'[t])
        BY <2>2 DEF Alone
      <3> QED
        BY <2>1, <3>1, HandledKeeps
    <2>3. CASE t # s
      <3>1. client'[t] = client[t] /\ child'[t] = child[t] /\ worker'[t] = worker[t]
        BY <2>3 DEF Alone
      <3> QED
        BY <2>1, <3>1
    <2> QED
      BY <2>2, <2>3
  <1>7. CoordinatorInv'
    BY <1>1, <1>2, <1>6 DEF CoordinatorInv
  <1> QED
    BY <1>3, <1>5, <1>7 DEF Inv

\* ... that leaves the recorder alone.
LEMMA OutsideAlone ==
  ASSUME Inv, NEW s \in Sources, UNCHANGED <<coord, slot, worker, dir>>, cancelled' = cancelled,
         NEW d \in Clients, NEW q \in Children,
         client' = [client EXCEPT ![s] = d], child' = [child EXCEPT ![s] = q],
         SourceOK(d, q, worker[s], Begun), Running(q) => Running(child[s]),
         client[s].terminal # "none" => d.terminal # "none"
  PROVE  Alone(s)
  <1>1. /\ client \in [Sources -> Clients] /\ child \in [Sources -> Children]
        /\ worker \in [Sources -> Workers] /\ cancelled \in BOOLEAN
    BY DEF Inv, TypeInv
  <1>2. client'[s] = d /\ child'[s] = q /\ worker'[s] = worker[s]
    BY <1>1
  <1>3. \A t \in Sources \ {s} :
          client'[t] = client[t] /\ child'[t] = child[t] /\ worker'[t] = worker[t]
    BY <1>1
  <1>4. client' \in [Sources -> Clients] /\ child' \in [Sources -> Children]
    BY <1>1
  <1>5. Harmless(client[s], child[s], worker[s], d, q, worker[s])
    BY DEF Harmless
  <1> QED
    BY <1>1, <1>2, <1>3, <1>4, <1>5 DEF Alone

\* What is known of a source before a step.
LEMMA SourceFacts ==
  ASSUME Inv, NEW s \in Sources
  PROVE  /\ client[s] \in Clients /\ child[s] \in Children /\ worker[s] \in Workers
         /\ slot[s] \in {"ok", "failed"} /\ dir[s] \in {"none", "made", "removed"}
         /\ SourceOK(client[s], child[s], worker[s], Begun)
         /\ Handled(coord, s, client[s], child[s], worker[s], slot[s], dir[s])
         /\ worker[s].from \in Nat /\ Legible(child[s], worker[s].from)
         /\ Alive(s) <=> Running(child[s])
         /\ Converged(s) <=> Reaped(client[s], child[s])
         /\ Drained(s) <=> Emptied(worker[s])
  <1>1. /\ client[s] \in Clients /\ child[s] \in Children /\ worker[s] \in Workers
        /\ slot[s] \in {"ok", "failed"} /\ dir[s] \in {"none", "made", "removed"}
    BY DEF Inv, TypeInv
  <1>2. SourceOK(client[s], child[s], worker[s], Begun)
    BY DEF Inv, SourcesInv
  <1>3. worker[s].from \in Nat
    BY <1>1 DEF Workers
  <1>4. Handled(coord, s, client[s], child[s], worker[s], slot[s], dir[s])
    BY DEF Inv, CoordinatorInv
  <1>5. Legible(child[s], worker[s].from)
    BY <1>2, LegibleSource
  <1> QED
    BY <1>1, <1>2, <1>3, <1>4, <1>5 DEF Alive, Running, Converged, Reaped, Drained, Emptied

\* A step of the producer alone.
LEMMA ProducerAlone ==
  ASSUME Inv, NEW s \in Sources, UNCHANGED <<coord, slot, worker, dir>>,
         UNCHANGED <<client, cancelled>>,
         NEW q, child' = [child EXCEPT ![s] = q], Continues(child[s], q, worker[s].from)
  PROVE  Alone(s)
  <1>1. client \in [Sources -> Clients] /\ client[s] \in Clients
    BY DEF Inv, TypeInv
  <1>2. SourceOK(client[s], q, worker[s], Begun)
    BY SourceFacts, ChildKeeps
  <1>3. q \in Children /\ (Running(q) => Running(child[s]))
    BY DEF Continues
  <1>4. client' = [client EXCEPT ![s] = client[s]]
    BY <1>1
  <1>5. cancelled' = cancelled
    OBVIOUS
  <1> QED
    BY <1>1, <1>2, <1>3, <1>4, <1>5, OutsideAlone

\* The reader goroutine of the client is such a step,
LEMMA ClientAlone ==
  ASSUME Inv, NEW s \in Sources, Outside(ClientStep(s))
  PROVE  Alone(s)
  <1> DEFINE c == client[s]
             p == child[s]
             w == worker[s]
  <1>1. /\ c \in Clients /\ p \in Children /\ SourceOK(c, p, w, Begun) /\ w.from \in Nat
        /\ Legible(p, w.from)
    BY SourceFacts
  <1>2. UNCHANGED <<coord, slot, worker, dir>>
    BY DEF Outside
  <1>3. client \in [Sources -> Clients] /\ child \in [Sources -> Children]
    BY DEF Inv, TypeInv
  <1>4. c.queue \in Seq(Records) /\ c.ack \in {"none", "ok", "rejected"} /\ c.cause \in BOOLEAN
    BY <1>1 DEF Clients
  <1>5. <<>> \in Seq(Records) /\ In(<<>>) \subseteq In(p.out)
    BY InEmpty
  <1>6. CASE ClientReads(s)
    <2> DEFINE d == Receive(c, Head(p.out))
               o == IF d.terminal = "none" THEN Tail(p.out) ELSE <<>>
    <2>1. c.terminal = "none" /\ p.out # <<>> /\ client' = [client EXCEPT ![s] = d] /\ cancelled' = cancelled
      BY <1>6 DEF ClientReads
    <2>2. client'[s] = d
      BY <1>3, <2>1
    <2>3. child' = [child EXCEPT ![s] = [p EXCEPT !.out = o]]
      BY <1>3, <1>6, <2>2 DEF ClientReads
    <2>4. d \in Clients /\ SourceOK(d, p, w, Begun)
      BY <1>1, <2>1, ReceiveKeeps
    <2> HIDE DEF d
    <2>5. o \in Seq(Records) /\ In(o) \subseteq In(p.out)
      BY <1>1, <1>5, <2>1, ChildTypes, InTail
    <2> HIDE DEF o
    <2>6. Continues(p, [p EXCEPT !.out = o], w.from)
      BY <1>1, <2>5, OutKeeps
    <2>7. SourceOK(d, [p EXCEPT !.out = o], w, Begun)
      BY <2>4, <2>6, ChildKeeps
    <2>8. [p EXCEPT !.out = o] \in Children /\ (Running([p EXCEPT !.out = o]) => Running(p))
      BY <2>6 DEF Continues
    <2> QED
      BY <1>2, <2>1, <2>3, <2>4, <2>7, <2>8, OutsideAlone
  <1>7. CASE ClientSeesEOF(s)
    <2> DEFINE done == [c EXCEPT !.phase = "complete"]
               d == IF c.phase = "eof" THEN Finish(done, c.cause) ELSE Finish(Fail(c), TRUE)
    <2>1. client' = [client EXCEPT ![s] = d] /\ child' = child /\ cancelled' = cancelled
      BY <1>3, <1>7 DEF ClientSeesEOF
    <2>2. done.queue = c.queue /\ done.ack = c.ack /\ Fail(c).queue = c.queue /\ Fail(c).ack = c.ack
      BY <1>1 DEF Fail, Clients
    <2> HIDE DEF done
    <2>3. /\ d \in Clients /\ d.terminal # "none" /\ d.queue = c.queue /\ d.phase = "init"
          /\ d.pending = "none" /\ ~ Early(d)
      <3>1. CASE c.phase = "eof"
        BY <1>4, <2>2, <3>1, FinishFacts
      <3>2. CASE c.phase # "eof"
        BY <1>4, <2>2, <3>2, FinishFacts
      <3> QED
        BY <3>1, <3>2
    <2> HIDE DEF d
    <2>4. SourceOK(d, p, w, Begun)
      BY <1>1, <2>3, ClientKeeps
    <2>5. child' = [child EXCEPT ![s] = p]
      BY <1>3, <2>1
    <2> QED
      BY <1>1, <1>2, <2>1, <2>3, <2>4, <2>5, OutsideAlone
  <1>8. CASE ClientSeesAbort(s)
    <2> DEFINE d == Finish(c, TRUE)
               o == <<>>
    <2>1. client' = [client EXCEPT ![s] = d] /\ cancelled' = cancelled
      BY <1>8 DEF ClientSeesAbort
    <2>2. child' = [child EXCEPT ![s] = [p EXCEPT !.out = o]]
      BY <1>3, <1>8 DEF ClientSeesAbort
    <2>3. /\ d \in Clients /\ d.terminal # "none" /\ d.queue = c.queue /\ d.phase = "init"
          /\ d.pending = "none" /\ ~ Early(d)
      BY <1>4, FinishFacts
    <2> HIDE DEF d
    <2>4. SourceOK(d, p, w, Begun)
      BY <1>1, <2>3, ClientKeeps
    <2>5. o \in Seq(Records) /\ In(o) \subseteq In(p.out)
      BY <1>5
    <2> HIDE DEF o
    <2>6. Continues(p, [p EXCEPT !.out = o], w.from)
      BY <1>1, <2>5, OutKeeps
    <2>7. SourceOK(d, [p EXCEPT !.out = o], w, Begun)
      BY <2>4, <2>6, ChildKeeps
    <2>8. [p EXCEPT !.out = o] \in Children /\ (Running([p EXCEPT !.out = o]) => Running(p))
      BY <2>6 DEF Continues
    <2> QED
      BY <1>2, <2>1, <2>2, <2>3, <2>7, <2>8, OutsideAlone
  <1> QED
    BY <1>6, <1>7, <1>8 DEF Outside, ClientStep

\* A producer that is asked has the command in its inbox.
LEMMA AskedFacts ==
  ASSUME NEW s, NEW command, child[s] \in Children, Asked(s, command)
  PROVE  child[s].inbox # <<>> /\ command \in In(child[s].inbox)
  BY ChildTypes, InTail DEF Asked

\* ... and every step of the producer,
LEMMA ProducerStepAlone ==
  ASSUME Inv, NEW s \in Sources, Outside(ProducerStep(s))
  PROVE  Alone(s)
  <1> DEFINE p == child[s]
             from == worker[s].from
  <1>1. p \in Children /\ from \in Nat /\ Legible(p, from)
    BY SourceFacts
  <1>2. UNCHANGED <<coord, slot, worker, dir>>
    BY DEF Outside
  <1>3. child \in [Sources -> Children] /\ child[s] = p
    BY DEF Inv, TypeInv
  <1>4. p.out \in Seq(Records) /\ p.script \in Seq(Records) /\ p.items \in Seq(Nat) /\ p.code \in {0, 1}
    BY <1>1, ChildTypes
  <1>5. /\ ACK("READY", TRUE) \in Records /\ ACK("READY", TRUE).type = "ACK"
        /\ ACK("ARM", TRUE) \in Records /\ ACK("ARM", TRUE).type = "ACK"
        /\ ACK("CANCEL", TRUE) \in Records /\ ACK("CANCEL", TRUE).type = "ACK"
        /\ ACK("STOP", TRUE) \in Records /\ ACK("STOP", TRUE).type = "ACK"
    BY RecordFacts DEF Commands
  <1>6. /\ SESSION \in Records /\ ERROR \in Records /\ EOF \in Records
        /\ SESSION.type = "SESSION" /\ ERROR.type = "ERROR" /\ EOF.type = "EOF"
    BY RecordFacts
  <1>7. CASE ServeReady(s)
    <2>1. p.pc = "ready" /\ p.inbox # <<>>
      BY <1>7 DEF ServeReady, Asked
    <2>2. Running(p) /\ p.camera \in {"off", "on", "gone"}
      BY <1>1, <2>1, ChildTypes DEF Running
    <2>3. p = [p EXCEPT !.camera = p.camera]
      BY <1>1 DEF Children
    <2> DEFINE r == ACK("READY", TRUE)
               q == Answer(p, <<r>>, "arm")
               a == Answer([p EXCEPT !.camera = p.camera], <<r>>, "arm")
    <2>4. child' = [child EXCEPT ![s] = q] /\ UNCHANGED <<client, cancelled>>
      BY <1>7 DEF ServeReady
    <2>5. r \in Records /\ r.type # "END"
      BY <1>5
    <2> HIDE DEF r
    <2>6. Continues(p, a, from)
      BY <1>1, <2>1, <2>2, <2>5, AnswerKeeps
    <2>7. a = q
      BY <2>3
    <2> HIDE DEF q, a
    <2> QED
      BY <1>2, <2>4, <2>6, <2>7, ProducerAlone
  <1>8. CASE ServeArm(s)
    <2>1. p.pc = "arm" /\ p.inbox # <<>>
      BY <1>8 DEF ServeArm, Asked
    <2>2. Running(p)
      BY <2>1 DEF Running
    <2> DEFINE r == ACK("ARM", TRUE)
               q == Answer([p EXCEPT !.camera = "on"], <<r>>, "idle")
    <2>4. child' = [child EXCEPT ![s] = q] /\ UNCHANGED <<client, cancelled>>
      BY <1>8 DEF ServeArm
    <2>5. r \in Records /\ r.type # "END"
      BY <1>5
    <2> HIDE DEF r
    <2>6. Continues(p, q, from)
      BY <1>1, <2>1, <2>2, <2>5, AnswerKeeps
    <2> HIDE DEF q
    <2> QED
      BY <1>2, <2>4, <2>6, ProducerAlone
  <1>9. CASE ServeCancel(s)
    <2> DEFINE r == ACK("CANCEL", TRUE)
               script == <<r, EOF>>
               q == LastWords(p, script, 0)
    <2>1. Running(p)
      BY <1>9 DEF ServeCancel, Running
    <2>2. child' = [child EXCEPT ![s] = q] /\ UNCHANGED <<client, cancelled>>
      BY <1>9 DEF ServeCancel, CancelScript
    <2>3. r \in Records /\ r.type # "END"
      BY <1>5
    <2> HIDE DEF r
    <2>4. script \in Seq(Records) /\ In(script) = {r, EOF}
      BY <1>6, <2>3, InTwo
    <2> HIDE DEF script
    <2>5. NoEnd(script)
      BY <1>6, <2>3, <2>4 DEF NoEnd
    <2>6. Continues(p, q, from)
      BY <1>1, <2>1, <2>4, <2>5, NoEndsAreExact, LastWordsKeeps
    <2> HIDE DEF q
    <2> QED
      BY <1>2, <2>2, <2>6, ProducerAlone
  <1>10. CASE MarkBoundary(s)
    <2> DEFINE q == [p EXCEPT !.mark = p.frame]
    <2>1. p.pc = "idle" /\ p.inbox # <<>> /\ "START" \in In(p.inbox)
      BY <1>1, <1>10, AskedFacts DEF MarkBoundary
    <2>2. child' = [child EXCEPT ![s] = q] /\ UNCHANGED <<client, cancelled>>
      BY <1>3, <1>10 DEF MarkBoundary
    <2>3. Continues(p, q, from)
      BY <1>1, <2>1, MarkKeeps
    <2> HIDE DEF q
    <2> QED
      BY <1>2, <2>2, <2>3, ProducerAlone
  <1>11. CASE ServeStart(s)
    <2> DEFINE q == Answer([p EXCEPT !.boundary = p.mark, !.mark = Unset],
                           <<ACK("START", TRUE), SESSION>>, "stream")
    <2>1. p.pc = "idle" /\ p.mark # Unset
      BY <1>11 DEF ServeStart
    <2>2. child' = [child EXCEPT ![s] = q] /\ UNCHANGED <<client, cancelled>>
      BY <1>3, <1>11 DEF ServeStart
    <2>3. Continues(p, q, from)
      BY <1>1, <2>1, StartKeeps
    <2> HIDE DEF q
    <2> QED
      BY <1>2, <2>2, <2>3, ProducerAlone
  <1>12. CASE DiscardPreStart(s)
    <2> DEFINE q == [p EXCEPT !.held = 0]
    <2>1. p.pc = "idle" /\ p.held # 0
      BY <1>12 DEF DiscardPreStart
    <2>2. child' = [child EXCEPT ![s] = q] /\ UNCHANGED <<client, cancelled>>
      BY <1>3, <1>12 DEF DiscardPreStart
    <2>3. Continues(p, q, from)
      BY <1>1, <2>1, DiscardKeeps
    <2> HIDE DEF q
    <2> QED
      BY <1>2, <2>2, <2>3, ProducerAlone
  <1>13. ASSUME Running(p) PROVE Continues(p, FailScript(p), from)
    <2> DEFINE script == <<ERROR, EOF>>
    <2>1. script \in Seq(Records) /\ In(script) = {ERROR, EOF}
      BY <1>6, InTwo
    <2> HIDE DEF script
    <2>2. NoEnd(script)
      BY <1>6, <2>1 DEF NoEnd
    <2>3. Continues(p, LastWords(p, script, 1), from)
      BY <1>1, <1>13, <2>1, <2>2, NoEndsAreExact, LastWordsKeeps
    <2> QED
      BY <2>3 DEF FailScript, script
  <1>14. CASE StreamFrame(s)
    <2> DEFINE sent == [p EXCEPT !.out = Append(p.out, ITEM(p.held)),
                                 !.items = Append(p.items, p.held), !.held = 0]
               q == IF p.held <= p.boundary THEN [p EXCEPT !.held = 0]
                    ELSE IF Len(p.items) >= MaxItems THEN FailScript(p) ELSE sent
    <2>1. p.pc = "stream" /\ p.held # 0
      BY <1>14 DEF StreamFrame
    <2>2. child' = [child EXCEPT ![s] = q] /\ UNCHANGED <<client, cancelled>>
      BY <1>3, <1>14 DEF StreamFrame, Discarded
    <2>3. Running(p)
      BY <2>1 DEF Running
    <2>4. p.held <= p.boundary => Continues(p, [p EXCEPT !.held = 0], from)
      BY <1>1, <2>1, DiscardKeeps
    <2>5. ~ p.held <= p.boundary => Continues(p, sent, from)
      BY <1>1, <2>1, StreamKeeps
    <2>6. Continues(p, FailScript(p), from)
      BY <1>13, <2>3
    <2> HIDE DEF sent
    <2>7. Continues(p, q, from)
      <3>1. CASE p.held <= p.boundary
        BY <2>4, <3>1
      <3>2. CASE ~ p.held <= p.boundary /\ Len(p.items) >= MaxItems
        BY <2>6, <3>2
      <3>3. CASE ~ p.held <= p.boundary /\ ~ Len(p.items) >= MaxItems
        BY <2>5, <3>3
      <3> QED
        BY <3>1, <3>2, <3>3
    <2> HIDE DEF q
    <2> QED
      BY <1>2, <2>2, <2>7, ProducerAlone
  <1>15. CASE CameraLost(s)
    <2> DEFINE q == FailScript(p)
    <2>1. Running(p)
      BY <1>15 DEF CameraLost, Running
    <2>2. child' = [child EXCEPT ![s] = q] /\ UNCHANGED <<client, cancelled>>
      BY <1>3, <1>15 DEF CameraLost
    <2>3. Continues(p, q, from)
      BY <1>13, <2>1
    <2> HIDE DEF q
    <2> QED
      BY <1>2, <2>2, <2>3, ProducerAlone
  <1>16. CASE ServeStop(s)
    <2> DEFINE r == ACK("STOP", TRUE)
               bad == <<r, ERROR, EOF>>
               end == END(p.items)
               good == <<r, end, EOF>>
    <2>1. p.pc = "stream" /\ Running(p) /\ UNCHANGED <<client, cancelled>>
      BY <1>16 DEF ServeStop, Running
    <2>2. \/ child' = [child EXCEPT ![s] = LastWords(p, bad, 1)]
          \/ child' = [child EXCEPT ![s] = LastWords(p, good, 0)]
      BY <1>3, <1>16 DEF ServeStop
    <2>3. r \in Records /\ r.type # "END" /\ end \in Records /\ end.frames = p.items
      BY <1>4, <1>5, RecordFacts
    <2> HIDE DEF r, end
    <2>4. /\ bad \in Seq(Records) /\ In(bad) = {r, ERROR, EOF}
          /\ good \in Seq(Records) /\ In(good) = {r, end, EOF}
      BY <1>6, <2>3, InThree
    <2>5. Consecutive(p.items, from)
      <3>1. CASE p.items = <<>>
        BY <3>1 DEF Consecutive
      <3>2. CASE p.items # <<>>
        BY <1>1, <3>2 DEF Legible, Filmed
      <3> QED
        BY <3>1, <3>2
    <2> HIDE DEF good, bad
    <2>6. EndsExact(bad, from) /\ EndsExact(good, from)
      BY <1>6, <2>3, <2>4, <2>5 DEF EndsExact
    <2>7. ~ Unstarted(p)
      BY <2>1 DEF Unstarted
    <2>8. Continues(p, LastWords(p, bad, 1), from) /\ Continues(p, LastWords(p, good, 0), from)
      BY <1>1, <2>1, <2>4, <2>6, <2>7, LastWordsKeeps
    <2> QED
      BY <1>2, <2>1, <2>2, <2>8, ProducerAlone
  <1>17. CASE ChildWrites(s)
    <2> DEFINE o == p.out \o p.script
               wrote == [p EXCEPT !.out = o, !.script = <<>>]
               on == [p EXCEPT !.out = o, !.script = <<>>, !.pc = p.next, !.next = "none"]
               q == IF p.next = "exit" THEN Gone(wrote, p.code) ELSE on
    <2>1. p.pc = "write" /\ Running(p) /\ UNCHANGED <<client, cancelled>>
      BY <1>17 DEF ChildWrites, Running
    <2>2. wrote.next = p.next /\ wrote.code = p.code /\ wrote.out = o /\ wrote.frame \in Nat
      BY <1>1 DEF Children
    <2>3. [wrote EXCEPT !.pc = wrote.next, !.next = "none"] = on
      BY <1>1, <2>2 DEF Children
    <2>4. child' = [child EXCEPT ![s] = IF wrote.next = "exit" THEN Gone(wrote, wrote.code)
                                        ELSE [wrote EXCEPT !.pc = wrote.next, !.next = "none"]]
      BY <1>3, <1>17 DEF ChildWrites
    <2>5. child' = [child EXCEPT ![s] = q]
      BY <2>2, <2>3, <2>4
    <2>6. o \in Seq(Records) /\ In(o) \subseteq In(p.out) \cup In(p.script)
      BY <1>4, InConcat
    <2>7. EndsExact(o, from) /\ (Unstarted(p) => NoEnd(o))
      BY <1>1, <2>6 DEF Legible, EndsExact, Unstarted, NoEnd
    <2>8. p.next # "exit" => Continues(p, on, from)
      BY <1>1, <2>1, WritesKeeps
    <2> HIDE DEF o, wrote, on
    <2>9. Continues(p, Gone(wrote, p.code), from)
      BY <1>1, <1>4, <2>1, <2>2, <2>6, <2>7, GoneKeeps
    <2>10. Continues(p, q, from)
      BY <2>8, <2>9
    <2> HIDE DEF q
    <2> QED
      BY <1>2, <2>1, <2>5, <2>10, ProducerAlone
  <1>18. CASE ChildBroken(s)
    <2> DEFINE q == Killed(p)
    <2>1. Running(p)
      BY <1>18 DEF ChildBroken, Running
    <2>2. child' = [child EXCEPT ![s] = q] /\ UNCHANGED <<client, cancelled>>
      BY <1>3, <1>18 DEF ChildBroken
    <2>3. Continues(p, q, from)
      BY <1>1, <2>1, KilledKeeps
    <2> HIDE DEF q
    <2> QED
      BY <1>2, <2>2, <2>3, ProducerAlone
  <1> QED
    BY <1>7, <1>8, <1>9, <1>10, <1>11, <1>12, <1>14, <1>15, <1>16, <1>17, <1>18
    DEF Outside, ProducerStep

\* ... a kill by the context, the camera and the faults,
LEMMA EnvironmentAlone ==
  ASSUME Inv, NEW s \in Sources, Outside(ContextKills(s) \/ CameraFrame(s) \/ SourceFault(s))
  PROVE  Alone(s)
  <1> DEFINE p == child[s]
             from == worker[s].from
  <1>1. p \in Children /\ from \in Nat /\ Legible(p, from) /\ (Alive(s) <=> Running(p))
    BY SourceFacts
  <1>2. UNCHANGED <<coord, slot, worker, dir>>
    BY DEF Outside
  <1>3. child \in [Sources -> Children] /\ child[s] = p
    BY DEF Inv, TypeInv
  <1>4. p.out \in Seq(Records) /\ p.script \in Seq(Records)
    BY <1>1, ChildTypes
  <1>5. CASE ContextKills(s)
    <2> DEFINE q == Killed(p)
    <2>1. Running(p)
      BY <1>1, <1>5 DEF ContextKills
    <2>2. child' = [child EXCEPT ![s] = q] /\ UNCHANGED <<client, cancelled>>
      BY <1>3, <1>5 DEF ContextKills
    <2>3. Continues(p, q, from)
      BY <1>1, <2>1, KilledKeeps
    <2> HIDE DEF q
    <2> QED
      BY <1>2, <2>2, <2>3, ProducerAlone
  <1>6. CASE CameraFrame(s)
    <2> DEFINE q == [p EXCEPT !.frame = p.frame + 1, !.held = p.frame + 1]
    <2>1. p.held = 0
      BY <1>6 DEF CameraFrame
    <2>2. child' = [child EXCEPT ![s] = q] /\ UNCHANGED <<client, cancelled>>
      BY <1>3, <1>6 DEF CameraFrame
    <2>3. Continues(p, q, from)
      BY <1>1, <2>1, CameraKeeps
    <2> HIDE DEF q
    <2> QED
      BY <1>2, <2>2, <2>3, ProducerAlone
  <1>7. CASE ArmFails(s)
    <2> DEFINE r == ACK("ARM", FALSE)
               script == <<r, ERROR, EOF>>
               q == LastWords(p, script, 1)
    <2>1. Running(p)
      BY <1>7 DEF ArmFails, Running
    <2>2. child' = [child EXCEPT ![s] = q] /\ UNCHANGED <<client, cancelled>>
      BY <1>3, <1>7 DEF ArmFails
    <2>3. r \in Records /\ r.type = "ACK"
      BY RecordFacts DEF Commands
    <2> HIDE DEF r
    <2>4. script \in Seq(Records) /\ In(script) = {r, ERROR, EOF}
      BY <2>3, InThree, RecordFacts
    <2> HIDE DEF script
    <2>5. NoEnd(script)
      BY <2>3, <2>4, RecordFacts DEF NoEnd
    <2>6. Continues(p, q, from)
      BY <1>1, <2>1, <2>4, <2>5, NoEndsAreExact, LastWordsKeeps
    <2> HIDE DEF q
    <2> QED
      BY <1>2, <2>2, <2>6, ProducerAlone
  <1>8. CASE ChildDies(s)
    <2>1. PICK n \in 0 .. Len(p.script) :
            child' = [child EXCEPT ![s] = Killed([p EXCEPT !.out = p.out \o SubSeq(p.script, 1, n)])]
      BY <1>3, <1>8 DEF ChildDies
    <2> DEFINE half == SubSeq(p.script, 1, n)
               o == p.out \o half
               q == Killed([p EXCEPT !.out = o])
    <2>2. Running(p) /\ UNCHANGED <<client, cancelled>>
      BY <1>1, <1>8 DEF ChildDies
    <2>3. half \in Seq(Records) /\ In(half) \subseteq In(p.script)
      BY <1>4, InPrefix
    <2> HIDE DEF half
    <2>4. o \in Seq(Records) /\ In(o) \subseteq In(p.out) \cup In(p.script)
      BY <1>4, <2>3, InConcat
    <2>5. child' = [child EXCEPT ![s] = q]
      BY <2>1 DEF half
    <2> HIDE DEF o
    <2>6. EndsExact(o, from) /\ (Unstarted(p) => NoEnd(o))
      BY <1>1, <2>4 DEF Legible, EndsExact, Unstarted, NoEnd
    <2>7. [p EXCEPT !.out = o].out = o /\ [p EXCEPT !.out = o].frame \in Nat
      BY <1>1 DEF Children
    <2>8. Continues(p, q, from)
      BY <1>1, <2>2, <2>4, <2>6, <2>7, GoneKeeps DEF Killed
    <2> HIDE DEF q
    <2> QED
      BY <1>2, <2>2, <2>5, <2>8, ProducerAlone
  <1>9. CASE ChildHangs(s)
    <2> DEFINE q == [p EXCEPT !.pc = "stuck"]
    <2>1. Running(p)
      BY <1>9 DEF ChildHangs, Running
    <2>2. child' = [child EXCEPT ![s] = q] /\ UNCHANGED <<client, cancelled>>
      BY <1>3, <1>9 DEF ChildHangs
    <2>3. Continues(p, q, from)
      BY <1>1, <2>1, StuckKeeps
    <2> HIDE DEF q
    <2> QED
      BY <1>2, <2>2, <2>3, ProducerAlone
  <1>10. CASE CameraExits(s)
    <2> DEFINE q == [p EXCEPT !.camera = "gone"]
    <2>1. Running(p)
      BY <1>1, <1>10 DEF CameraExits
    <2>2. child' = [child EXCEPT ![s] = q] /\ UNCHANGED <<client, cancelled>>
      BY <1>3, <1>10 DEF CameraExits
    <2>3. Continues(p, q, from)
      BY <1>1, <2>1, StuckKeeps
    <2> HIDE DEF q
    <2> QED
      BY <1>2, <2>2, <2>3, ProducerAlone
  <1>11. CASE Misbehaves(s)
    <2>1. PICK r \in Rogue : child' = [child EXCEPT ![s] = [p EXCEPT !.out = Append(p.out, r)]]
      BY <1>3, <1>11 DEF Misbehaves
    <2>2. UNCHANGED <<client, cancelled>>
      BY <1>11 DEF Misbehaves
    <2> DEFINE q == [p EXCEPT !.out = Append(p.out, r)]
    <2>3. Continues(p, q, from)
      BY <1>1, RogueKeeps
    <2> HIDE DEF q
    <2>4. child' = [child EXCEPT ![s] = q]
      BY <2>1 DEF q
    <2> QED
      BY <1>2, <2>2, <2>3, <2>4, ProducerAlone
  <1> QED
    BY <1>5, <1>6, <1>7, <1>8, <1>9, <1>10, <1>11 DEF Outside, SourceFault

\* A step of the recorder alone.
LEMMA RecorderAlone ==
  ASSUME Inv, NEW s \in Sources, UNCHANGED <<child, coord, slot, dir>>, cancelled' \in BOOLEAN,
         NEW d \in Clients, NEW v \in Workers,
         client' = [client EXCEPT ![s] = d], worker' = [worker EXCEPT ![s] = v],
         SourceOK(d, child[s], v, Begun),
         Harmless(client[s], child[s], worker[s], d, child[s], v)
  PROVE  Alone(s)
  <1>1. /\ client \in [Sources -> Clients] /\ child \in [Sources -> Children]
        /\ worker \in [Sources -> Workers]
    BY DEF Inv, TypeInv
  <1>2. client'[s] = d /\ child'[s] = child[s] /\ worker'[s] = v
    BY <1>1
  <1>3. \A t \in Sources \ {s} :
          client'[t] = client[t] /\ child'[t] = child[t] /\ worker'[t] = worker[t]
    BY <1>1
  <1>4. client' \in [Sources -> Clients] /\ worker' \in [Sources -> Workers]
    BY <1>1
  <1> QED
    BY <1>1, <1>2, <1>3, <1>4 DEF Alone

\* A broken recorder may cancel the capture; that is all it does to the others.
LEMMA ReportedType ==
  ASSUME NEW s \in Sources, cancelled \in BOOLEAN, Reported(s)
  PROVE  cancelled' \in BOOLEAN
  BY DEF Reported

\* The drain breaks off.
LEMMA BreakAlone ==
  ASSUME Inv, NEW s \in Sources, UNCHANGED <<client, child, coord, slot, dir>>, Reported(s),
         worker' = [worker EXCEPT ![s] = Broken], worker[s].state \in {"read", "sink"}
  PROVE  Alone(s)
  <1>1. client[s] \in Clients /\ SourceOK(client[s], child[s], Broken, Begun)
    BY SourceFacts, BreakKeeps
  <1>2. client \in [Sources -> Clients] /\ cancelled \in BOOLEAN
    BY DEF Inv, TypeInv
  <1>3. client' = [client EXCEPT ![s] = client[s]]
    BY <1>2
  <1>4. Harmless(client[s], child[s], worker[s], client[s], child[s], Broken)
    BY BrokenFacts DEF Harmless
  <1>5. cancelled' \in BOOLEAN
    BY <1>2, ReportedType
  <1> QED
    BY <1>1, <1>3, <1>4, <1>5, BrokenFacts, RecorderAlone

\* ... and the recorder, when it reads,
LEMMA ReadsAlone ==
  ASSUME Inv, NEW s \in Sources, RecorderReads(s)
  PROVE  Alone(s)
  <1> DEFINE c == client[s]
             w == worker[s]
             d == [c EXCEPT !.queue = Tail(c.queue)]
             v == Recorded(w, Head(c.queue))
  <1>1. /\ client \in [Sources -> Clients] /\ worker \in [Sources -> Workers]
        /\ cancelled \in BOOLEAN
    BY DEF Inv, TypeInv
  <1>2. /\ w.state = "read" /\ c.queue # <<>> /\ worker' = [worker EXCEPT ![s] = v]
        /\ client' = [client EXCEPT ![s] = d] /\ UNCHANGED <<child, coord, slot, dir>>
    BY <1>1 DEF RecorderReads
  <1>3. cancelled' \in BOOLEAN
    BY <1>1, ReportedType DEF RecorderReads
  <1>4. c \in Clients /\ child[s] \in Children /\ w \in Workers /\ SourceOK(c, child[s], w, Begun)
    BY SourceFacts
  <1>5. Begun \in BOOLEAN
    BY DEF Begun
  <1>6. /\ d \in Clients /\ v \in Workers /\ SourceOK(d, child[s], v, Begun)
        /\ Harmless(c, child[s], w, d, child[s], v)
    BY <1>2, <1>4, <1>5, RecordedKeeps
  <1> HIDE DEF d, v
  <1> QED
    BY <1>2, <1>3, <1>6, RecorderAlone

\* The recorder goes on, or ends, without a record.
LEMMA MovesAlone ==
  ASSUME Inv, NEW s \in Sources, UNCHANGED <<client, child, coord, slot, dir>>, Reported(s),
         NEW state \in {"read", "done"}, worker[s].state \in {"read", "sink"},
         state = "done" => worker[s].seen = "eof",
         worker' = [worker EXCEPT ![s] = [worker[s] EXCEPT !.state = state]]
  PROVE  Alone(s)
  <1> DEFINE c == client[s]
             w == worker[s]
             p == child[s]
             v == [w EXCEPT !.state = state]
  <1>1. c \in Clients /\ p \in Children /\ w \in Workers /\ SourceOK(c, p, w, Begun)
    BY SourceFacts
  <1>2. client \in [Sources -> Clients] /\ cancelled \in BOOLEAN
    BY DEF Inv, TypeInv
  <1>3. client' = [client EXCEPT ![s] = c] /\ cancelled' \in BOOLEAN
    BY <1>2, ReportedType
  <1>4. /\ v \in Workers /\ v.state = state /\ v.seen = w.seen /\ v.got = w.got /\ v.from = w.from
        /\ v.failed = w.failed /\ v.intentional = w.intentional
    BY <1>1 DEF Workers
  <1>5. worker' = [worker EXCEPT ![s] = v]
    OBVIOUS
  <1> HIDE DEF v
  <1>6. Timely(c, w, Begun) /\ Fresh(c, p, w) /\ Filmed(p, w.from) /\ Announced(c, p, w) /\ Drawn(w)
    BY <1>1 DEF SourceOK
  <1>7. Timely(c, v, Begun) /\ Fresh(c, p, v) /\ Announced(c, p, v) /\ Drawn(v)
    BY <1>4, <1>6 DEF Timely, Fresh, Announced, Drawn
  <1>8. SourceOK(c, p, v, Begun)
    BY <1>4, <1>6, <1>7 DEF SourceOK
  <1>9. Harmless(c, p, w, c, p, v)
    BY <1>4 DEF Harmless
  <1> QED
    BY <1>1, <1>3, <1>4, <1>5, <1>8, <1>9, RecorderAlone

\* ... or does anything else.
LEMMA RecorderStepsAlone ==
  ASSUME Inv, NEW s \in Sources, RecorderStep(s) \/ SinkReturns(s) \/ RecorderFails(s)
  PROVE  Alone(s)
  <1>1. worker \in [Sources -> Workers]
    BY DEF Inv, TypeInv
  <1>2. CASE RecorderFails(s)
    BY <1>2, BreakAlone DEF RecorderFails
  <1>3. CASE SinkReturns(s)
    <2>1. /\ worker[s].state = "sink" /\ Reported(s) /\ UNCHANGED <<client, child, coord, slot, dir>>
          /\ \/ worker' = [worker EXCEPT ![s] = Broken]
             \/ worker' = [worker EXCEPT ![s] = [worker[s] EXCEPT !.state = "read"]]
      BY <1>3 DEF SinkReturns
    <2> QED
      BY <2>1, BreakAlone, MovesAlone
  <1>4. CASE RecorderEnds(s)
    <2>1. /\ worker[s].state = "read" /\ Reported(s) /\ UNCHANGED <<client, child, coord, slot, dir>>
          /\ \/ worker' = [worker EXCEPT ![s] = Broken]
             \/ /\ worker' = [worker EXCEPT ![s] = [worker[s] EXCEPT !.state = "done"]]
                /\ worker[s].seen = "eof"
      BY <1>4 DEF RecorderEnds
    <2> QED
      BY <2>1, BreakAlone, MovesAlone
  <1>5. CASE RecorderReads(s)
    BY <1>5, ReadsAlone
  <1> QED
    BY <1>2, <1>3, <1>4, <1>5 DEF RecorderStep

-----------------------------------------------------------------------------
(* The loops of the coordinator.                                           *)

\* Least is the least member: < on Nat is well founded.
LEMMA LeastSource ==
  ASSUME NEW T \in SUBSET Nat, T # {}
  PROVE  Least(T) \in T /\ \A t \in T : Least(T) <= t
  <1> DEFINE R == OpToRel(<, Nat)
  <1>1. \A x \in Nat, y \in Nat : y < x => <<y, x>> \in R
    BY DEF OpToRel
  <1>2. IsWellFoundedOn(R, Nat)
    BY NatLessThanWellFounded
  <1> HIDE DEF R
  <1>3. PICK x \in T : \A y \in T : ~ (<<y, x>> \in R)
    BY <1>2, WFMin
  <1>4. ASSUME NEW y \in T PROVE x <= y
    <2>1. x \in Nat /\ y \in Nat /\ ~ (<<y, x>> \in R)
      BY <1>3
    <2>2. ~ (y < x)
      BY <1>1, <2>1
    <2> QED
      BY <2>1, <2>2
  <1> QED
    BY <1>4 DEF Least

\* Sources are numbered from 1; 0 is before the first.
LEMMA SourcesFacts == Sources \subseteq Nat /\ 1 \in Sources /\ \A s \in Sources : s > 0 /\ s # 0
  BY ProducerAssumption DEF Sources

Moved(k, op, n) == [k EXCEPT !.op = op, !.pc = FirstPc(op), !.at = n]

\* A loop ends, or goes to the next source that concerns it.
LEMMA LoopFacts ==
  ASSUME NEW k, NEW op, NEW from \in Nat, NEW after
  PROVE  \/ /\ Loop(k, op, from, after) = after
            /\ \A t \in Sources : t > from => ~ Concerned(op, t)
         \/ \E n \in Sources :
              /\ n > from /\ Concerned(op, n)
              /\ \A t \in Sources : t > from /\ t < n => ~ Concerned(op, t)
              /\ Loop(k, op, from, after) = Moved(k, op, n)
  <1> DEFINE todo == {s \in Sources : s > from /\ Concerned(op, s)}
  <1>1. todo \in SUBSET Nat
    BY SourcesFacts
  <1>2. CASE todo = {}
    <2>1. Loop(k, op, from, after) = after
      BY <1>2 DEF Loop
    <2> QED
      BY <1>2, <2>1
  <1>3. CASE todo # {}
    <2> DEFINE n == Least(todo)
    <2>1. n \in todo /\ \A t \in todo : n <= t
      BY <1>1, <1>3, LeastSource
    <2>2. Loop(k, op, from, after) = Moved(k, op, n)
      BY <1>3 DEF Loop, Moved
    <2> HIDE DEF n
    <2>3. ASSUME NEW t \in Sources, t > from, t < n PROVE ~ Concerned(op, t)
      <3>1. t \in Nat /\ n \in Nat
        BY <2>1, SourcesFacts
      <3>2. ~ (n <= t)
        BY <2>3, <3>1
      <3> QED
        BY <2>1, <2>3, <3>2
    <2> QED
      BY <2>1, <2>2, <2>3
  <1> QED
    BY <1>2, <1>3

\* What holds of the sources when the coordinator leaves the one it is at.
Passing(k, cl, dr) ==
  \A t \in Sources :
    /\ t <= k.at => /\ Left(k, cl[t], child[t], worker[t], slot[t], dr[t])
                    /\ Visited(k, t, cl[t], child[t], worker[t], slot[t], dr[t])
    /\ t > k.at /\ k.op = "READY" =>
         worker[t].state = "none" /\ slot[t] = "ok" /\ Reaped(cl[t], child[t])
    /\ t > k.at /\ k.op # "READY" => Left(k, cl[t], child[t], worker[t], slot[t], dr[t])

AllHandled(k, cl, dr) ==
  \A t \in Sources : Handled(k, t, cl[t], child[t], worker[t], slot[t], dr[t])

\* The phases a step can lead to.
PhaseStep(old, new) ==
  \/ new = old
  \/ old = "starting" /\ new = "ready"
  \/ old = "ready" /\ new = "armed"
  \/ old = "armed" /\ new = "started"
  \/ old = "started" /\ new = "finished"
  \/ old # "finished" /\ new = "failed"

\* A position the coordinator may leave.
Leaving(k) ==
  k \in Coordinators /\ k.op # "none" /\ k.phase \in PhaseOf(k.op)

\* Where it arrives is sound.
Arrived(k, j, cl, dr) ==
  j \in Coordinators /\ Positioned(j) /\ AllHandled(j, cl, dr) /\ PhaseStep(k.phase, j.phase)

Pcs == {"idle", "launch", "send", "await", "remove", "collect"} \cup AbortPcs
Ops == {"none", "READY", "ARM", "START", "STOP", "COLLECT", "ABORT"}

\* The fields of a coordinator.
LEMMA CoordinatorTypes ==
  ASSUME NEW k \in Coordinators
  PROVE  /\ k.phase \in {"starting", "ready", "armed", "started", "finished", "failed"}
         /\ k.pc \in Pcs /\ k.op \in Ops /\ k.at \in Nat
         /\ k.fatal \in BOOLEAN /\ k.late \in BOOLEAN /\ k.over \in BOOLEAN
  BY DEF Coordinators, Pcs, Ops

\* The coordinator goes to another place in its operations,
LEMMA MoveFacts ==
  ASSUME NEW k \in Coordinators, NEW op \in Ops, NEW pc \in Pcs, NEW n \in Nat,
         NEW j, j = [k EXCEPT !.op = op, !.pc = pc, !.at = n]
  PROVE  /\ j \in Coordinators /\ j.op = op /\ j.pc = pc /\ j.at = n
         /\ j.phase = k.phase /\ j.fatal = k.fatal
  BY DEF Coordinators, Pcs, Ops

\* ... or back to its caller.
LEMMA BackFacts ==
  ASSUME NEW k \in Coordinators, NEW j,
         NEW phase \in {"starting", "ready", "armed", "started", "finished", "failed"},
         j = Back(k, phase)
  PROVE  /\ j \in Coordinators /\ j.op = "none" /\ j.pc = "idle" /\ j.at = 0
         /\ j.phase = phase /\ j.fatal = k.fatal
  BY DEF Coordinators, Back

\* The loop of an operation reaches source n.
Moves(k, j, op, n) ==
  /\ j \in Coordinators /\ j.op = op /\ j.pc = FirstPc(op) /\ j.at = n
  /\ j.phase = k.phase /\ j.fatal = k.fatal

\* A loop moves as Moves says,
LEMMA LoopMoved ==
  ASSUME NEW k \in Coordinators, NEW op \in Ops \ {"none"}, NEW n \in Sources
  PROVE  Moves(k, Moved(k, op, n), op, n)
  <1> DEFINE first == FirstPc(op)
  <1>1. first \in {"launch", "abort", "collect", "send"}
    BY DEF FirstPc
  <1>2. n \in Nat
    BY SourcesFacts
  <1> HIDE DEF first
  <1>3. first \in Pcs
    BY <1>1 DEF Pcs, AbortPcs
  <1> DEFINE j == [k EXCEPT !.op = op, !.pc = first, !.at = n]
  <1>4. /\ j \in Coordinators /\ j.op = op /\ j.pc = first /\ j.at = n
        /\ j.phase = k.phase /\ j.fatal = k.fatal
    BY <1>2, <1>3 DEF Coordinators, Pcs, Ops
  <1> HIDE DEF j
  <1>5. Moves(k, j, op, n)
    BY <1>4 DEF Moves, first
  <1> QED
    BY <1>5 DEF j, first, Moved

\* ... or is over.
LEMMA LoopMoves ==
  ASSUME NEW k \in Coordinators, NEW op \in Ops \ {"none"}, NEW from \in Nat, NEW after
  PROVE  \/ /\ Loop(k, op, from, after) = after
            /\ \A t \in Sources : t > from => ~ Concerned(op, t)
         \/ \E n \in Sources :
              /\ n > from /\ Concerned(op, n)
              /\ \A t \in Sources : t > from /\ t < n => ~ Concerned(op, t)
              /\ Moves(k, Loop(k, op, from, after), op, n)
  BY LoopFacts, LoopMoved

\* The loop goes on with its next source.
LEMMA NextSource ==
  ASSUME NEW k, NEW cl, NEW dr, Leaving(k), Passing(k, cl, dr),
         NEW n \in Sources, n > k.at, NEW j,
         \A t \in Sources : t > k.at /\ t < n => ~ Concerned(k.op, t),
         Moves(k, j, k.op, n)
  PROVE  Arrived(k, j, cl, dr)
  <1>1. /\ k \in Coordinators /\ k.op \in {"READY", "ARM", "START", "STOP", "COLLECT", "ABORT"}
        /\ k.at \in Nat /\ n \in Nat
    BY SourcesFacts DEF Leaving, Coordinators
  <1>2. /\ FirstPc(k.op) \in {"launch", "abort", "collect", "send"}
        /\ FirstPc(k.op) = "launch" <=> k.op = "READY"
        /\ FirstPc(k.op) = "abort" <=> k.op = "ABORT"
        /\ FirstPc(k.op) \in PcsOf(k.op)
    BY <1>1 DEF FirstPc, PcsOf, AbortPcs
  <1>3. /\ j \in Coordinators /\ j.op = k.op /\ j.pc = FirstPc(k.op) /\ j.at = n
        /\ j.phase = k.phase /\ j.fatal = k.fatal
    BY DEF Moves
  <1>4. Positioned(j)
    BY <1>1, <1>2, <1>3 DEF Positioned, Leaving
  <1>5. k.phase # "finished"
    BY <1>1 DEF Leaving, PhaseOf
  <1>6. ASSUME NEW t \in Sources
        PROVE  Handled(j, t, cl[t], child[t], worker[t], slot[t], dr[t])
    <2>1. t \in Nat
      BY SourcesFacts
    <2>2. CASE t <= k.at
      <3>1. t < n /\ t # n /\ ~ (t > n)
        BY <1>1, <2>1, <2>2
      <3>2. /\ Left(k, cl[t], child[t], worker[t], slot[t], dr[t])
            /\ Visited(k, t, cl[t], child[t], worker[t], slot[t], dr[t])
        BY <2>2 DEF Passing
      <3>3. /\ Left(j, cl[t], child[t], worker[t], slot[t], dr[t])
            /\ Visited(j, t, cl[t], child[t], worker[t], slot[t], dr[t])
        BY <1>3, <3>2 DEF Left, Visited, Lost
      <3>4. ~ Ahead(j, t)
        BY <1>3, <3>1 DEF Ahead
      <3> QED
        BY <1>3, <1>5, <3>1, <3>3, <3>4 DEF Handled
    <2>3. CASE t > k.at /\ t < n
      <3>1. ~ Concerned(k.op, t) /\ t # n /\ ~ (t > n)
        BY <1>1, <2>1, <2>3
      <3>2. k.op \notin {"READY", "COLLECT"}
        BY <3>1 DEF Concerned
      <3>3. Left(k, cl[t], child[t], worker[t], slot[t], dr[t])
        BY <2>3, <3>2 DEF Passing
      <3>4. Left(j, cl[t], child[t], worker[t], slot[t], dr[t])
        BY <1>3, <3>3 DEF Left, Lost
      <3>5. k.op = "ABORT" => worker[t].state = "none"
        BY <3>1 DEF Concerned
      <3>6. Visited(j, t, cl[t], child[t], worker[t], slot[t], dr[t])
        BY <1>3, <3>2, <3>3, <3>5 DEF Visited, Left
      <3>7. ~ Ahead(j, t)
        BY <1>3, <3>2 DEF Ahead
      <3> QED
        BY <1>3, <1>5, <3>1, <3>4, <3>6, <3>7 DEF Handled
    <2>4. CASE t > k.at /\ ~ t < n /\ k.op = "READY"
      <3>1. worker[t].state = "none" /\ slot[t] = "ok" /\ Reaped(cl[t], child[t])
        BY <2>4 DEF Passing
      <3>2. Ahead(j, t)
        BY <1>1, <1>2, <1>3, <2>1, <2>4 DEF Ahead
      <3> QED
        BY <1>3, <1>5, <2>4, <3>1, <3>2 DEF Handled
    <2>5. CASE t > k.at /\ ~ t < n /\ k.op # "READY"
      <3>1. Left(k, cl[t], child[t], worker[t], slot[t], dr[t])
        BY <2>5 DEF Passing
      <3>2. Left(j, cl[t], child[t], worker[t], slot[t], dr[t])
        BY <1>3, <3>1 DEF Left, Lost
      <3>3. j.op # "ABORT" => j.pc \notin AbortPcs \cup {"remove"}
        BY <1>2, <1>3 DEF AbortPcs
      <3>4. j.pc # "abortDrain"
        BY <1>2, <1>3
      <3>5. Current(j, cl[t], child[t], worker[t], slot[t], dr[t])
        BY <3>2, <3>3, <3>4 DEF Left, Current
      <3>6. ~ Ahead(j, t)
        BY <1>3, <2>5 DEF Ahead
      <3> QED
        BY <1>3, <1>5, <2>5, <3>2, <3>5, <3>6 DEF Handled
    <2> QED
      BY <1>1, <2>1, <2>2, <2>3, <2>4, <2>5
  <1> QED
    BY <1>3, <1>4, <1>6 DEF Arrived, AllHandled, PhaseStep

\* The call is over.
LEMMA Returning ==
  ASSUME NEW k, NEW cl, NEW dr, k \in Coordinators, NEW phase,
         phase \in {"ready", "armed", "started", "finished", "failed"},
         PhaseStep(k.phase, phase), Lost(k) => phase = "failed",
         \A t \in Sources :
           /\ Left(k, cl[t], child[t], worker[t], slot[t], dr[t])
           /\ phase = "failed" => ~ Running(child[t])
           /\ phase = "finished" =>
                Accounted(t, cl[t], child[t], worker[t], slot[t], dr[t])
  PROVE  Arrived(k, Back(k, phase), cl, dr)
  <1> DEFINE j == Back(k, phase)
  <1>1. /\ j \in Coordinators /\ j.op = "none" /\ j.pc = "idle" /\ j.at = 0
        /\ j.phase = phase /\ j.fatal = k.fatal
    BY BackFacts
  <1> HIDE DEF j
  <1>2. Positioned(j)
    BY <1>1 DEF Positioned, PhaseOf, PcsOf
  <1>3. ASSUME NEW t \in Sources
        PROVE  Handled(j, t, cl[t], child[t], worker[t], slot[t], dr[t])
    <2>1. t \in Nat /\ t # 0 /\ ~ (t < 0)
      BY SourcesFacts
    <2>2. Left(j, cl[t], child[t], worker[t], slot[t], dr[t])
      BY <1>1 DEF Left, Lost
    <2>3. ~ Ahead(j, t)
      BY <1>1 DEF Ahead
    <2> QED
      BY <1>1, <2>1, <2>2, <2>3 DEF Handled
  <1>4. Arrived(k, j, cl, dr)
    BY <1>1, <1>2, <1>3 DEF Arrived, AllHandled
  <1> QED
    BY <1>4 DEF j

\* abortAllLocked at its first source.
LEMMA FirstAborted ==
  ASSUME NEW k, NEW cl, NEW dr, Leaving(k), Passing(k, cl, dr), k.op # "ABORT",
         NEW n \in Sources, Concerned("ABORT", n), NEW j,
         \A t \in Sources : t > 0 /\ t < n => ~ Concerned("ABORT", t),
         Moves(k, j, "ABORT", n)
  PROVE  Arrived(k, j, cl, dr)
  <1>1. /\ j \in Coordinators /\ j.op = "ABORT" /\ j.pc = "abort" /\ j.at = n
        /\ j.phase = k.phase /\ j.fatal = k.fatal
    BY DEF Moves, FirstPc
  <1>2. /\ k.op \in {"READY", "ARM", "START", "STOP", "COLLECT"} /\ k.at \in Nat
        /\ k.phase \in {"starting", "ready", "armed", "started"}
    BY DEF Leaving, Coordinators, PhaseOf
  <1>3. Positioned(j)
    BY <1>1, <1>2 DEF Positioned, PhaseOf, PcsOf, AbortPcs
  <1>4. Lost(j) /\ j.phase \notin {"failed", "finished"}
    BY <1>1, <1>2 DEF Lost
  <1>5. ASSUME NEW t \in Sources
        PROVE  Handled(j, t, cl[t], child[t], worker[t], slot[t], dr[t])
    <2>1. t \in Nat /\ n \in Nat /\ t > 0
      BY SourcesFacts
    <2>2. /\ worker[t].state = "none" => ~ Running(child[t])
          /\ worker[t].state # "none" /\ slot[t] = "ok" => dr[t] = "made"
      <3>1. CASE t > k.at /\ k.op = "READY"
        BY <3>1 DEF Passing, Reaped
      <3>2. CASE ~ (t > k.at /\ k.op = "READY")
        <4>1. Left(k, cl[t], child[t], worker[t], slot[t], dr[t])
          BY <1>2, <2>1, <3>2 DEF Passing
        <4> QED
          BY <4>1 DEF Left
      <3> QED
        BY <3>1, <3>2
    <2>3. t < n => worker[t].state = "none"
      BY <2>1 DEF Concerned
    <2>4. Left(j, cl[t], child[t], worker[t], slot[t], dr[t])
      BY <1>4, <2>2 DEF Left
    <2>5. t = n => Current(j, cl[t], child[t], worker[t], slot[t], dr[t])
      BY <1>1, <1>4, <2>2 DEF Current, Concerned
    <2>6. t < n => Visited(j, t, cl[t], child[t], worker[t], slot[t], dr[t])
      BY <1>1, <2>2, <2>3 DEF Visited
    <2>7. ~ Ahead(j, t)
      BY <1>1 DEF Ahead
    <2> QED
      BY <1>1, <1>4, <2>1, <2>4, <2>5, <2>6, <2>7 DEF Handled
  <1> QED
    BY <1>1, <1>3, <1>5 DEF Arrived, AllHandled, PhaseStep

\* The capture is given up: whoever has a worker is aborted.
LEMMA AbortingKeeps ==
  ASSUME NEW k, NEW cl, NEW dr, Leaving(k), Passing(k, cl, dr), k.op # "ABORT"
  PROVE  Arrived(k, Aborting(k), cl, dr)
  <1> DEFINE j == Aborting(k)
  <1>1. k \in Coordinators /\ "ABORT" \in Ops \ {"none"} /\ 0 \in Nat
    BY DEF Leaving, Ops
  <1>2. \/ /\ j = Back(k, "failed")
           /\ \A t \in Sources : t > 0 => ~ Concerned("ABORT", t)
        \/ \E n \in Sources :
             /\ n > 0 /\ Concerned("ABORT", n)
             /\ \A t \in Sources : t > 0 /\ t < n => ~ Concerned("ABORT", t)
             /\ Moves(k, j, "ABORT", n)
    BY <1>1, LoopMoves DEF Aborting
  <1> SUFFICES Arrived(k, j, cl, dr)
    OBVIOUS
  <1> HIDE DEF j
  <1>3. CASE j = Back(k, "failed") /\ \A t \in Sources : t > 0 => ~ Concerned("ABORT", t)
    <2>1. /\ k.op \in {"READY", "ARM", "START", "STOP", "COLLECT"} /\ k.at \in Nat
          /\ k.phase \in {"starting", "ready", "armed", "started"}
      BY DEF Leaving, Coordinators, PhaseOf
    <2>2. ASSUME NEW t \in Sources
          PROVE  Running(child[t]) = FALSE /\ worker[t].state = "none"
      <3>1. t \in Nat /\ t > 0
        BY SourcesFacts
      <3>2. worker[t].state = "none"
        BY <1>3, <3>1 DEF Concerned
      <3>3. CASE t > k.at /\ k.op = "READY"
        BY <3>2, <3>3 DEF Passing, Reaped, Running
      <3>4. CASE ~ (t > k.at /\ k.op = "READY")
        <4>1. Left(k, cl[t], child[t], worker[t], slot[t], dr[t])
          BY <2>1, <3>1, <3>4 DEF Passing
        <4> QED
          BY <3>2, <4>1 DEF Left, Running
      <3> QED
        BY <3>2, <3>3, <3>4
    <2> DEFINE b == Back(k, "failed")
    <2>3. /\ b \in Coordinators /\ b.op = "none" /\ b.pc = "idle" /\ b.at = 0
          /\ b.phase = "failed" /\ b.fatal = k.fatal
      BY <1>1, BackFacts
    <2> HIDE DEF b
    <2>4. Positioned(b) /\ Lost(b)
      BY <2>3 DEF Positioned, PhaseOf, PcsOf, Lost
    <2>5. ASSUME NEW t \in Sources
          PROVE  Handled(b, t, cl[t], child[t], worker[t], slot[t], dr[t])
      <3>1. t \in Nat /\ t # 0 /\ ~ (t < 0)
        BY SourcesFacts
      <3>2. Left(b, cl[t], child[t], worker[t], slot[t], dr[t])
        BY <2>2, <2>4 DEF Left
      <3>3. ~ Ahead(b, t)
        BY <2>3 DEF Ahead
      <3> QED
        BY <2>3, <3>1, <3>2, <3>3 DEF Handled
    <2>6. Arrived(k, b, cl, dr)
      BY <2>1, <2>3, <2>4, <2>5 DEF Arrived, AllHandled, PhaseStep
    <2> QED
      BY <1>3, <2>6 DEF b
  <1>4. CASE \E n \in Sources :
               /\ n > 0 /\ Concerned("ABORT", n)
               /\ \A t \in Sources : t > 0 /\ t < n => ~ Concerned("ABORT", t)
               /\ Moves(k, j, "ABORT", n)
    BY <1>4, FirstAborted
  <1> QED
    BY <1>2, <1>3, <1>4

\* Finish(true): after STOP everybody is collected.
LEMMA FirstCollected ==
  ASSUME NEW k, NEW cl, NEW dr, Leaving(k), Passing(k, cl, dr), k.op = "STOP",
         NEW n \in Sources, NEW j,
         \A t \in Sources : t > 0 /\ t < n => ~ Concerned("COLLECT", t),
         Moves(k, j, "COLLECT", n)
  PROVE  Arrived(k, j, cl, dr)
  <1>1. /\ j \in Coordinators /\ j.op = "COLLECT" /\ j.pc = "collect" /\ j.at = n
        /\ j.phase = k.phase /\ j.fatal = k.fatal
    BY DEF Moves, FirstPc
  <1>2. k.phase = "started" /\ k.at \in Nat
    BY DEF Leaving, Coordinators, PhaseOf
  <1>3. Positioned(j)
    BY <1>1, <1>2 DEF Positioned, PhaseOf, PcsOf, AbortPcs
  <1>4. ASSUME NEW t \in Sources
        PROVE  Handled(j, t, cl[t], child[t], worker[t], slot[t], dr[t])
    <2>1. t \in Nat /\ n \in Nat /\ t > 0
      BY SourcesFacts
    <2>2. ~ (t < n)
      BY <2>1 DEF Concerned
    <2>3. Left(k, cl[t], child[t], worker[t], slot[t], dr[t])
      BY <1>2, <2>1 DEF Passing
    <2>4. Left(j, cl[t], child[t], worker[t], slot[t], dr[t])
      BY <1>1, <2>3 DEF Left, Lost
    <2>5. Current(j, cl[t], child[t], worker[t], slot[t], dr[t])
      BY <1>1, <2>4 DEF Left, Current, AbortPcs
    <2>6. ~ Ahead(j, t)
      BY <1>1 DEF Ahead
    <2> QED
      BY <1>1, <1>2, <2>1, <2>2, <2>4, <2>5, <2>6 DEF Handled
  <1> QED
    BY <1>1, <1>3, <1>4 DEF Arrived, AllHandled, PhaseStep

\* What follows a loop.
LEMMA LoopOver ==
  ASSUME NEW k, NEW cl, NEW dr, Leaving(k), Passing(k, cl, dr),
         \A t \in Sources : t > k.at => ~ Concerned(k.op, t)
  PROVE  Arrived(k, AfterLoop(k), cl, dr)
  <1>1. /\ k \in Coordinators /\ k.at \in Nat /\ k.fatal \in BOOLEAN
        /\ k.op \in {"READY", "ARM", "START", "STOP", "COLLECT", "ABORT"}
    BY DEF Leaving, Coordinators
  <1>2. k.op \in {"READY", "COLLECT"} => \A t \in Sources : ~ (t > k.at)
    BY DEF Concerned
  <1>3. ASSUME NEW t \in Sources
        PROVE  Left(k, cl[t], child[t], worker[t], slot[t], dr[t])
    <2>1. t \in Nat
      BY SourcesFacts
    <2>2. CASE t <= k.at
      BY <2>2 DEF Passing
    <2>3. CASE t > k.at
      BY <1>2, <2>3 DEF Passing
    <2> QED
      BY <1>1, <2>1, <2>2, <2>3
  <1>4. CASE k.op = "READY"
    <2>1. AfterLoop(k) = Back(k, "ready") /\ k.phase = "starting" /\ ~ Lost(k)
      BY <1>4 DEF AfterLoop, Leaving, PhaseOf, Lost
    <2>2. PhaseStep(k.phase, "ready")
      BY <2>1 DEF PhaseStep
    <2>3. Arrived(k, Back(k, "ready"), cl, dr)
      BY <1>1, <1>3, <2>1, <2>2, Returning
    <2> QED
      BY <2>1, <2>3
  <1>5. CASE k.op = "ARM"
    <2>1. AfterLoop(k) = Back(k, "armed") /\ k.phase = "ready" /\ ~ Lost(k)
      BY <1>5 DEF AfterLoop, Leaving, PhaseOf, Lost
    <2>2. PhaseStep(k.phase, "armed")
      BY <2>1 DEF PhaseStep
    <2>3. Arrived(k, Back(k, "armed"), cl, dr)
      BY <1>1, <1>3, <2>1, <2>2, Returning
    <2> QED
      BY <2>1, <2>3
  <1>6. CASE k.op = "START"
    <2>1. AfterLoop(k) = Back(k, "started") /\ k.phase = "armed" /\ ~ Lost(k)
      BY <1>6 DEF AfterLoop, Leaving, PhaseOf, Lost
    <2>2. PhaseStep(k.phase, "started")
      BY <2>1 DEF PhaseStep
    <2>3. Arrived(k, Back(k, "started"), cl, dr)
      BY <1>1, <1>3, <2>1, <2>2, Returning
    <2> QED
      BY <2>1, <2>3
  <1>7. CASE k.op = "STOP"
    <2> DEFINE j == Loop(k, "COLLECT", 0, k)
    <2>1. AfterLoop(k) = j
      BY <1>7 DEF AfterLoop
    <2>2. "COLLECT" \in Ops \ {"none"} /\ 0 \in Nat
      BY DEF Ops
    <2>3. \/ \A t \in Sources : t > 0 => ~ Concerned("COLLECT", t)
          \/ \E n \in Sources :
               /\ \A t \in Sources : t > 0 /\ t < n => ~ Concerned("COLLECT", t)
               /\ Moves(k, j, "COLLECT", n)
      BY <1>1, <2>2, LoopMoves
    <2> HIDE DEF j
    <2>4. 1 \in Sources /\ 1 > 0 /\ Concerned("COLLECT", 1)
      BY SourcesFacts DEF Concerned
    <2>5. Arrived(k, j, cl, dr)
      BY <1>7, <2>3, <2>4, FirstCollected
    <2> QED
      BY <2>1, <2>5
  <1>8. CASE k.op = "COLLECT" /\ k.fatal
    <2>1. AfterLoop(k) = Aborting(k)
      BY <1>8 DEF AfterLoop
    <2>2. Arrived(k, Aborting(k), cl, dr)
      BY <1>8, AbortingKeeps
    <2> QED
      BY <2>1, <2>2
  <1>9. CASE k.op = "COLLECT" /\ ~ k.fatal
    <2>1. AfterLoop(k) = Back(k, "finished") /\ k.phase = "started" /\ ~ Lost(k)
      BY <1>9 DEF AfterLoop, Leaving, PhaseOf, Lost
    <2>2. PhaseStep(k.phase, "finished")
      BY <2>1 DEF PhaseStep
    <2>3. ASSUME NEW t \in Sources
          PROVE  Accounted(t, cl[t], child[t], worker[t], slot[t], dr[t])
      <3>1. t \in Nat /\ ~ (t > k.at)
        BY <1>2, <1>9, SourcesFacts
      <3>2. Visited(k, t, cl[t], child[t], worker[t], slot[t], dr[t])
        BY <1>1, <3>1 DEF Passing
      <3> QED
        BY <1>9, <3>2 DEF Visited
    <2>4. Arrived(k, Back(k, "finished"), cl, dr)
      BY <1>1, <1>3, <2>1, <2>2, <2>3, Returning
    <2> QED
      BY <2>1, <2>4
  <1>10. CASE k.op = "ABORT"
    <2>1. AfterLoop(k) = Back(k, "failed") /\ k.phase # "finished"
      BY <1>10 DEF AfterLoop, Leaving, PhaseOf
    <2>2. PhaseStep(k.phase, "failed")
      BY <2>1 DEF PhaseStep
    <2>3. ASSUME NEW t \in Sources PROVE ~ Running(child[t])
      <3>1. t \in Nat
        BY SourcesFacts
      <3>2. CASE t <= k.at
        <4>1. Visited(k, t, cl[t], child[t], worker[t], slot[t], dr[t])
          BY <3>2 DEF Passing
        <4> QED
          BY <1>10, <4>1 DEF Visited
      <3>3. CASE t > k.at
        <4>1. worker[t].state = "none"
          BY <1>10, <3>3 DEF Concerned
        <4> QED
          BY <1>3, <4>1 DEF Left
      <3> QED
        BY <1>1, <3>1, <3>2, <3>3
    <2>4. Arrived(k, Back(k, "failed"), cl, dr)
      BY <1>1, <1>3, <2>2, <2>3, Returning
    <2> QED
      BY <2>1, <2>4
  <1> QED
    BY <1>1, <1>4, <1>5, <1>6, <1>7, <1>8, <1>9, <1>10

\* The coordinator goes on to the next source, or to what follows the last one.
LEMMA AdvancedKeeps ==
  ASSUME NEW k, NEW cl, NEW dr, Leaving(k), Passing(k, cl, dr)
  PROVE  Arrived(k, Advanced(k), cl, dr)
  <1> DEFINE j == Advanced(k)
             op == k.op
  <1>1. k \in Coordinators /\ op \in Ops \ {"none"} /\ k.at \in Nat
    BY DEF Leaving, Coordinators, Ops
  <1>2. \/ /\ j = AfterLoop(k)
           /\ \A t \in Sources : t > k.at => ~ Concerned(op, t)
        \/ \E n \in Sources :
             /\ n > k.at /\ Concerned(op, n)
             /\ \A t \in Sources : t > k.at /\ t < n => ~ Concerned(op, t)
             /\ Moves(k, j, op, n)
    BY <1>1, LoopMoves DEF Advanced
  <1> HIDE DEF j
  <1>3. Arrived(k, j, cl, dr)
    BY <1>2, LoopOver, NextSource
  <1> QED
    BY <1>3 DEF j

-----------------------------------------------------------------------------
(* What the coordinator does to a source.                                  *)

\* Only these fields of the recorder matter to a source in order.
LEMMA WorkerKeeps ==
  ASSUME NEW c, NEW p, NEW w, NEW v, NEW b, SourceOK(c, p, w, b),
         v.seen = w.seen, v.from = w.from, v.got = w.got, v.failed = w.failed,
         v.state = w.state, w.state = "none" => v = w
  PROVE  SourceOK(c, p, v, b)
  BY DEF SourceOK, Timely, Fresh, Announced, Drawn

\* A source in order before Arm is in order after it.
LEMMA LaterKeeps ==
  ASSUME NEW c, NEW p, NEW w, NEW a, NEW b, SourceOK(c, p, w, a), a => b
  PROVE  SourceOK(c, p, w, b)
  BY DEF SourceOK, Timely

\* The types of a client and of a recorder.
LEMMA ClientTypes ==
  ASSUME NEW c \in Clients
  PROVE  /\ c.pending \in Commands \cup {"none"} /\ c.ack \in {"none", "ok", "rejected"}
         /\ c.open \in BOOLEAN /\ c.terminal \in {"none", "ok", "failed"}
  BY DEF Clients

\* The fields of a recorder.
LEMMA WorkerTypes ==
  ASSUME NEW w \in Workers
  PROVE  /\ w.state \in {"none", "read", "sink", "done"} /\ w.got \in Seq(Nat) /\ w.from \in Nat
         /\ w.failed \in BOOLEAN /\ w.intentional \in BOOLEAN /\ w.stop \in BOOLEAN
  BY DEF Workers

\* An answer is taken, or the pipes are closed.
LEMMA QuietClient ==
  ASSUME NEW c \in Clients, NEW p, NEW w, NEW b, SourceOK(c, p, w, b), NEW d,
         \/ d = [c EXCEPT !.ack = "none"]
         \/ d = [c EXCEPT !.open = FALSE]
         \/ d = c
  PROVE  d \in Clients /\ d.terminal = c.terminal /\ SourceOK(d, p, w, b)
  <1>1. /\ d \in Clients /\ d.pending = c.pending /\ d.phase = c.phase /\ d.queue = c.queue
        /\ d.terminal = c.terminal
    BY DEF Clients
  <1>2. d.pending = "START" \/ d.phase \in {"started", "streaming"} => b
    BY <1>1 DEF SourceOK, Timely
  <1>3. (Early(d) => Early(c)) /\ In(d.queue) \subseteq In(c.queue)
    BY <1>1 DEF Early
  <1> QED
    BY <1>1, <1>2, <1>3, ClientKeeps

\* A request is prepared, and breaks or goes out.
LEMMA RequestKeeps ==
  ASSUME NEW c \in Clients, NEW p, NEW w, NEW b, SourceOK(c, p, w, b),
         NEW command \in Commands, Prepared(c, command), c.terminal = "none",
         command = "START" => b, NEW open \in BOOLEAN
  PROVE  LET d == [c EXCEPT !.pending = command, !.open = open]
         IN  d \in Clients /\ d.terminal = "none" /\ SourceOK(d, p, w, b)
  <1> DEFINE d == [c EXCEPT !.pending = command, !.open = open]
  <1>1. /\ d \in Clients /\ d.pending = command /\ d.phase = c.phase /\ d.queue = c.queue
        /\ d.terminal = c.terminal
    BY DEF Clients
  <1> HIDE DEF d
  <1>2. c.pending = "none" /\ CommandAllowed(c.phase, command)
    BY DEF Prepared
  <1>3. d.pending = "START" \/ d.phase \in {"started", "streaming"} => b
    BY <1>1 DEF SourceOK, Timely
  <1>4. Early(d) => Early(c)
    BY <1>1, <1>2 DEF Early, CommandAllowed, Commands
  <1>5. SourceOK(d, p, w, b)
    BY <1>1, <1>3, <1>4, ClientKeeps
  <1> QED
    BY <1>1, <1>5 DEF d

\* START goes out: what is filmed from now on counts.
LEMMA StartSent ==
  ASSUME NEW c \in Clients, NEW p \in Children, NEW w \in Workers, SourceOK(c, p, w, TRUE),
         Prepared(c, "START"), c.terminal = "none", w.state # "none",
         NEW d, d = [c EXCEPT !.pending = "START"],
         NEW q, q = [p EXCEPT !.inbox = Append(p.inbox, "START")],
         NEW v, v = [w EXCEPT !.from = p.frame]
  PROVE  /\ d \in Clients /\ q \in Children /\ v \in Workers /\ d.terminal = "none"
         /\ SourceOK(d, q, v, TRUE)
  <1>1. c.pending = "none" /\ c.phase = "armed"
    BY DEF Prepared, CommandAllowed
  <1>2. /\ d \in Clients /\ d.pending = "START" /\ d.phase = c.phase /\ d.queue = c.queue
        /\ d.terminal = c.terminal
    BY DEF Clients, Commands
  <1>3. "START" \in Commands /\ Append(p.inbox, "START") \in Seq(Commands)
    BY ChildTypes, InAppend DEF Commands
  <1>4. q \in Children /\ p.frame \in Nat /\ p.held \in Nat
    BY <1>3 DEF Children
  <1>5. /\ q.out = p.out /\ q.mark = p.mark /\ q.pc = p.pc /\ q.next = p.next /\ q.held = p.held
        /\ q.items = p.items /\ q.frame = p.frame /\ q.boundary = p.boundary /\ q.script = p.script
    BY DEF Children
  <1>6. /\ v \in Workers /\ v.state = w.state /\ v.seen = w.seen /\ v.got = w.got
        /\ v.failed = w.failed /\ v.from = p.frame
    BY <1>4 DEF Workers
  <1>7. Early(c)
    BY <1>1 DEF Early
  <1>8. Unstarted(p) /\ NoEnd(c.queue) /\ w.seen \notin {"end", "eof"}
    BY <1>7 DEF SourceOK, Fresh
  <1>9. Timely(d, v, TRUE)
    BY DEF Timely
  <1>10. Fresh(d, q, v)
    BY <1>2 DEF Fresh, Early
  <1>11. Filmed(q, v.from)
    <2>1. q.mark = Unset /\ q.pc # "stream" /\ q.next # "stream" /\ q.items = <<>>
      BY <1>5, <1>8 DEF Unstarted
    <2>2. p.held # 0 => p.held = p.frame
      BY DEF SourceOK, Filmed
    <2>3. q.frame >= v.from
      BY <1>4, <1>5, <1>6
    <2> QED
      BY <1>5, <2>1, <2>2, <2>3 DEF Filmed
  <1>12. Announced(d, q, v)
    <2>1. NoEnd(d.queue) /\ NoEnd(q.out) /\ NoEnd(q.script)
      BY <1>2, <1>5, <1>8 DEF Unstarted
    <2> QED
      BY <1>6, <1>8, <2>1, NoEndsAreExact DEF Announced
  <1>13. Drawn(v)
    BY <1>6 DEF SourceOK, Drawn
  <1> QED
    BY <1>2, <1>4, <1>6, <1>9, <1>10, <1>11, <1>12, <1>13 DEF SourceOK

\* A new client and a new producer, with or without a recorder.
LEMMA NewKeeps ==
  /\ NewClient \in Clients /\ NewChild \in Children /\ NoClient \in Clients /\ NoChild \in Children
  /\ NoClient.terminal # "none" /\ ~ Running(NoChild)
  /\ \A b \in BOOLEAN : SourceOK(NewClient, NewChild, NewWorker, b)
  /\ \A b \in BOOLEAN : SourceOK(NewClient, NewChild, NoWorker, b)
  /\ \A b \in BOOLEAN : SourceOK(NoClient, NoChild, NoWorker, b)
  <1>1. <<>> \in Seq(Nat) /\ <<>> \in Seq(Records) /\ <<>> \in Seq(Commands) /\ In(<<>>) = {}
    BY InEmpty
  <1>2. /\ NewClient \in Clients /\ NewClient.queue = <<>> /\ NewClient.pending = "none"
        /\ NewClient.phase = "init"
    BY <1>1 DEF NewClient, Clients
  <1>3. /\ NoClient \in Clients /\ NoClient.queue = <<>> /\ NoClient.pending = "none"
        /\ NoClient.phase = "init" /\ NoClient.terminal = "failed"
    BY <1>1 DEF NoClient, NewClient, Clients
  <1>4. /\ NewChild \in Children /\ NewChild.inbox = <<>> /\ NewChild.out = <<>>
        /\ NewChild.script = <<>> /\ NewChild.items = <<>> /\ NewChild.mark = Unset
        /\ NewChild.pc = "ready" /\ NewChild.next = "none" /\ NewChild.held = 0
    BY <1>1 DEF NewChild, Children
  <1>5. /\ NoChild \in Children /\ NoChild.inbox = <<>> /\ NoChild.out = <<>>
        /\ NoChild.script = <<>> /\ NoChild.items = <<>> /\ NoChild.mark = Unset
        /\ NoChild.pc = "none" /\ NoChild.next = "none" /\ NoChild.held = 0
    BY <1>1 DEF NoChild, NewChild, Children
  <1>6. ASSUME NEW b \in BOOLEAN, NEW c, c.queue = <<>>, c.pending = "none", c.phase = "init",
               NEW p, p.inbox = <<>>, p.out = <<>>, p.script = <<>>, p.items = <<>>,
               p.mark = Unset, p.pc \in {"ready", "none"}, p.next = "none", p.held = 0,
               NEW w, w \in {NewWorker, NoWorker}
        PROVE  SourceOK(c, p, w, b)
    <2>1. w.seen = "nothing" /\ ~ w.failed /\ w.state # "done" /\ (w.state = "none" => w = NoWorker)
      BY <1>6, BrokenFacts
    <2>2. NoEnd(c.queue) /\ NoEnd(p.out) /\ NoEnd(p.script)
      BY <1>1, <1>6 DEF NoEnd
    <2>3. Timely(c, w, b)
      BY <1>1, <1>6, <2>1 DEF Timely
    <2>4. Fresh(c, p, w)
      BY <1>1, <1>6, <2>1, <2>2 DEF Fresh, Unstarted
    <2>5. Filmed(p, w.from)
      BY <1>1, <1>6 DEF Filmed
    <2>6. Announced(c, p, w)
      BY <2>1, <2>2, NoEndsAreExact DEF Announced
    <2>7. Drawn(w)
      BY <2>1 DEF Drawn
    <2> QED
      BY <2>3, <2>4, <2>5, <2>6, <2>7 DEF SourceOK
  <1>7. \A b \in BOOLEAN : SourceOK(NewClient, NewChild, NewWorker, b)
    BY <1>2, <1>4, <1>6
  <1>8. \A b \in BOOLEAN : SourceOK(NewClient, NewChild, NoWorker, b)
    BY <1>2, <1>4, <1>6
  <1>9. \A b \in BOOLEAN : SourceOK(NoClient, NoChild, NoWorker, b)
    BY <1>3, <1>5, <1>6
  <1>10. ~ Running(NoChild)
    BY <1>5 DEF Running
  <1> QED
    BY <1>2, <1>3, <1>4, <1>5, <1>7, <1>8, <1>9, <1>10

-----------------------------------------------------------------------------
(* Steps of the coordinator.                                               *)

\* Source s as the coordinator leaves it, the others as they were.
Touched(s, c, p, w, sl, d) ==
  /\ c \in Clients /\ p \in Children /\ w \in Workers
  /\ sl \in {"ok", "failed"} /\ d \in {"none", "made", "removed"}
  /\ client' = [client EXCEPT ![s] = c] /\ child' = [child EXCEPT ![s] = p]
  /\ worker' = [worker EXCEPT ![s] = w] /\ slot' = [slot EXCEPT ![s] = sl]
  /\ dir' = [dir EXCEPT ![s] = d] /\ cancelled' \in BOOLEAN

\* Whatever it does there.
Kept == Inv' /\ PhaseStep(coord.phase, coord'.phase)

\* A step that touches one source leaves the records of the others alone.
LEMMA TouchedFacts ==
  ASSUME Inv, NEW s \in Sources, NEW c, NEW p, NEW w, NEW sl, NEW d, Touched(s, c, p, w, sl, d)
  PROVE  /\ client'[s] = c /\ child'[s] = p /\ worker'[s] = w /\ slot'[s] = sl /\ dir'[s] = d
         /\ \A t \in Sources : t # s =>
              /\ client'[t] = client[t] /\ child'[t] = child[t] /\ worker'[t] = worker[t]
              /\ slot'[t] = slot[t] /\ dir'[t] = dir[t]
         /\ client' \in [Sources -> Clients] /\ child' \in [Sources -> Children]
         /\ worker' \in [Sources -> Workers] /\ slot' \in [Sources -> {"ok", "failed"}]
         /\ dir' \in [Sources -> {"none", "made", "removed"}] /\ cancelled' \in BOOLEAN
  <1>1. /\ client \in [Sources -> Clients] /\ child \in [Sources -> Children]
        /\ worker \in [Sources -> Workers] /\ slot \in [Sources -> {"ok", "failed"}]
        /\ dir \in [Sources -> {"none", "made", "removed"}]
    BY DEF Inv, TypeInv
  <1> QED
    BY <1>1 DEF Touched

\* The coordinator moves, having touched source s.
LEMMA MovedKeeps ==
  ASSUME Inv, NEW s \in Sources, NEW c, NEW p, NEW w, NEW sl, NEW d, Touched(s, c, p, w, sl, d),
         coord' \in Coordinators, Positioned(coord'), PhaseStep(coord.phase, coord'.phase),
         SourceOK(c, p, w, Begun),
         \A t \in Sources :
           Handled(coord', t, client'[t], child'[t], worker'[t], slot'[t], dir'[t])
  PROVE  Kept
  <1>1. TypeInv'
    BY TouchedFacts DEF TypeInv
  <1>2. Begun => Begun'
    BY DEF Begun, PhaseStep
  <1>3. ASSUME NEW t \in Sources
        PROVE  SourceOK(client'[t], child'[t], worker'[t], Begun')
    <2>1. SourceOK(client[t], child[t], worker[t], Begun)
      BY DEF Inv, SourcesInv
    <2>2. CASE t = s
      <3>1. client'[t] = c /\ child'[t] = p /\ worker'[t] = w
        BY <2>2, TouchedFacts
      <3>2. SourceOK(c, p, w, Begun')
        BY <1>2, LaterKeeps
      <3> QED
        BY <3>1, <3>2
    <2>3. CASE t # s
      <3>1. client'[t] = client[t] /\ child'[t] = child[t] /\ worker'[t] = worker[t]
        BY <2>3, TouchedFacts
      <3>2. SourceOK(client[t], child[t], worker[t], Begun')
        BY <1>2, <2>1, LaterKeeps
      <3> QED
        BY <3>1, <3>2
    <2> QED
      BY <2>2, <2>3
  <1>4. SourcesInv'
    BY <1>3 DEF SourcesInv
  <1>5. CoordinatorInv'
    BY DEF CoordinatorInv
  <1> QED
    BY <1>1, <1>4, <1>5 DEF Inv, Kept

\* The coordinator is at work at one source.
LEMMA AtWork ==
  ASSUME Inv, coord.pc # "idle"
  PROVE  /\ coord \in Coordinators /\ Positioned(coord) /\ Here \in Sources /\ Here \in Nat
         /\ coord.op \in {"READY", "ARM", "START", "STOP", "COLLECT", "ABORT"}
         /\ coord.phase \in PhaseOf(coord.op) /\ coord.pc \in PcsOf(coord.op)
         /\ coord.phase # "finished" /\ Here = coord.at
  <1>1. coord \in Coordinators /\ Positioned(coord)
    BY DEF Inv, TypeInv, CoordinatorInv
  <1>2. coord.op # "none"
    BY <1>1 DEF Positioned, PcsOf
  <1>3. coord.op \in {"READY", "ARM", "START", "STOP", "COLLECT", "ABORT"}
    BY <1>1, <1>2 DEF Coordinators
  <1>4. coord.phase \in PhaseOf(coord.op) /\ coord.pc \in PcsOf(coord.op) /\ coord.at \in Sources
    BY <1>1, <1>2 DEF Positioned
  <1>5. coord.phase # "finished"
    BY <1>3, <1>4 DEF PhaseOf
  <1> QED
    BY <1>1, <1>3, <1>4, <1>5, SourcesFacts DEF Here

\* It stays there.
Stays(k) ==
  /\ k \in Coordinators /\ k.op = coord.op /\ k.phase = coord.phase /\ k.at = coord.at
  /\ k.pc \in PcsOf(coord.op) /\ k.pc # "launch" /\ (coord.fatal => k.fatal)

\* A step at the current source that keeps the coordinator there.
LEMMA StayKeeps ==
  ASSUME Inv, coord.pc # "idle", NEW c, NEW p, NEW w, NEW sl, NEW d,
         Touched(Here, c, p, w, sl, d), Stays(coord'),
         SourceOK(c, p, w, Begun), Current(coord', c, p, w, sl, d)
  PROVE  Kept
  <1> DEFINE k == coord'
  <1>1. /\ k \in Coordinators /\ k.op = coord.op /\ k.phase = coord.phase /\ k.at = Here
        /\ k.pc \in PcsOf(coord.op) /\ k.pc # "launch" /\ (coord.fatal => k.fatal)
    BY DEF Stays, Here
  <1>2. Current(k, c, p, w, sl, d)
    OBVIOUS
  <1> HIDE DEF k
  <1>3. /\ Here \in Sources /\ Here \in Nat /\ coord.phase # "finished" /\ Here = coord.at
        /\ coord.op # "none" /\ coord.phase \in PhaseOf(coord.op)
    BY AtWork
  <1>4. Positioned(k)
    BY <1>1, <1>3 DEF Positioned
  <1>5. ASSUME NEW t \in Sources
        PROVE  Handled(k, t, client'[t], child'[t], worker'[t], slot'[t], dir'[t])
    <2>1. t \in Nat
      BY SourcesFacts
    <2>2. CASE t = Here
      <3>1. /\ client'[t] = c /\ child'[t] = p /\ worker'[t] = w /\ slot'[t] = sl /\ dir'[t] = d
        BY <2>2, <1>3, TouchedFacts
      <3>2. ~ Ahead(k, t) /\ ~ (t < k.at) /\ t = k.at /\ k.phase # "finished"
        BY <1>1, <1>3, <2>1, <2>2 DEF Ahead
      <3>3. Handled(k, t, c, p, w, sl, d)
        BY <1>2, <3>2 DEF Handled
      <3> QED
        BY <3>1, <3>3
    <2>3. CASE t # Here
      <3>1. /\ client'[t] = client[t] /\ child'[t] = child[t] /\ worker'[t] = worker[t]
            /\ slot'[t] = slot[t] /\ dir'[t] = dir[t]
        BY <2>3, <1>3, TouchedFacts
      <3>2. Handled(coord, t, client[t], child[t], worker[t], slot[t], dir[t])
        BY SourceFacts
      <3>3. Ahead(k, t) <=> Ahead(coord, t)
        BY <1>1, <1>3, <2>3 DEF Ahead
      <3>4. /\ Left(coord, client[t], child[t], worker[t], slot[t], dir[t])
               => Left(k, client[t], child[t], worker[t], slot[t], dir[t])
            /\ Visited(coord, t, client[t], child[t], worker[t], slot[t], dir[t])
               => Visited(k, t, client[t], child[t], worker[t], slot[t], dir[t])
        BY <1>1 DEF Left, Visited, Lost
      <3>5. Handled(k, t, client[t], child[t], worker[t], slot[t], dir[t])
        BY <1>1, <1>3, <2>3, <3>2, <3>3, <3>4 DEF Handled
      <3> QED
        BY <3>1, <3>5
    <2> QED
      BY <2>2, <2>3
  <1>6. PhaseStep(coord.phase, k.phase)
    BY <1>1 DEF PhaseStep
  <1> QED
    BY <1>1, <1>3, <1>4, <1>5, <1>6, MovedKeeps DEF k

\* It leaves the source for k's next one.
Passes(k) ==
  /\ k \in Coordinators /\ k.op = coord.op /\ k.phase = coord.phase /\ k.at = coord.at
  /\ (coord.fatal => k.fatal)

\* A step after which the coordinator may leave the current source.
LEMMA PassesKeeps ==
  ASSUME Inv, coord.pc # "idle", NEW c, NEW d,
         Touched(Here, c, child[Here], worker[Here], slot[Here], d),
         NEW k, Passes(k),
         Left(k, c, child[Here], worker[Here], slot[Here], d),
         Visited(k, Here, c, child[Here], worker[Here], slot[Here], d)
  PROVE  /\ Leaving(k) /\ Passing(k, client', dir')
         /\ child' = child /\ worker' = worker /\ slot' = slot
  <1>1. /\ k \in Coordinators /\ k.op = coord.op /\ k.phase = coord.phase /\ k.at = Here
        /\ (coord.fatal => k.fatal)
    BY DEF Passes, Here
  <1>2. /\ Here \in Sources /\ Here \in Nat /\ Here = coord.at
        /\ coord.op # "none" /\ coord.phase \in PhaseOf(coord.op)
    BY AtWork
  <1>3. Leaving(k)
    BY <1>1, <1>2 DEF Leaving
  <1>4. child' = child /\ worker' = worker /\ slot' = slot
    <2>1. /\ child \in [Sources -> Children]
          /\ worker \in [Sources -> Workers] /\ slot \in [Sources -> {"ok", "failed"}]
      BY DEF Inv, TypeInv
    <2> QED
      BY <2>1 DEF Touched
  <1>5. ASSUME NEW t \in Sources
        PROVE  /\ t <= k.at => /\ Left(k, client'[t], child[t], worker[t], slot[t], dir'[t])
                               /\ Visited(k, t, client'[t], child[t], worker[t], slot[t], dir'[t])
               /\ t > k.at /\ k.op = "READY" =>
                    worker[t].state = "none" /\ slot[t] = "ok" /\ Reaped(client'[t], child[t])
               /\ t > k.at /\ k.op # "READY" =>
                    Left(k, client'[t], child[t], worker[t], slot[t], dir'[t])
    <2>1. t \in Nat
      BY SourcesFacts
    <2>2. CASE t = Here
      <3>1. client'[t] = c /\ dir'[t] = d
        BY <2>2, <1>2, TouchedFacts
      <3> QED
        BY <1>1, <1>2, <2>1, <2>2, <3>1
    <2>3. CASE t # Here
      <3>1. client'[t] = client[t] /\ dir'[t] = dir[t]
        BY <2>3, <1>2, TouchedFacts
      <3>2. Handled(coord, t, client[t], child[t], worker[t], slot[t], dir[t])
        BY SourceFacts
      <3>3. /\ Left(coord, client[t], child[t], worker[t], slot[t], dir[t])
               => Left(k, client[t], child[t], worker[t], slot[t], dir[t])
            /\ Visited(coord, t, client[t], child[t], worker[t], slot[t], dir[t])
               => Visited(k, t, client[t], child[t], worker[t], slot[t], dir[t])
        BY <1>1 DEF Left, Visited, Lost
      <3>4. CASE t < Here
        <4>1. ~ Ahead(coord, t) /\ t < coord.at /\ t # coord.at /\ ~ (t > k.at)
          BY <1>1, <1>2, <2>1, <3>4 DEF Ahead
        <4> QED
          BY <3>1, <3>2, <3>3, <4>1 DEF Handled
      <3>5. CASE t > Here
        <4>1. (Ahead(coord, t) <=> coord.op = "READY") /\ t # coord.at /\ ~ (t <= k.at)
          BY <1>1, <1>2, <2>1, <3>5 DEF Ahead
        <4> QED
          BY <1>1, <3>1, <3>2, <3>3, <4>1 DEF Handled
      <3> QED
        BY <1>2, <2>1, <2>3, <3>4, <3>5
    <2> QED
      BY <2>2, <2>3
  <1>6. Passing(k, client', dir')
    BY <1>5 DEF Passing
  <1> QED
    BY <1>3, <1>4, <1>6

\* Wherever it arrives.
LEMMA ArrivalKeeps ==
  ASSUME Inv, NEW s \in Sources, NEW c, NEW d,
         Touched(s, c, child[s], worker[s], slot[s], d),
         NEW k, k.phase = coord.phase,
         SourceOK(c, child[s], worker[s], Begun),
         child' = child, worker' = worker, slot' = slot,
         Arrived(k, coord', client', dir')
  PROVE  Kept
  <1>1. coord' \in Coordinators /\ Positioned(coord') /\ PhaseStep(coord.phase, coord'.phase)
    BY DEF Arrived
  <1>2. \A t \in Sources :
          Handled(coord', t, client'[t], child'[t], worker'[t], slot'[t], dir'[t])
    BY DEF Arrived, AllHandled
  <1> QED
    BY <1>1, <1>2, MovedKeeps

-----------------------------------------------------------------------------
(* The steps that stay at the source.                                      *)

\* What is known of the source the coordinator is at.
LEMMA HereFacts ==
  ASSUME Inv, coord.pc # "idle"
  PROVE  /\ Here \in Sources /\ Here = coord.at
         /\ client[Here] \in Clients /\ child[Here] \in Children /\ worker[Here] \in Workers
         /\ slot[Here] \in {"ok", "failed"} /\ dir[Here] \in {"none", "made", "removed"}
         /\ SourceOK(client[Here], child[Here], worker[Here], Begun)
         /\ worker[Here].from \in Nat /\ Legible(child[Here], worker[Here].from)
         /\ Alive(Here) <=> Running(child[Here])
         /\ Converged(Here) <=> Reaped(client[Here], child[Here])
         /\ Drained(Here) <=> Emptied(worker[Here])
         /\ coord.pc # "launch" =>
              Current(coord, client[Here], child[Here], worker[Here], slot[Here], dir[Here])
         /\ coord.pc = "launch" =>
              /\ worker[Here] = NoWorker /\ slot[Here] = "ok" /\ coord.op = "READY"
              /\ Reaped(client[Here], child[Here])
  <1>1. Here \in Sources /\ Here = coord.at /\ coord.pc \in PcsOf(coord.op)
        /\ coord.op \in {"READY", "ARM", "START", "STOP", "COLLECT", "ABORT"} /\ Here \in Nat
    BY AtWork
  <1>2. Handled(coord, Here, client[Here], child[Here], worker[Here], slot[Here], dir[Here])
    BY <1>1, SourceFacts
  <1>3. coord.pc = "launch" => coord.op = "READY"
    BY <1>1 DEF PcsOf, AbortPcs
  <1>4. coord.pc # "launch" => ~ Ahead(coord, Here)
    BY <1>1 DEF Ahead
  <1>5. coord.pc = "launch" => Ahead(coord, Here)
    BY <1>1, <1>3 DEF Ahead
  <1>6. SourceOK(client[Here], child[Here], worker[Here], Begun)
    BY <1>1, SourceFacts
  <1>7. coord.pc = "launch" => worker[Here] = NoWorker
    BY <1>2, <1>5, <1>6 DEF Handled, SourceOK, Drawn
  <1> QED
    BY <1>1, <1>2, <1>3, <1>4, <1>5, <1>7, SourceFacts DEF Handled

\* Which operations get to which point.
LEMMA PcFacts ==
  ASSUME Inv, coord.pc # "idle"
  PROVE  /\ coord.pc = "launch" => coord.op = "READY"
         /\ coord.pc \in {"send", "await"} => coord.op \in {"READY", "ARM", "START", "STOP"}
         /\ coord.pc = "collect" => coord.op = "COLLECT"
         /\ coord.pc = "remove" => coord.op \in {"READY", "ARM", "START", "COLLECT"}
         /\ coord.op # "ABORT" => coord.phase \in {"starting", "ready", "armed", "started"}
         /\ coord.op = "START" => Begun
         /\ AbortPcs \subseteq PcsOf(coord.op)
         /\ coord.op \notin {"STOP", "ABORT"} => "remove" \in PcsOf(coord.op)
         /\ coord.pc = "send" => "await" \in PcsOf(coord.op)
         /\ coord.op = "READY" => "send" \in PcsOf(coord.op)
  <1>1. /\ coord.pc \in PcsOf(coord.op) /\ coord.phase \in PhaseOf(coord.op)
        /\ coord.op \in {"READY", "ARM", "START", "STOP", "COLLECT", "ABORT"}
    BY AtWork
  <1>2. CASE coord.op = "READY"
    BY <1>1, <1>2 DEF PcsOf, PhaseOf, AbortPcs
  <1>3. CASE coord.op = "ARM"
    BY <1>1, <1>3 DEF PcsOf, PhaseOf, AbortPcs
  <1>4. CASE coord.op = "START"
    BY <1>1, <1>4 DEF PcsOf, PhaseOf, AbortPcs, Begun
  <1>5. CASE coord.op = "STOP"
    BY <1>1, <1>5 DEF PcsOf, PhaseOf, AbortPcs
  <1>6. CASE coord.op = "COLLECT"
    BY <1>1, <1>6 DEF PcsOf, PhaseOf, AbortPcs
  <1>7. CASE coord.op = "ABORT"
    BY <1>1, <1>7 DEF PcsOf, PhaseOf, AbortPcs
  <1> QED
    BY <1>1, <1>2, <1>3, <1>4, <1>5, <1>6, <1>7

\* A step that touches nothing of a source touches it trivially.
LEMMA Untouched ==
  ASSUME Inv, NEW s \in Sources
  PROVE  /\ client = [client EXCEPT ![s] = client[s]] /\ child = [child EXCEPT ![s] = child[s]]
         /\ worker = [worker EXCEPT ![s] = worker[s]] /\ slot = [slot EXCEPT ![s] = slot[s]]
         /\ dir = [dir EXCEPT ![s] = dir[s]] /\ cancelled \in BOOLEAN /\ coord \in Coordinators
  BY DEF Inv, TypeInv

\* Begun is a truth value.
LEMMA BegunType == Begun \in BOOLEAN
  BY DEF Begun

\* Start launches a source, or fails to.
LEMMA LaunchKeeps ==
  ASSUME Inv, Launch \/ (Unlaunched /\ cancelled' = cancelled) \/ LaunchUnowned
  PROVE  Kept
  <1>1. coord.pc = "launch" /\ coord.pc # "idle"
    BY DEF Launch, Unlaunched, LaunchUnowned, At
  <1>2. /\ worker[Here] = NoWorker /\ slot[Here] = "ok" /\ coord.op = "READY"
        /\ Reaped(client[Here], child[Here]) /\ Here \in Sources
        /\ SourceOK(client[Here], child[Here], worker[Here], Begun)
        /\ client[Here] \in Clients /\ child[Here] \in Children /\ worker[Here] \in Workers
        /\ dir[Here] \in {"none", "made", "removed"}
    BY <1>1, HereFacts
  <1>3. /\ client = [client EXCEPT ![Here] = client[Here]] /\ child = [child EXCEPT ![Here] = child[Here]]
        /\ worker = [worker EXCEPT ![Here] = worker[Here]] /\ slot = [slot EXCEPT ![Here] = slot[Here]]
        /\ dir = [dir EXCEPT ![Here] = dir[Here]] /\ cancelled \in BOOLEAN /\ coord \in Coordinators
    BY <1>2, Untouched
  <1>4. coord.phase # "failed" /\ AbortPcs \subseteq PcsOf(coord.op)
        /\ "remove" \in PcsOf(coord.op) /\ "send" \in PcsOf(coord.op)
    BY <1>1, <1>2, PcFacts
  <1>5. "send" \in Pcs /\ "remove" \in Pcs /\ "abort" \in Pcs /\ "abort" \in AbortPcs
        /\ "send" \notin AbortPcs
    BY DEF Pcs, AbortPcs
  <1>6. CASE Launch
    <2>1. /\ coord' = [coord EXCEPT !.pc = "send", !.late = FALSE]
          /\ Touched(Here, NewClient, NewChild, NewWorker, "ok", "made")
      BY <1>2, <1>3, <1>6, NewKeeps, BrokenFacts DEF Launch, Touched
    <2>2. /\ coord' \in Coordinators /\ coord'.pc = "send" /\ coord'.op = coord.op
          /\ coord'.phase = coord.phase /\ coord'.at = coord.at /\ (coord.fatal => coord'.fatal)
      BY <1>3, <2>1 DEF Coordinators, AbortPcs
    <2>3. Stays(coord')
      BY <1>4, <2>2 DEF Stays
    <2>4. Current(coord', NewClient, NewChild, NewWorker, "ok", "made")
      BY <1>2, <1>4, <1>5, <2>2, BrokenFacts DEF Current
    <2>5. SourceOK(NewClient, NewChild, NewWorker, Begun)
      BY NewKeeps, BegunType
    <2> QED
      BY <1>1, <2>1, <2>3, <2>4, <2>5, StayKeeps
  <1>7. CASE Unlaunched /\ cancelled' = cancelled
    <2>1. /\ coord' = [coord EXCEPT !.pc = "remove"]
          /\ Touched(Here, client[Here], child[Here], worker[Here], "failed", dir[Here])
      BY <1>2, <1>3, <1>7 DEF Unlaunched, Touched, Go
    <2>2. /\ coord' \in Coordinators /\ coord'.pc = "remove" /\ coord'.op = coord.op
          /\ coord'.phase = coord.phase /\ coord'.at = coord.at /\ (coord.fatal => coord'.fatal)
      BY <1>3, <2>1 DEF Coordinators, AbortPcs
    <2>3. Stays(coord')
      BY <1>4, <2>2 DEF Stays
    <2>4. Current(coord', client[Here], child[Here], worker[Here], "failed", dir[Here])
      BY <1>2, <1>4, <2>2, BrokenFacts DEF Current, Reaped, Emptied
    <2> QED
      BY <1>1, <1>2, <2>1, <2>3, <2>4, StayKeeps
  <1>8. CASE LaunchUnowned
    <2>1. /\ coord' = [coord EXCEPT !.pc = "abort"]
          /\ Touched(Here, NewClient, NewChild, worker[Here], "failed", "made")
      BY <1>2, <1>3, <1>8, NewKeeps DEF LaunchUnowned, Touched, Go
    <2>2. /\ coord' \in Coordinators /\ coord'.pc = "abort" /\ coord'.op = coord.op
          /\ coord'.phase = coord.phase /\ coord'.at = coord.at /\ (coord.fatal => coord'.fatal)
      BY <1>3, <2>1 DEF Coordinators, AbortPcs
    <2>3. Stays(coord')
      BY <1>4, <1>5, <2>2 DEF Stays
    <2>4. Current(coord', NewClient, NewChild, worker[Here], "failed", "made")
      BY <1>2, <1>4, <2>2, BrokenFacts DEF Current
    <2>5. SourceOK(NewClient, NewChild, worker[Here], Begun)
      BY <1>2, NewKeeps, BegunType
    <2> QED
      BY <1>1, <2>1, <2>3, <2>4, <2>5, StayKeeps
  <1> QED
    BY <1>6, <1>7, <1>8

\* The client after a request.
LEMMA RequestForms ==
  ASSUME Inv, NEW s \in Sources, NEW command \in Commands, command = "START" => Begun
  PROVE  /\ CommandSent(s, command) =>
              LET d == [client[s] EXCEPT !.pending = command]
                  q == [child[s] EXCEPT !.inbox = Append(child[s].inbox, command)]
              IN  /\ client' = [client EXCEPT ![s] = d] /\ d \in Clients /\ d.terminal = "none"
                  /\ SourceOK(d, child[s], worker[s], Begun)
                  /\ client[s].terminal = "none" /\ Prepared(client[s], command)
                  /\ child' = [child EXCEPT ![s] = q] /\ Running(child[s])
         /\ CommandBreaks(s, command) =>
              LET d == [client[s] EXCEPT !.pending = command, !.open = FALSE]
              IN  /\ client' = [client EXCEPT ![s] = d] /\ d \in Clients /\ d.terminal = "none"
                  /\ SourceOK(d, child[s], worker[s], Begun)
                  /\ client[s].terminal = "none" /\ child' = child
  <1> DEFINE c == client[s]
             d == [c EXCEPT !.pending = command]
             e == [c EXCEPT !.pending = command, !.open = FALSE]
             q == [child[s] EXCEPT !.inbox = Append(child[s].inbox, command)]
  <1>1. /\ client \in [Sources -> Clients] /\ c \in Clients /\ child \in [Sources -> Children]
        /\ SourceOK(c, child[s], worker[s], Begun) /\ (Alive(s) <=> Running(child[s]))
    BY SourceFacts DEF Inv, TypeInv
  <1>2. CASE CommandSent(s, command)
    <2>1. c.terminal = "none" /\ Prepared(c, command) /\ c.open /\ Running(child[s])
      BY <1>1, <1>2 DEF CommandSent
    <2>2. client' = [client EXCEPT ![s] = d] /\ child' = [child EXCEPT ![s] = q]
      BY <1>1, <1>2 DEF CommandSent
    <2> DEFINE f == [c EXCEPT !.pending = command, !.open = TRUE]
    <2>3. d = f
      BY <1>1, <2>1 DEF Clients
    <2>4. f \in Clients /\ f.terminal = "none" /\ SourceOK(f, child[s], worker[s], Begun)
      BY <1>1, <2>1, RequestKeeps
    <2>5. ~ CommandBreaks(s, command)
      BY <1>1, <2>1 DEF CommandBreaks
    <2> HIDE DEF f
    <2> QED
      BY <2>1, <2>2, <2>3, <2>4, <2>5
  <1>3. CASE CommandBreaks(s, command)
    <2>1. c.terminal = "none" /\ Prepared(c, command) /\ child' = child
      BY <1>1, <1>3 DEF CommandBreaks
    <2>2. client' = [client EXCEPT ![s] = e]
      BY <1>1, <1>3 DEF CommandBreaks
    <2>3. e \in Clients /\ e.terminal = "none" /\ SourceOK(e, child[s], worker[s], Begun)
      BY <1>1, <2>1, RequestKeeps
    <2>4. ~ CommandSent(s, command)
      BY <1>1, <1>3 DEF CommandBreaks, CommandSent
    <2> QED
      BY <2>1, <2>2, <2>3, <2>4
  <1> QED
    BY <1>2, <1>3

\* The client after an answer, or after its context has ended.
LEMMA AnswerForms ==
  ASSUME Inv, NEW s \in Sources, CommandAnswered(s) \/ CommandFails(s) \/ CommandExpires(s)
  PROVE  \E d \in Clients :
           /\ client' = [client EXCEPT ![s] = d] /\ d.terminal = client[s].terminal
           /\ SourceOK(d, child[s], worker[s], Begun)
  <1> DEFINE c == client[s]
  <1>1. client \in [Sources -> Clients] /\ c \in Clients /\ SourceOK(c, child[s], worker[s], Begun)
    BY SourceFacts DEF Inv, TypeInv
  <1>2. \/ client' = [client EXCEPT ![s] = [c EXCEPT !.ack = "none"]]
        \/ client' = [client EXCEPT ![s] = [c EXCEPT !.open = FALSE]]
        \/ client' = [client EXCEPT ![s] = c]
    BY <1>1 DEF CommandAnswered, CommandFails, CommandExpires
  <1>3. ASSUME NEW d, \/ d = [c EXCEPT !.ack = "none"]
                      \/ d = [c EXCEPT !.open = FALSE]
                      \/ d = c
        PROVE  d \in Clients /\ d.terminal = c.terminal /\ SourceOK(d, child[s], worker[s], Begun)
    BY <1>1, <1>3, QuietClient
  <1>4. PICK d : /\ client' = [client EXCEPT ![s] = d]
                 /\ \/ d = [c EXCEPT !.ack = "none"]
                    \/ d = [c EXCEPT !.open = FALSE]
                    \/ d = c
    BY <1>2
  <1> QED
    BY <1>3, <1>4

\* GiveUp of the source the coordinator is at.
LEMMA GiveUpKeeps ==
  ASSUME Inv, coord.pc \in {"send", "await"}, NEW late \in BOOLEAN, GiveUp(late),
         NEW d \in Clients, client' = [client EXCEPT ![Here] = d],
         SourceOK(d, child[Here], worker[Here], Begun),
         UNCHANGED <<child, cancelled, worker, dir>>
  PROVE  Kept
  <1>1. coord.pc # "idle" /\ coord.pc # "launch" /\ coord.pc \notin AbortPcs
    BY DEF AbortPcs
  <1>2. /\ Here \in Sources /\ worker[Here] \in Workers /\ child[Here] \in Children
        /\ dir[Here] \in {"none", "made", "removed"}
        /\ Current(coord, client[Here], child[Here], worker[Here], slot[Here], dir[Here])
    BY <1>1, HereFacts
  <1>3. /\ child = [child EXCEPT ![Here] = child[Here]]
        /\ worker = [worker EXCEPT ![Here] = worker[Here]]
        /\ dir = [dir EXCEPT ![Here] = dir[Here]] /\ cancelled \in BOOLEAN /\ coord \in Coordinators
    BY <1>2, Untouched
  <1>4. coord.phase # "failed" /\ AbortPcs \subseteq PcsOf(coord.op) /\ coord.op # "ABORT"
    BY <1>1, PcFacts
  <1>5. coord' = [coord EXCEPT !.pc = "abort", !.late = late]
        /\ Touched(Here, d, child[Here], worker[Here], "failed", dir[Here])
    BY <1>2, <1>3 DEF GiveUp, Touched
  <1>6. /\ coord' \in Coordinators /\ coord'.pc = "abort" /\ coord'.op = coord.op
        /\ coord'.phase = coord.phase /\ coord'.at = coord.at /\ (coord.fatal => coord'.fatal)
    BY <1>3, <1>5 DEF Coordinators, AbortPcs
  <1>7. Stays(coord')
    BY <1>4, <1>6 DEF Stays, AbortPcs
  <1>8. Current(coord', d, child[Here], worker[Here], "failed", dir[Here])
    <2>1. worker[Here].state = "none" => ~ Running(child[Here])
      BY <1>1, <1>2 DEF Current, AbortPcs
    <2> QED
      BY <1>4, <1>6, <2>1 DEF Current
  <1> QED
    BY <1>1, <1>5, <1>7, <1>8, StayKeeps

\* A command is sent to the current source.
LEMMA SendKeeps ==
  ASSUME Inv, Send
  PROVE  Kept
  <1> DEFINE op == coord.op
             c == client[Here]
             p == child[Here]
             w == worker[Here]
  <1>1. coord.pc = "send" /\ coord.pc # "idle" /\ CommandSent(Here, op)
        /\ coord' = [coord EXCEPT !.pc = "await"] /\ UNCHANGED <<cancelled, faults, slot, dir>>
    BY DEF Send, At, Go
  <1>2. /\ Here \in Sources /\ c \in Clients /\ p \in Children /\ w \in Workers
        /\ slot[Here] \in {"ok", "failed"} /\ dir[Here] \in {"none", "made", "removed"}
        /\ SourceOK(c, p, w, Begun) /\ w.from \in Nat /\ Legible(p, w.from)
        /\ Current(coord, c, p, w, slot[Here], dir[Here])
    BY <1>1, HereFacts
  <1>3. /\ slot = [slot EXCEPT ![Here] = slot[Here]]
        /\ dir = [dir EXCEPT ![Here] = dir[Here]] /\ cancelled \in BOOLEAN /\ coord \in Coordinators
    BY <1>2, Untouched
  <1>4. /\ op \in {"READY", "ARM", "START", "STOP"} /\ coord.phase # "failed"
        /\ "await" \in PcsOf(op) /\ (op = "START" => Begun)
    BY <1>1, PcFacts
  <1>5. op \in Commands
    BY <1>4 DEF Commands
  <1> DEFINE d == [c EXCEPT !.pending = op]
             q == [p EXCEPT !.inbox = Append(p.inbox, op)]
             v == [w EXCEPT !.from = IF op = "START" THEN p.frame ELSE w.from]
  <1>6. /\ client' = [client EXCEPT ![Here] = d] /\ d \in Clients /\ d.terminal = "none"
        /\ SourceOK(d, p, w, Begun) /\ c.terminal = "none" /\ Prepared(c, op)
        /\ child' = [child EXCEPT ![Here] = q] /\ Running(p)
    BY <1>1, <1>2, <1>4, <1>5, RequestForms
  <1>7. worker' = [worker EXCEPT ![Here] = v]
    <2>1. worker \in [Sources -> Workers]
      BY DEF Inv, TypeInv
    <2> QED
      BY <1>2, <2>1 DEF Send
  <1>8. w.state # "none"
    BY <1>1, <1>2, <1>6 DEF Current
  <1>9. v \in Workers /\ v.state = w.state /\ v.intentional = w.intentional
    <2>1. p.frame \in Nat
      BY <1>2, ChildTypes
    <2> QED
      BY <1>2, <2>1 DEF Workers
  <1>10. q \in Children /\ SourceOK(d, q, v, Begun)
    <2>1. CASE op = "START"
      <3>1. d = [c EXCEPT !.pending = "START"] /\ q = [p EXCEPT !.inbox = Append(p.inbox, "START")]
            /\ v = [w EXCEPT !.from = p.frame] /\ Prepared(c, "START") /\ Begun = TRUE
        BY <1>4, <1>6, <2>1, BegunType
      <3>2. SourceOK(c, p, w, TRUE)
        BY <1>2, LaterKeeps
      <3>3. q \in Children /\ SourceOK(d, q, v, TRUE)
        <4> HIDE DEF d, q, v
        <4> QED
          BY <1>2, <1>6, <1>8, <3>1, <3>2, StartSent, Zenon
      <3> QED
        BY <3>1, <3>3
    <2>2. CASE op # "START"
      <3>1. v = w
        BY <1>2, <2>2 DEF Workers
      <3>2. Continues(p, q, w.from)
        BY <1>2, <1>5, <2>2, InboxKeeps
      <3>3. q \in Children /\ SourceOK(d, q, w, Begun)
        BY <1>6, <3>2, ChildKeeps DEF Continues
      <3> QED
        BY <3>1, <3>3
    <2> QED
      BY <2>1, <2>2
  <1>11. Running(q)
    BY <1>2, <1>6 DEF Running, Children
  <1> HIDE DEF d, q, v
  <1>12. Touched(Here, d, q, v, slot[Here], dir[Here])
    BY <1>1, <1>2, <1>3, <1>6, <1>7, <1>9, <1>10 DEF Touched
  <1>13. /\ coord' \in Coordinators /\ coord'.pc = "await" /\ coord'.op = coord.op
         /\ coord'.phase = coord.phase /\ coord'.at = coord.at /\ coord'.fatal = coord.fatal
    BY <1>1, <1>3 DEF Coordinators, AbortPcs
  <1>14. Stays(coord')
    BY <1>4, <1>13 DEF Stays
  <1>15. Current(coord', d, q, v, slot[Here], dir[Here])
    <2>1. slot[Here] = "failed" => Lost(coord) \/ coord.fatal
      BY <1>1, <1>2, <1>6 DEF Current, Reaped
    <2>2. w.intentional => slot[Here] = "failed" \/ Lost(coord)
      BY <1>2 DEF Current
    <2>3. w.state # "none" /\ slot[Here] = "ok" => dir[Here] = "made"
      BY <1>2 DEF Current
    <2> QED
      BY <1>4, <1>8, <1>9, <1>13, <2>1, <2>2, <2>3 DEF Current, Lost, AbortPcs
  <1> QED
    BY <1>1, <1>10, <1>12, <1>14, <1>15, StayKeeps

\* A command fails: the source is given up.
LEMMA CommandFailures ==
  ASSUME Inv, SendFails \/ CommandFailed \/ CommandTimesOut
  PROVE  Kept
  <1>1. /\ coord.pc \in {"send", "await"} /\ coord.pc # "idle" /\ child' = child
        /\ UNCHANGED <<cancelled, worker, dir>>
    BY DEF SendFails, CommandFailed, CommandTimesOut, At, CommandRefused, CommandBreaks
  <1>2. /\ Here \in Sources /\ client[Here] \in Clients
        /\ SourceOK(client[Here], child[Here], worker[Here], Begun)
    BY <1>1, HereFacts
  <1>3. client = [client EXCEPT ![Here] = client[Here]] /\ coord \in Coordinators /\ cancelled \in BOOLEAN
    BY <1>2, Untouched
  <1>4. coord.late \in BOOLEAN /\ (~ cancelled) \in BOOLEAN
    BY <1>3, CoordinatorTypes
  <1>5. CASE SendFails
    <2>1. GiveUp(coord.late) /\ coord.pc = "send"
      BY <1>5 DEF SendFails, At
    <2>2. /\ coord.op \in {"READY", "ARM", "START", "STOP"} /\ (coord.op = "START" => Begun)
      BY <1>1, <2>1, PcFacts
    <2>3. coord.op \in Commands
      BY <2>2 DEF Commands
    <2>4. CASE CommandBreaks(Here, coord.op)
      <3>1. \E d \in Clients :
              client' = [client EXCEPT ![Here] = d] /\ SourceOK(d, child[Here], worker[Here], Begun)
        BY <1>2, <2>2, <2>3, <2>4, RequestForms
      <3> QED
        BY <1>1, <1>4, <2>1, <3>1, GiveUpKeeps
    <2>5. CASE client' = client
      BY <1>1, <1>2, <1>3, <1>4, <2>1, <2>5, GiveUpKeeps
    <2> QED
      BY <1>5, <2>4, <2>5 DEF SendFails, CommandRefused
  <1>6. CASE CommandFailed \/ CommandTimesOut
    <2>1. \E late \in BOOLEAN : GiveUp(late)
      BY <1>4, <1>6 DEF CommandFailed, CommandTimesOut
    <2>2. CommandFails(Here) \/ CommandExpires(Here)
      BY <1>6 DEF CommandFailed, CommandTimesOut
    <2>3. \E d \in Clients :
            client' = [client EXCEPT ![Here] = d] /\ SourceOK(d, child[Here], worker[Here], Begun)
      BY <1>2, <2>2, AnswerForms
    <2> QED
      BY <1>1, <2>1, <2>3, GiveUpKeeps
  <1> QED
    BY <1>5, <1>6

\* The recorder is told to stop, or that its failure is wanted.
LEMMA WantedKeeps ==
  ASSUME NEW c, NEW p, NEW w \in Workers, NEW b, SourceOK(c, p, w, b), NEW x \in BOOLEAN,
         w.state = "none" => x = w.intentional
  PROVE  SourceOK(c, p, [w EXCEPT !.intentional = x], b)
  <1> DEFINE v == [w EXCEPT !.intentional = x]
  <1>1. /\ v.seen = w.seen /\ v.from = w.from /\ v.got = w.got /\ v.failed = w.failed
        /\ v.state = w.state /\ (w.state = "none" => v = w)
    BY DEF Workers
  <1> HIDE DEF v
  <1>2. SourceOK(c, p, v, b)
    BY <1>1, WorkerKeeps
  <1> QED
    BY <1>2 DEF v

\* The recorder is told to stop.
LEMMA StopKeeps ==
  ASSUME NEW c, NEW p, NEW w \in Workers, NEW b, SourceOK(c, p, w, b), NEW x \in BOOLEAN,
         w.state = "none" => ~ x
  PROVE  SourceOK(c, p, [w EXCEPT !.stop = x], b)
  <1> DEFINE v == [w EXCEPT !.stop = x]
  <1>1. w.state = "none" => w.stop = FALSE
    BY BrokenFacts, WorkerTypes DEF SourceOK, Drawn
  <1>2. /\ v.seen = w.seen /\ v.from = w.from /\ v.got = w.got /\ v.failed = w.failed
        /\ v.state = w.state /\ (w.state = "none" => v = w)
    BY <1>1 DEF Workers
  <1> HIDE DEF v
  <1>3. SourceOK(c, p, v, b)
    BY <1>2, WorkerKeeps
  <1> QED
    BY <1>3 DEF v

\* One more step of an abort at the source the coordinator is at.
LEMMA AbortGoes ==
  ASSUME Inv, coord.pc \in AbortPcs, NEW pc \in AbortPcs,
         coord' = [coord EXCEPT !.pc = pc] \/ coord' = [coord EXCEPT !.pc = pc, !.fatal = TRUE]
  PROVE  /\ coord' \in Coordinators /\ coord'.pc = pc /\ coord'.op = coord.op
         /\ coord'.phase = coord.phase /\ coord'.at = coord.at /\ (coord.fatal => coord'.fatal)
         /\ Stays(coord') /\ coord.pc # "idle" /\ coord.pc # "launch"
         /\ coord' = [coord EXCEPT !.pc = pc, !.fatal = TRUE] => coord'.fatal
  <1>1. coord.pc # "idle" /\ coord.pc # "launch" /\ coord \in Coordinators /\ pc # "launch"
    BY DEF AbortPcs, Inv, TypeInv
  <1>2. /\ coord' \in Coordinators /\ coord'.pc = pc /\ coord'.op = coord.op
        /\ coord'.phase = coord.phase /\ coord'.at = coord.at /\ (coord.fatal => coord'.fatal)
        /\ coord' = [coord EXCEPT !.pc = pc, !.fatal = TRUE] => coord'.fatal
    BY <1>1 DEF Coordinators
  <1>3. AbortPcs \subseteq PcsOf(coord.op)
    BY <1>1, PcFacts
  <1> QED
    BY <1>1, <1>2, <1>3 DEF Stays

\* CANCEL has been tried.
LEMMA CancelKeeps ==
  ASSUME Inv, AbortCancels
  PROVE  Kept
  <1> DEFINE c == client[Here]
             p == child[Here]
             w == worker[Here]
             sl == slot[Here]
             d == dir[Here]
             x == w.intentional \/ (coord.op # "COLLECT" /\ ~ Drained(Here))
             v == [w EXCEPT !.intentional = x]
  <1>1. coord.pc = "abort" /\ coord.pc \in AbortPcs /\ coord.pc # "idle"
    BY DEF AbortCancels, At, AbortPcs
  <1>2. /\ Here \in Sources /\ c \in Clients /\ p \in Children /\ w \in Workers
        /\ sl \in {"ok", "failed"} /\ d \in {"none", "made", "removed"}
        /\ SourceOK(c, p, w, Begun) /\ w.from \in Nat /\ Legible(p, w.from)
        /\ Current(coord, c, p, w, sl, d) /\ (Drained(Here) <=> Emptied(w))
    BY <1>1, HereFacts
  <1>3. /\ client = [client EXCEPT ![Here] = c] /\ child = [child EXCEPT ![Here] = p]
        /\ slot = [slot EXCEPT ![Here] = sl]
        /\ dir = [dir EXCEPT ![Here] = d] /\ cancelled \in BOOLEAN
    BY <1>2, Untouched
  <1>4. /\ worker' = [worker EXCEPT ![Here] = v] /\ slot' = slot /\ dir' = dir
        /\ cancelled' = cancelled
    <2>1. worker \in [Sources -> Workers]
      BY DEF Inv, TypeInv
    <2> QED
      BY <1>2, <2>1 DEF AbortCancels
  <1>5. x \in BOOLEAN /\ (w.state = "none" => x = w.intentional)
    BY <1>2, WorkerTypes DEF Emptied
  <1>6. v \in Workers /\ v.state = w.state /\ v.intentional = x
    BY <1>2, <1>5 DEF Workers
  <1>7. ASSUME NEW e \in Clients, NEW q \in Children, NEW pc, pc \in {"abortAck", "abortWait"},
               client' = [client EXCEPT ![Here] = e], child' = [child EXCEPT ![Here] = q],
               coord' = [coord EXCEPT !.pc = pc], SourceOK(e, q, w, Begun),
               Running(q) => Running(p)
        PROVE  Kept
    <2>1. pc \in AbortPcs
      BY <1>7 DEF AbortPcs
    <2>2. /\ coord'.pc = pc /\ coord'.op = coord.op /\ coord'.phase = coord.phase
          /\ Stays(coord')
      BY <1>1, <1>7, <2>1, AbortGoes
    <2> HIDE DEF v
    <2>3. SourceOK(e, q, v, Begun)
      <3> HIDE DEF x
      <3> QED
        BY <1>2, <1>5, <1>7, WantedKeeps DEF v
    <2>4. Touched(Here, e, q, v, sl, d)
      BY <1>2, <1>3, <1>4, <1>6, <1>7 DEF Touched
    <2>5. Current(coord', e, q, v, sl, d)
      <3>1. /\ w.state = "none" =>
                 /\ sl = "failed" \/ Lost(coord)
                 /\ Running(p) => coord.op = "READY"
            /\ w.state # "none" /\ sl = "ok" => d = "made"
            /\ coord.op # "ABORT" => sl = "failed"
            /\ coord.phase = "failed" => ~ Running(p)
        BY <1>1, <1>2 DEF Current
      <3>2. sl = "failed" \/ Lost(coord)
        BY <3>1 DEF Lost
      <3> QED
        BY <1>2, <1>6, <1>7, <2>2, <3>1, <3>2 DEF Current, Lost
    <2> QED
      BY <1>1, <2>2, <2>3, <2>4, <2>5, StayKeeps
  <1>8. "CANCEL" \in Commands /\ "CANCEL" # "START"
    BY DEF Commands
  <1>9. CASE CommandSent(Here, "CANCEL") /\ Go("abortAck")
    <2> DEFINE e == [c EXCEPT !.pending = "CANCEL"]
               q == [p EXCEPT !.inbox = Append(p.inbox, "CANCEL")]
    <2>1. /\ client' = [client EXCEPT ![Here] = e] /\ e \in Clients
          /\ SourceOK(e, p, w, Begun) /\ child' = [child EXCEPT ![Here] = q]
      BY <1>2, <1>8, <1>9, RequestForms
    <2>2. Continues(p, q, w.from)
      BY <1>2, <1>8, InboxKeeps
    <2> HIDE DEF e, q
    <2>3. SourceOK(e, q, w, Begun) /\ q \in Children /\ (Running(q) => Running(p))
      BY <2>1, <2>2, ChildKeeps DEF Continues
    <2>4. coord' = [coord EXCEPT !.pc = "abortAck"]
      BY <1>9 DEF Go
    <2> QED
      BY <1>7, <2>1, <2>3, <2>4
  <1>10. CASE CommandRefused(Here, "CANCEL") /\ Go("abortWait")
    <2>1. client' = [client EXCEPT ![Here] = c] /\ child' = [child EXCEPT ![Here] = p]
      BY <1>3, <1>10 DEF CommandRefused
    <2>2. coord' = [coord EXCEPT !.pc = "abortWait"]
      BY <1>10 DEF Go
    <2> QED
      BY <1>2, <1>7, <2>1, <2>2
  <1>11. CASE CommandBreaks(Here, "CANCEL") /\ Go("abortWait")
    <2> DEFINE e == [c EXCEPT !.pending = "CANCEL", !.open = FALSE]
    <2>1. /\ client' = [client EXCEPT ![Here] = e] /\ e \in Clients
          /\ SourceOK(e, p, w, Begun) /\ child' = child
      BY <1>2, <1>8, <1>11, RequestForms
    <2>2. coord' = [coord EXCEPT !.pc = "abortWait"]
      BY <1>11 DEF Go
    <2>3. child' = [child EXCEPT ![Here] = p]
      BY <1>3, <2>1
    <2> HIDE DEF e
    <2> QED
      BY <1>2, <1>7, <2>1, <2>2, <2>3
  <1> QED
    BY <1>9, <1>10, <1>11 DEF AbortCancels

\* CANCEL is answered, or its context ends.
LEMMA CancelAnswered ==
  ASSUME Inv, AbortAnswered \/ AbortTimesOut
  PROVE  Kept
  <1> DEFINE p == child[Here]
             w == worker[Here]
             sl == slot[Here]
             d == dir[Here]
  <1>1. /\ coord.pc = "abortAck" /\ coord' = [coord EXCEPT !.pc = "abortWait"]
        /\ child' = child /\ worker' = worker /\ slot' = slot /\ dir' = dir /\ cancelled' = cancelled
        /\ CommandAnswered(Here) \/ CommandFails(Here) \/ CommandExpires(Here)
    BY DEF AbortAnswered, AbortTimesOut, At, Go
  <1>2. coord.pc \in AbortPcs /\ "abortWait" \in AbortPcs
    BY <1>1 DEF AbortPcs
  <1>3. /\ coord'.pc = "abortWait" /\ coord'.op = coord.op /\ coord'.phase = coord.phase
        /\ Stays(coord') /\ coord.pc # "idle" /\ coord.pc # "launch"
    BY <1>1, <1>2, AbortGoes
  <1>4. /\ Here \in Sources /\ client[Here] \in Clients /\ p \in Children /\ w \in Workers
        /\ sl \in {"ok", "failed"} /\ d \in {"none", "made", "removed"}
        /\ Current(coord, client[Here], p, w, sl, d)
    BY <1>3, HereFacts
  <1>5. /\ child = [child EXCEPT ![Here] = p] /\ worker = [worker EXCEPT ![Here] = w]
        /\ slot = [slot EXCEPT ![Here] = sl]
        /\ dir = [dir EXCEPT ![Here] = d] /\ cancelled \in BOOLEAN
    BY <1>4, Untouched
  <1>6. PICK e \in Clients :
          /\ client' = [client EXCEPT ![Here] = e]
          /\ SourceOK(e, p, w, Begun)
    BY <1>1, <1>4, AnswerForms
  <1>7. Touched(Here, e, p, w, sl, d)
    BY <1>1, <1>4, <1>5, <1>6 DEF Touched
  <1>8. Current(coord', e, p, w, sl, d)
    BY <1>1, <1>3, <1>4 DEF Current, Lost, AbortPcs
  <1> QED
    BY <1>3, <1>6, <1>7, <1>8, StayKeeps

\* The child is gone, or it is killed.
LEMMA ConvergeKeeps ==
  ASSUME Inv, AbortConverges \/ AbortKills
  PROVE  Kept
  <1> DEFINE c == client[Here]
             p == child[Here]
             w == worker[Here]
             sl == slot[Here]
             d == dir[Here]
             x == ~ Drained(Here)
             v == [w EXCEPT !.stop = x]
  <1>1. /\ coord.pc = "abortWait" /\ slot' = slot /\ dir' = dir /\ cancelled' = cancelled
        /\ \/ coord' = [coord EXCEPT !.pc = "abortDrain"]
           \/ coord' = [coord EXCEPT !.pc = "abortDrain", !.fatal = TRUE]
    BY DEF AbortConverges, AbortKills, At, Go, pvars
  <1>2. coord.pc \in AbortPcs /\ "abortDrain" \in AbortPcs
    BY <1>1 DEF AbortPcs
  <1>3. /\ coord'.pc = "abortDrain" /\ coord'.op = coord.op /\ coord'.phase = coord.phase
        /\ Stays(coord') /\ coord.pc # "idle" /\ coord.pc # "launch"
        /\ coord' = [coord EXCEPT !.pc = "abortDrain", !.fatal = TRUE] => coord'.fatal
    BY <1>1, <1>2, AbortGoes
  <1>4. /\ Here \in Sources /\ c \in Clients /\ p \in Children /\ w \in Workers
        /\ sl \in {"ok", "failed"} /\ d \in {"none", "made", "removed"}
        /\ SourceOK(c, p, w, Begun) /\ w.from \in Nat /\ Legible(p, w.from)
        /\ Current(coord, c, p, w, sl, d) /\ (Drained(Here) <=> Emptied(w))
        /\ (Alive(Here) <=> Running(p)) /\ (Converged(Here) <=> Reaped(c, p))
    BY <1>3, HereFacts
  <1>5. /\ client = [client EXCEPT ![Here] = c] /\ child = [child EXCEPT ![Here] = p]
        /\ slot = [slot EXCEPT ![Here] = sl]
        /\ dir = [dir EXCEPT ![Here] = d] /\ cancelled \in BOOLEAN
    BY <1>4, Untouched
  <1>6. worker' = [worker EXCEPT ![Here] = v]
    <2>1. worker \in [Sources -> Workers]
      BY DEF Inv, TypeInv
    <2> QED
      BY <1>4, <2>1 DEF AbortConverges, AbortKills
  <1>7. x \in BOOLEAN /\ (w.state = "none" => ~ x)
    BY <1>4 DEF Emptied
  <1>8. v \in Workers /\ v.state = w.state /\ v.intentional = w.intentional
    BY <1>4, <1>7 DEF Workers
  <1>9. /\ w.state = "none" => sl = "failed" \/ Lost(coord)
        /\ w.intentional => sl = "failed" \/ Lost(coord)
        /\ w.state # "none" /\ sl = "ok" => d = "made"
        /\ coord.op # "ABORT" => sl = "failed"
    BY <1>2, <1>4 DEF Current
  <1>10. ASSUME NEW e \in Clients, NEW q \in Children,
                client' = [client EXCEPT ![Here] = e], child' = [child EXCEPT ![Here] = q],
                SourceOK(e, q, w, Begun), ~ Running(q), Reaped(e, q) \/ coord'.fatal
         PROVE  Kept
    <2> HIDE DEF v
    <2>1. SourceOK(e, q, v, Begun)
      <3> HIDE DEF x
      <3> QED
        BY <1>4, <1>7, <1>10, StopKeeps DEF v
    <2>2. Touched(Here, e, q, v, sl, d)
      BY <1>1, <1>4, <1>5, <1>6, <1>8, <1>10 DEF Touched
    <2>3. Current(coord', e, q, v, sl, d)
      BY <1>3, <1>8, <1>9, <1>10 DEF Current, Lost
    <2> QED
      BY <1>3, <2>1, <2>2, <2>3, StayKeeps
  <1>11. CASE AbortConverges
    <2>1. client' = [client EXCEPT ![Here] = c] /\ child' = [child EXCEPT ![Here] = p]
          /\ Reaped(c, p) /\ ~ Running(p)
      BY <1>4, <1>5, <1>11 DEF AbortConverges, pvars, Reaped
    <2> QED
      BY <1>4, <1>10, <2>1
  <1>12. CASE AbortKills
    <2> DEFINE e == [c EXCEPT !.open = FALSE]
               q == IF Running(p) THEN Killed(p) ELSE p
    <2>1. client' = [client EXCEPT ![Here] = e] /\ child' = [child EXCEPT ![Here] = q] /\ coord'.fatal
      <3>1. client \in [Sources -> Clients] /\ child \in [Sources -> Children]
        BY DEF Inv, TypeInv
      <3>2. coord'.fatal
        BY <1>3, <1>12 DEF AbortKills
      <3>3. client' = [client EXCEPT ![Here] = e]
        BY <1>4, <1>12, <3>1 DEF AbortKills
      <3>4. child' = [child EXCEPT ![Here] = q]
        BY <1>4, <1>12, <3>1 DEF AbortKills
      <3> QED
        BY <3>2, <3>3, <3>4
    <2>2. e \in Clients /\ SourceOK(e, p, w, Begun)
      BY <1>4, QuietClient
    <2> HIDE DEF e
    <2>3. Running(p) => Continues(p, Killed(p), w.from) /\ ~ Running(Killed(p))
      BY <1>4, KilledKeeps
    <2>4. q \in Children /\ SourceOK(e, q, w, Begun) /\ ~ Running(q)
      <3>1. CASE Running(p)
        BY <2>2, <2>3, <3>1, ChildKeeps DEF Continues
      <3>2. CASE ~ Running(p)
        BY <1>4, <2>2, <3>2
      <3> QED
        BY <3>1, <3>2
    <2> HIDE DEF q
    <2> QED
      BY <1>10, <2>1, <2>2, <2>4
  <1> QED
    BY <1>11, <1>12

\* The abort is over, and the directory is next; or a source fails Finish(true).
LEMMA RemovalNext ==
  ASSUME Inv, coord.pc \in {"abortDrain", "collect"},
         NEW pc \in {"abort", "remove"}, NEW f \in BOOLEAN, coord.fatal => f,
         NEW sl \in {"ok", "failed"},
         coord' \in Coordinators, coord'.pc = pc, coord'.op = coord.op, coord'.at = coord.at,
         coord'.phase = coord.phase, coord'.fatal = f,
         UNCHANGED <<client, child, cancelled, worker, dir>>,
         slot' = [slot EXCEPT ![Here] = sl], sl = "failed", coord.op \notin {"STOP", "ABORT"},
         pc = "remove" => f \/ (Reaped(client[Here], child[Here]) /\ Emptied(worker[Here]))
                            \/ (Emptied(worker[Here]) /\ slot[Here] = "failed")
  PROVE  Kept
  <1> DEFINE c == client[Here]
             p == child[Here]
             w == worker[Here]
             d == dir[Here]
  <1>1. coord.pc # "idle" /\ coord.pc # "launch"
    OBVIOUS
  <1>2. /\ Here \in Sources /\ c \in Clients /\ p \in Children /\ w \in Workers
        /\ d \in {"none", "made", "removed"} /\ SourceOK(c, p, w, Begun)
        /\ Current(coord, c, p, w, slot[Here], d)
    BY <1>1, HereFacts
  <1>3. /\ client = [client EXCEPT ![Here] = c] /\ child = [child EXCEPT ![Here] = p]
        /\ worker = [worker EXCEPT ![Here] = w]
        /\ dir = [dir EXCEPT ![Here] = d] /\ cancelled \in BOOLEAN
    BY <1>2, Untouched
  <1>4. /\ coord.phase # "failed" /\ "remove" \in PcsOf(coord.op) /\ "abort" \in PcsOf(coord.op)
    <2>1. /\ coord.op # "ABORT" => coord.phase \in {"starting", "ready", "armed", "started"}
          /\ AbortPcs \subseteq PcsOf(coord.op)
          /\ coord.op \notin {"STOP", "ABORT"} => "remove" \in PcsOf(coord.op)
      BY <1>1, PcFacts
    <2> QED
      BY <2>1 DEF AbortPcs
  <1>5. Stays(coord')
    BY <1>4 DEF Stays
  <1>6. Touched(Here, c, p, w, sl, d)
    BY <1>2, <1>3 DEF Touched
  <1>7. Current(coord', c, p, w, sl, d)
    <2>1. w.state = "none" => ~ Running(p)
      BY <1>2 DEF Current
    <2>2. pc = "remove" => f \/ (Reaped(c, p) /\ Emptied(w))
      BY <1>2, <1>4 DEF Current, Lost
    <2> QED
      BY <1>4, <2>1, <2>2 DEF Current
  <1> QED
    BY <1>1, <1>2, <1>5, <1>6, <1>7, StayKeeps

-----------------------------------------------------------------------------
(* The steps that leave the source.                                        *)

\* The coordinator leaves the source for the next one, or gives up.
LEMMA LeaveKeeps ==
  ASSUME Inv, coord.pc # "idle", NEW c \in Clients, NEW d \in {"none", "made", "removed"},
         client' = [client EXCEPT ![Here] = c], dir' = [dir EXCEPT ![Here] = d],
         UNCHANGED <<child, cancelled, slot, worker>>,
         SourceOK(c, child[Here], worker[Here], Begun),
         NEW k, Passes(k),
         Left(k, c, child[Here], worker[Here], slot[Here], d),
         Visited(k, Here, c, child[Here], worker[Here], slot[Here], d),
         coord' = Advanced(k) \/ (coord' = Aborting(k) /\ coord.op # "ABORT")
  PROVE  Kept
  <1>1. /\ Here \in Sources /\ child[Here] \in Children /\ worker[Here] \in Workers
        /\ slot[Here] \in {"ok", "failed"}
    BY HereFacts
  <1>2. /\ child = [child EXCEPT ![Here] = child[Here]] /\ worker = [worker EXCEPT ![Here] = worker[Here]]
        /\ slot = [slot EXCEPT ![Here] = slot[Here]] /\ cancelled \in BOOLEAN
    BY <1>1, Untouched
  <1>3. Touched(Here, c, child[Here], worker[Here], slot[Here], d)
    BY <1>1, <1>2 DEF Touched
  <1>4. Leaving(k) /\ Passing(k, client', dir') /\ child' = child /\ worker' = worker /\ slot' = slot
    BY <1>3, PassesKeeps
  <1>5. k.phase = coord.phase /\ k.op = coord.op
    BY DEF Passes
  <1>6. Arrived(k, coord', client', dir')
    <2>1. CASE coord' = Advanced(k)
      BY <1>4, <2>1, AdvancedKeeps
    <2>2. CASE coord' = Aborting(k) /\ coord.op # "ABORT"
      BY <1>4, <1>5, <2>2, AbortingKeeps
    <2> QED
      BY <2>1, <2>2
  <1> QED
    BY <1>1, <1>3, <1>4, <1>5, <1>6, ArrivalKeeps

\* A failed drain or removal is remembered on the way to the next source.
LEMMA PassesFacts ==
  ASSUME Inv, NEW k, Passes(k), NEW f \in BOOLEAN, k.fatal => f, NEW over \in BOOLEAN
  PROVE  /\ Passes([k EXCEPT !.fatal = f]) /\ [k EXCEPT !.fatal = f].fatal = f
         /\ Passes([k EXCEPT !.fatal = f, !.over = over])
         /\ [k EXCEPT !.fatal = f, !.over = over].fatal = f
         /\ Passes(coord)
  <1>1. k \in Coordinators /\ coord \in Coordinators
    BY DEF Passes, Inv, TypeInv
  <1>2. /\ [k EXCEPT !.fatal = f] \in Coordinators /\ [k EXCEPT !.fatal = f].fatal = f
        /\ [k EXCEPT !.fatal = f].op = k.op /\ [k EXCEPT !.fatal = f].phase = k.phase
        /\ [k EXCEPT !.fatal = f].at = k.at
    BY <1>1 DEF Coordinators
  <1>3. /\ [k EXCEPT !.fatal = f, !.over = over] \in Coordinators
        /\ [k EXCEPT !.fatal = f, !.over = over].fatal = f
        /\ [k EXCEPT !.fatal = f, !.over = over].op = k.op
        /\ [k EXCEPT !.fatal = f, !.over = over].phase = k.phase
        /\ [k EXCEPT !.fatal = f, !.over = over].at = k.at
    BY <1>1 DEF Coordinators
  <1>4. /\ k.op = coord.op /\ k.phase = coord.phase /\ k.at = coord.at /\ (coord.fatal => k.fatal)
    BY DEF Passes
  <1>5. Passes([k EXCEPT !.fatal = f])
    BY <1>2, <1>4 DEF Passes
  <1>6. Passes([k EXCEPT !.fatal = f, !.over = over])
    BY <1>3, <1>4 DEF Passes
  <1>7. Passes(coord)
    BY <1>1 DEF Passes
  <1> QED
    BY <1>2, <1>3, <1>5, <1>6, <1>7

\* What may be left of the source the coordinator is at.
LEMMA LeftHere ==
  ASSUME Inv, coord.pc \notin {"idle", "launch", "abort", "abortAck", "abortWait"},
         NEW k, Passes(k), NEW c, NEW d,
         client[Here].terminal # "none" => c.terminal # "none",
         d = dir[Here] \/ slot[Here] = "failed",
         coord.pc = "abortDrain" => k.fatal \/ Emptied(worker[Here])
  PROVE  Left(k, c, child[Here], worker[Here], slot[Here], d)
  <1>1. /\ Current(coord, client[Here], child[Here], worker[Here], slot[Here], dir[Here])
        /\ slot[Here] \in {"ok", "failed"}
    BY HereFacts
  <1>2. k.op = coord.op /\ k.phase = coord.phase /\ (coord.fatal => k.fatal)
    BY DEF Passes
  <1> QED
    BY <1>1, <1>2 DEF Current, Left, Lost, Reaped

\* The command is answered.
LEMMA CommandOKKeeps ==
  ASSUME Inv, CommandOK
  PROVE  Kept
  <1>1. /\ coord.pc = "await" /\ CommandAnswered(Here) /\ coord' = Advanced(coord)
        /\ UNCHANGED <<child, cancelled, slot, worker>> /\ dir' = dir
    BY DEF CommandOK, At
  <1>2. coord.pc # "idle" /\ coord.pc \notin {"idle", "launch", "abort", "abortAck", "abortWait"}
        /\ coord.pc # "abortDrain"
    BY <1>1
  <1>3. /\ Here \in Sources /\ client[Here] \in Clients
        /\ dir[Here] \in {"none", "made", "removed"}
    BY <1>2, HereFacts
  <1>4. PICK c \in Clients :
          /\ client' = [client EXCEPT ![Here] = c] /\ c.terminal = client[Here].terminal
          /\ SourceOK(c, child[Here], worker[Here], Begun)
    BY <1>1, <1>3, AnswerForms
  <1>5. dir' = [dir EXCEPT ![Here] = dir[Here]] /\ coord \in Coordinators
    BY <1>1, <1>3, Untouched
  <1>6. Passes(coord)
    BY <1>5 DEF Passes
  <1>7. Left(coord, c, child[Here], worker[Here], slot[Here], dir[Here])
    BY <1>2, <1>4, <1>6, LeftHere
  <1>8. coord.op \in {"READY", "ARM", "START", "STOP"}
    BY <1>1, <1>2, PcFacts
  <1>9. Visited(coord, Here, c, child[Here], worker[Here], slot[Here], dir[Here])
    BY <1>8 DEF Visited
  <1> QED
    BY <1>1, <1>2, <1>3, <1>4, <1>5, <1>6, <1>7, <1>9, LeaveKeeps

\* waitForDrain has returned.
LEMMA AbortOver ==
  ASSUME Inv, coord.pc = "abortDrain", NEW k, Passes(k), k.pc = coord.pc,
         k.fatal \/ Emptied(worker[Here]), coord' = AfterAbort(k),
         UNCHANGED <<client, child, cancelled, slot, worker, dir>>
  PROVE  Kept
  <1>1. coord.pc # "idle" /\ coord.pc \notin {"idle", "launch", "abort", "abortAck", "abortWait"}
        /\ coord.pc \in AbortPcs
    BY DEF AbortPcs
  <1>2. /\ Here \in Sources /\ client[Here] \in Clients
        /\ dir[Here] \in {"none", "made", "removed"}
        /\ SourceOK(client[Here], child[Here], worker[Here], Begun)
        /\ Current(coord, client[Here], child[Here], worker[Here], slot[Here], dir[Here])
    BY <1>1, HereFacts
  <1>3. /\ client = [client EXCEPT ![Here] = client[Here]] /\ dir = [dir EXCEPT ![Here] = dir[Here]]
        /\ slot = [slot EXCEPT ![Here] = slot[Here]]
    BY <1>2, Untouched
  <1>4. /\ k \in Coordinators /\ k.op = coord.op /\ k.phase = coord.phase /\ k.at = coord.at
        /\ (coord.fatal => k.fatal) /\ k.fatal \in BOOLEAN
    BY CoordinatorTypes DEF Passes
  <1>5. CASE k.op \in {"STOP", "ABORT"}
    <2> DEFINE f == k.fatal \/ (k.op = "STOP" /\ k.at \in Required)
               j == [k EXCEPT !.fatal = f]
    <2>1. f \in BOOLEAN /\ (k.fatal => f)
      BY <1>4
    <2>2. coord' = Advanced(j)
      BY <1>5 DEF AfterAbort
    <2> HIDE DEF f
    <2>3. Passes(j) /\ j.fatal = f
      BY <2>1, PassesFacts
    <2> HIDE DEF j
    <2>4. Left(j, client[Here], child[Here], worker[Here], slot[Here], dir[Here])
      BY <1>1, <2>1, <2>3, LeftHere
    <2>5. j.op = coord.op
      BY <2>3 DEF Passes
    <2>6. Visited(j, Here, client[Here], child[Here], worker[Here], slot[Here], dir[Here])
      BY <1>2, <1>4, <1>5, <2>5 DEF Visited, Current
    <2> QED
      BY <1>1, <1>2, <1>3, <2>2, <2>3, <2>4, <2>6, LeaveKeeps
  <1>6. CASE k.op \notin {"STOP", "ABORT"}
    <2>1. coord' = [k EXCEPT !.pc = "remove"]
      BY <1>6 DEF AfterAbort
    <2>2. /\ coord' \in Coordinators /\ coord'.pc = "remove" /\ coord'.op = coord.op
          /\ coord'.at = coord.at /\ coord'.phase = coord.phase /\ coord'.fatal = k.fatal
      BY <1>4, <2>1 DEF Coordinators
    <2>3. slot[Here] = "failed"
      BY <1>1, <1>2, <1>4, <1>6 DEF Current
    <2>4. slot' = [slot EXCEPT ![Here] = "failed"]
      BY <1>3, <2>3
    <2> QED
      BY <1>4, <1>6, <2>2, <2>3, <2>4, RemovalNext
  <1> QED
    BY <1>5, <1>6

\* The end of an abort, its recorder drained or not.
LEMMA AbortOverKeeps ==
  ASSUME Inv, AbortDrained \/ AbortUndrained
  PROVE  Kept
  <1>1. coord.pc = "abortDrain" /\ coord.pc # "idle"
        /\ UNCHANGED <<client, child, cancelled, slot, worker, dir>>
    BY DEF AbortDrained, AbortUndrained, At, pvars
  <1>2. coord \in Coordinators /\ (Drained(Here) <=> Emptied(worker[Here]))
    BY <1>1, HereFacts DEF Inv, TypeInv
  <1>3. CASE AbortDrained
    <2>1. coord' = AfterAbort(coord) /\ Emptied(worker[Here])
      BY <1>2, <1>3 DEF AbortDrained
    <2>2. Passes(coord)
      BY <1>2 DEF Passes
    <2> QED
      BY <1>1, <2>1, <2>2, AbortOver
  <1>4. CASE AbortUndrained
    <2> DEFINE k == [coord EXCEPT !.fatal = TRUE]
    <2>1. coord' = AfterAbort(k)
      BY <1>4 DEF AbortUndrained
    <2>2. Passes(k) /\ k.pc = coord.pc /\ k.fatal
      BY <1>2 DEF Passes, Coordinators
    <2> HIDE DEF k
    <2> QED
      BY <1>1, <2>1, <2>2, AbortOver
  <1> QED
    BY <1>3, <1>4

\* removeSource has returned.
LEMMA RemoveOver ==
  ASSUME Inv, coord.pc = "remove", NEW k, Passes(k), NEW d \in {"none", "made", "removed"},
         d = "removed" \/ k.fatal, coord' = AfterRemove(k),
         dir' = [dir EXCEPT ![Here] = d],
         UNCHANGED <<client, child, cancelled, slot, worker>>
  PROVE  Kept
  <1>1. coord.pc # "idle" /\ coord.pc \notin {"idle", "launch", "abort", "abortAck", "abortWait"}
        /\ coord.pc # "abortDrain"
    OBVIOUS
  <1>2. /\ Here \in Sources /\ client[Here] \in Clients /\ Here = coord.at
        /\ SourceOK(client[Here], child[Here], worker[Here], Begun)
        /\ Current(coord, client[Here], child[Here], worker[Here], slot[Here], dir[Here])
    BY <1>1, HereFacts
  <1>3. client' = [client EXCEPT ![Here] = client[Here]]
    BY <1>2, Untouched
  <1>4. coord.op \in {"READY", "ARM", "START", "COLLECT"}
        /\ coord.phase \in {"starting", "ready", "armed", "started"}
    BY <1>1, PcFacts
  <1>5. slot[Here] = "failed"
    BY <1>2, <1>4 DEF Current
  <1>6. /\ k \in Coordinators /\ k.op = coord.op /\ k.phase = coord.phase /\ k.at = coord.at
        /\ (coord.fatal => k.fatal) /\ k.fatal \in BOOLEAN
    BY CoordinatorTypes DEF Passes
  <1>7. ASSUME NEW j, Passes(j), coord' = Advanced(j) \/ coord' = Aborting(j),
               coord.op = "COLLECT" => (k.fatal => j.fatal) /\ (k.at \in Required => j.fatal)
        PROVE  Kept
    <2>1. Left(j, client[Here], child[Here], worker[Here], slot[Here], d)
      BY <1>1, <1>5, <1>7, LeftHere
    <2>2. j.op = coord.op /\ (coord.fatal => j.fatal)
      BY <1>7 DEF Passes
    <2>3. Visited(j, Here, client[Here], child[Here], worker[Here], slot[Here], d)
      <3>1. ASSUME j.op = "COLLECT", ~ j.fatal
            PROVE  Accounted(Here, client[Here], child[Here], worker[Here], slot[Here], d)
        <4>1. ~ Lost(coord) /\ ~ coord.fatal
          BY <1>4, <2>2, <3>1 DEF Lost
        <4>2. Reaped(client[Here], child[Here]) /\ Emptied(worker[Here])
          BY <1>2, <1>5, <4>1 DEF Current
        <4>3. Here \notin Required /\ d = "removed"
          BY <1>2, <1>6, <1>7, <2>2, <3>1
        <4> QED
          BY <1>5, <4>2, <4>3 DEF Accounted
      <3>2. j.op # "ABORT"
        BY <1>4, <2>2
      <3> QED
        BY <3>1, <3>2 DEF Visited
    <2>4. coord.op # "ABORT"
      BY <1>4
    <2> QED
      BY <1>1, <1>2, <1>3, <1>7, <2>1, <2>3, <2>4, LeaveKeeps
  <1>8. CASE k.op = "COLLECT"
    <2> DEFINE f == Fatal(k)
               j == [k EXCEPT !.fatal = f]
    <2>1. f \in BOOLEAN /\ (k.fatal => f) /\ (k.at \in Required => f)
      BY <1>6 DEF Fatal
    <2>2. coord' = Advanced(j)
      BY <1>8 DEF AfterRemove
    <2> HIDE DEF f
    <2>3. Passes(j) /\ j.fatal = f
      BY <2>1, PassesFacts
    <2> HIDE DEF j
    <2> QED
      BY <1>7, <2>1, <2>2, <2>3
  <1>9. CASE k.op # "COLLECT" /\ Fatal(k)
    <2> DEFINE over == k.op = "READY"
               j == [k EXCEPT !.fatal = TRUE, !.over = over]
    <2>1. coord' = Aborting(j)
      BY <1>9 DEF AfterRemove
    <2>2. over \in BOOLEAN
      OBVIOUS
    <2> HIDE DEF over
    <2>3. Passes(j)
      BY <2>2, PassesFacts
    <2> HIDE DEF j
    <2> QED
      BY <1>6, <1>7, <1>9, <2>1, <2>3
  <1>10. CASE k.op # "COLLECT" /\ ~ Fatal(k)
    <2>1. coord' = Advanced(k)
      BY <1>10 DEF AfterRemove
    <2> QED
      BY <1>6, <1>7, <1>10, <2>1
  <1> QED
    BY <1>8, <1>9, <1>10

\* The directory of a lost source is removed, or cannot be.
LEMMA RemoveKeeps ==
  ASSUME Inv, Remove \/ RemoveFails
  PROVE  Kept
  <1>1. coord.pc = "remove" /\ coord.pc # "idle"
        /\ UNCHANGED <<client, child, cancelled, slot, worker>>
    BY DEF Remove, RemoveFails, At, pvars
  <1>2. coord \in Coordinators /\ Here \in Sources /\ dir[Here] \in {"none", "made", "removed"}
    BY <1>1, HereFacts DEF Inv, TypeInv
  <1>3. CASE Remove
    <2>1. coord' = AfterRemove(coord) /\ dir' = [dir EXCEPT ![Here] = "removed"]
      BY <1>3 DEF Remove
    <2>2. Passes(coord)
      BY <1>2 DEF Passes
    <2> QED
      BY <1>1, <2>1, <2>2, RemoveOver
  <1>4. CASE RemoveFails
    <2> DEFINE k == [coord EXCEPT !.fatal = TRUE]
    <2>1. coord' = AfterRemove(k) /\ dir' = dir
      BY <1>4 DEF RemoveFails
    <2>2. Passes(k) /\ k.fatal
      BY <1>2 DEF Passes, Coordinators
    <2>3. dir' = [dir EXCEPT ![Here] = dir[Here]]
      BY <1>2, <2>1, Untouched
    <2> HIDE DEF k
    <2> QED
      BY <1>1, <1>2, <2>1, <2>2, <2>3, RemoveOver
  <1> QED
    BY <1>3, <1>4

\* Finish collects a source.
LEMMA CollectKeeps ==
  ASSUME Inv, CollectFailed \/ Collected \/ CollectTimesOut
  PROVE  Kept
  <1> DEFINE c == client[Here]
             p == child[Here]
             w == worker[Here]
             d == dir[Here]
  <1>1. /\ coord.pc = "collect" /\ coord.pc # "idle" /\ UNCHANGED <<client, child, cancelled, worker, dir>>
        /\ coord.pc \notin {"idle", "launch", "abort", "abortAck", "abortWait"}
        /\ coord.pc # "abortDrain"
    BY DEF CollectFailed, Collected, CollectTimesOut, At, pvars
  <1>2. /\ Here \in Sources /\ c \in Clients /\ p \in Children /\ w \in Workers
        /\ slot[Here] \in {"ok", "failed"} /\ d \in {"none", "made", "removed"}
        /\ SourceOK(c, p, w, Begun) /\ Current(coord, c, p, w, slot[Here], d)
        /\ (Drained(Here) <=> Emptied(w)) /\ (Converged(Here) <=> Reaped(c, p))
    BY <1>1, HereFacts
  <1>3. /\ client = [client EXCEPT ![Here] = c] /\ dir = [dir EXCEPT ![Here] = d]
        /\ slot = [slot EXCEPT ![Here] = slot[Here]] /\ coord \in Coordinators
    BY <1>2, Untouched
  <1>4. coord.op = "COLLECT" /\ coord.phase # "failed" /\ coord.op \notin {"STOP", "ABORT"}
        /\ coord.fatal \in BOOLEAN
    BY <1>1, <1>3, PcFacts, CoordinatorTypes
  <1>5. CASE CollectFailed
    <2>1. coord' = [coord EXCEPT !.pc = "remove"] /\ slot[Here] = "failed" /\ slot' = slot
      BY <1>5 DEF CollectFailed, Go
    <2>2. /\ coord' \in Coordinators /\ coord'.pc = "remove" /\ coord'.op = coord.op
          /\ coord'.at = coord.at /\ coord'.phase = coord.phase /\ coord'.fatal = coord.fatal
      BY <1>3, <2>1 DEF Coordinators
    <2>3. coord.fatal \/ (Reaped(c, p) /\ Emptied(w))
      BY <1>1, <1>2, <1>4, <2>1 DEF Current, Lost
    <2>4. slot' = [slot EXCEPT ![Here] = "failed"]
      BY <1>3, <2>1
    <2> QED
      BY <1>1, <1>4, <2>2, <2>3, <2>4, RemovalNext
  <1>6. CASE Collected
    <2> DEFINE failed == w.failed \/ p.code # 0 \/ c.terminal = "failed"
    <2>1. /\ slot[Here] = "ok" /\ Reaped(c, p) /\ Emptied(w)
          /\ slot' = [slot EXCEPT ![Here] = IF failed THEN "failed" ELSE "ok"]
          /\ coord' = IF failed THEN [coord EXCEPT !.pc = "remove"] ELSE Advanced(coord)
      BY <1>2, <1>6 DEF Collected
    <2>2. CASE failed
      <3>1. slot' = [slot EXCEPT ![Here] = "failed"] /\ coord' = [coord EXCEPT !.pc = "remove"]
        BY <2>1, <2>2
      <3>2. /\ coord' \in Coordinators /\ coord'.pc = "remove" /\ coord'.op = coord.op
            /\ coord'.at = coord.at /\ coord'.phase = coord.phase /\ coord'.fatal = coord.fatal
        BY <1>3, <3>1 DEF Coordinators
      <3> QED
        BY <1>1, <1>4, <2>1, <3>1, <3>2, RemovalNext
    <2>3. CASE ~ failed
      <3>1. slot' = slot /\ coord' = Advanced(coord) /\ ~ w.failed
        BY <1>3, <2>1, <2>3
      <3>2. Passes(coord)
        BY <1>3 DEF Passes
      <3>3. Left(coord, c, p, w, slot[Here], d)
        BY <1>1, <3>2, LeftHere
      <3>4. w.state = "done" /\ ~ w.intentional
        BY <1>2, <1>4, <2>1 DEF Current, Lost, Emptied
      <3>5. Visited(coord, Here, c, p, w, slot[Here], d)
        BY <1>4, <2>1, <3>1, <3>4 DEF Visited, Accounted
      <3>6. client' = [client EXCEPT ![Here] = c] /\ dir' = [dir EXCEPT ![Here] = d]
        BY <1>1, <1>3
      <3> QED
        BY <1>1, <1>2, <3>1, <3>2, <3>3, <3>5, <3>6, LeaveKeeps
    <2> QED
      BY <2>2, <2>3
  <1>7. CASE CollectTimesOut
    <2>1. slot' = [slot EXCEPT ![Here] = "failed"]
      BY <1>7 DEF CollectTimesOut
    <2>2. PICK pc \in {"abort", "remove"} : coord' = [coord EXCEPT !.pc = pc, !.fatal = TRUE]
      BY <1>7 DEF CollectTimesOut
    <2>3. /\ coord' \in Coordinators /\ coord'.pc = pc /\ coord'.op = coord.op
          /\ coord'.at = coord.at /\ coord'.phase = coord.phase /\ coord'.fatal = TRUE
      BY <1>3, <2>2 DEF Coordinators, AbortPcs
    <2> QED
      BY <1>1, <1>4, <2>1, <2>3, RemovalNext
  <1> QED
    BY <1>5, <1>6, <1>7

\* A call of Arm, Start or Finish begins.
LEMMA CallKeeps ==
  ASSUME Inv, NEW phases, NEW op \in {"ARM", "START", "STOP", "ABORT"}, NEW over \in BOOLEAN,
         phases \subseteq PhaseOf(op), Call(phases, op, over)
  PROVE  Kept
  <1> DEFINE k == [coord EXCEPT !.op = op, !.at = 0]
             j == Advanced(k)
  <1>1. /\ coord.pc = "idle" /\ coord.phase \in PhaseOf(op) /\ UNCHANGED <<client, child, cancelled>>
        /\ slot' = slot /\ worker' = worker /\ dir' = dir
        /\ coord' = [j EXCEPT !.late = FALSE, !.over = over]
    BY DEF Call, Idle, pvars, Entered
  <1>2. /\ coord \in Coordinators /\ Positioned(coord)
        /\ \A s \in Sources : Handled(coord, s, client[s], child[s], worker[s], slot[s], dir[s])
    BY DEF Inv, TypeInv, CoordinatorInv
  <1>3. coord.op = "none" /\ coord.at = 0 /\ coord.phase # "starting"
    <2>1. coord.op \in {"none", "READY", "ARM", "START", "STOP", "COLLECT", "ABORT"}
      BY <1>2 DEF Coordinators
    <2>2. coord.op = "none"
      BY <1>1, <1>2, <2>1 DEF Positioned, PcsOf, AbortPcs
    <2> QED
      BY <1>2, <2>2 DEF Positioned, PhaseOf
  <1>4. /\ k \in Coordinators /\ k.op = op /\ k.at = 0 /\ k.phase = coord.phase
        /\ k.fatal = coord.fatal
    BY <1>2 DEF Coordinators
  <1> HIDE DEF k
  <1>5. Leaving(k)
    BY <1>1, <1>4 DEF Leaving
  <1>6. ASSUME NEW t \in Sources
        PROVE  Left(k, client[t], child[t], worker[t], slot[t], dir[t])
    <2>1. t \in Nat /\ t # 0
      BY SourcesFacts
    <2>2. ~ Ahead(coord, t)
      BY <1>3 DEF Ahead
    <2>3. Left(coord, client[t], child[t], worker[t], slot[t], dir[t])
      BY <1>2, <1>3, <2>1, <2>2 DEF Handled
    <2> QED
      BY <1>3, <1>4, <2>3 DEF Left, Lost
  <1>7. Passing(k, client, dir)
    <2>1. \A t \in Sources : ~ (t <= k.at)
      BY <1>4, SourcesFacts
    <2> QED
      BY <1>4, <1>6, <2>1 DEF Passing
  <1>8. Arrived(k, j, client, dir)
    BY <1>5, <1>7, AdvancedKeeps
  <1> HIDE DEF j
  <1>9. j \in Coordinators /\ Positioned(j) /\ PhaseStep(coord.phase, j.phase)
        /\ \A t \in Sources : Handled(j, t, client[t], child[t], worker[t], slot[t], dir[t])
    BY <1>4, <1>8 DEF Arrived, AllHandled
  <1>10. /\ coord' \in Coordinators /\ coord'.op = j.op /\ coord'.at = j.at /\ coord'.phase = j.phase
         /\ coord'.fatal = j.fatal /\ coord'.pc = j.pc
    BY <1>1, <1>9 DEF Coordinators
  <1>11. Positioned(coord')
    BY <1>9, <1>10 DEF Positioned
  <1>12. ASSUME NEW t \in Sources
         PROVE  Handled(coord', t, client'[t], child'[t], worker'[t], slot'[t], dir'[t])
    <2>1. Handled(j, t, client[t], child[t], worker[t], slot[t], dir[t])
      BY <1>9
    <2>2. Handled(coord', t, client[t], child[t], worker[t], slot[t], dir[t])
      <3> DEFINE h == coord'
      <3>1. h.op = j.op /\ h.at = j.at /\ h.phase = j.phase /\ h.fatal = j.fatal /\ h.pc = j.pc
        BY <1>10
      <3> HIDE DEF h
      <3>2. Handled(h, t, client[t], child[t], worker[t], slot[t], dir[t])
        BY <2>1, <3>1 DEF Handled, Ahead, Current, Left, Visited, Lost
      <3> QED
        BY <3>2 DEF h
    <2> QED
      BY <1>1, <2>2
  <1>13. 1 \in Sources
    BY SourcesFacts
  <1>14. Touched(1, client[1], child[1], worker[1], slot[1], dir[1])
    BY <1>1, <1>13, Untouched, SourceFacts DEF Touched
  <1>15. SourceOK(client[1], child[1], worker[1], Begun)
    BY <1>13, SourceFacts
  <1> QED
    BY <1>9, <1>10, <1>11, <1>12, <1>13, <1>14, <1>15, MovedKeeps

\* The caller begins an operation.
LEMMA CallerKeeps ==
  ASSUME Inv, CallerStep
  PROVE  Kept
  <1>1. CASE Arm
    <2>1. {"ready"} \subseteq PhaseOf("ARM")
      BY DEF PhaseOf
    <2> QED
      BY <1>1, <2>1, CallKeeps DEF Arm
  <1>2. CASE Start
    <2>1. {"armed"} \subseteq PhaseOf("START")
      BY DEF PhaseOf
    <2> QED
      BY <1>2, <2>1, CallKeeps DEF Start
  <1>3. CASE FinishComplete
    <2>1. {"started"} \subseteq PhaseOf("STOP")
      BY DEF PhaseOf
    <2> QED
      BY <1>3, <2>1, CallKeeps DEF FinishComplete
  <1>4. CASE FinishAborted
    <2>1. {"ready", "armed", "started", "failed"} \subseteq PhaseOf("ABORT")
      BY DEF PhaseOf
    <2> QED
      BY <1>4, <2>1, CallKeeps DEF FinishAborted
  <1> QED
    BY <1>1, <1>2, <1>3, <1>4 DEF CallerStep

\* The invariant does not look at the faults, and at the context only for its type.
LEMMA ContextKeeps ==
  ASSUME Inv, cancelled' \in BOOLEAN, UNCHANGED <<client, child, coord, slot, worker, dir>>
  PROVE  Inv'
  <1>1. TypeInv'
    BY DEF Inv, TypeInv
  <1>2. Begun' = Begun
    BY DEF Begun
  <1>3. SourcesInv'
    BY <1>2 DEF Inv, SourcesInv
  <1>4. CoordinatorInv'
    BY DEF Inv, CoordinatorInv
  <1> QED
    BY <1>1, <1>3, <1>4 DEF Inv

\* The coordinator's steps, all together.
LEMMA CoordinatorKeeps ==
  ASSUME Inv, CoordinatorStep \/ CoordinatorFault
  PROVE  Kept
  <1>1. CASE Launch \/ LaunchRefused \/ LaunchFails \/ LaunchUnowned
    <2>1. Launch \/ (Unlaunched /\ cancelled' = cancelled) \/ LaunchUnowned
      BY <1>1 DEF LaunchRefused, LaunchFails, Unlaunched
    <2> QED
      BY <2>1, LaunchKeeps
  <1>2. CASE CommandStep
    BY <1>2, SendKeeps, CommandFailures, CommandOKKeeps DEF CommandStep
  <1>3. CASE AbortStep
    BY <1>3, CancelKeeps, CancelAnswered, ConvergeKeeps, AbortOverKeeps DEF AbortStep
  <1>4. CASE Remove \/ RemoveFails
    BY <1>4, RemoveKeeps
  <1>5. CASE CollectFailed \/ Collected \/ CollectTimesOut
    BY <1>5, CollectKeeps
  <1> QED
    BY <1>1, <1>2, <1>3, <1>4, <1>5 DEF CoordinatorStep, CoordinatorFault

\* The invariant holds before Start,
LEMMA InitInv == MInit => Inv
  <1> SUFFICES ASSUME MInit PROVE Inv
    OBVIOUS
  <1>1. /\ client = [s \in Sources |-> NoClient] /\ child = [s \in Sources |-> NoChild]
        /\ cancelled = FALSE /\ slot = [s \in Sources |-> "ok"]
        /\ worker = [s \in Sources |-> NoWorker] /\ dir = [s \in Sources |-> "none"]
        /\ coord = [phase |-> "starting", pc |-> "launch", op |-> "READY", at |-> 1,
                    fatal |-> FALSE, late |-> FALSE, over |-> FALSE]
    BY DEF MInit, PInit
  <1>2. /\ coord \in Coordinators /\ coord.phase = "starting" /\ coord.pc = "launch"
        /\ coord.op = "READY" /\ coord.at = 1
    BY <1>1 DEF Coordinators
  <1>3. TypeInv
    BY <1>1, <1>2, NewKeeps, BrokenFacts DEF TypeInv
  <1>4. SourcesInv
    BY <1>1, NewKeeps, BegunType DEF SourcesInv
  <1>5. Positioned(coord)
    BY <1>2, SourcesFacts DEF Positioned, PhaseOf, PcsOf
  <1>6. ASSUME NEW s \in Sources
        PROVE  Handled(coord, s, client[s], child[s], worker[s], slot[s], dir[s])
    <2>1. s \in Nat /\ s > 0 /\ ~ (s < 1)
      BY SourcesFacts
    <2>2. Ahead(coord, s)
      BY <1>2, <2>1 DEF Ahead
    <2>3. worker[s].state = "none" /\ slot[s] = "ok" /\ Reaped(client[s], child[s])
      BY <1>1, NewKeeps, BrokenFacts DEF Reaped
    <2> QED
      BY <1>2, <2>1, <2>2, <2>3 DEF Handled
  <1> QED
    BY <1>3, <1>4, <1>5, <1>6 DEF Inv, CoordinatorInv

\* ... is preserved by every step,
LEMMA StepInv == Inv /\ [MNext]_mvars => Inv'
  <1> SUFFICES ASSUME Inv, [MNext]_mvars PROVE Inv'
    OBVIOUS
  <1>1. CASE CoordinatorStep \/ CoordinatorFault
    BY <1>1, CoordinatorKeeps DEF Kept
  <1>2. CASE CallerStep
    BY <1>2, CallerKeeps DEF Kept
  <1>3. CASE CaptureCancelled
    BY <1>3, ContextKeeps DEF CaptureCancelled
  <1>4. ASSUME NEW s \in Sources,
               \/ RecorderStep(s) \/ SinkReturns(s) \/ RecorderFails(s)
               \/ Outside(ClientStep(s) \/ ContextKills(s) \/ ProducerStep(s))
               \/ Outside(CameraFrame(s) \/ SourceFault(s))
        PROVE  Inv'
    <2>1. CASE RecorderStep(s) \/ SinkReturns(s) \/ RecorderFails(s)
      BY <2>1, RecorderStepsAlone, AloneKeeps
    <2>2. CASE Outside(ClientStep(s))
      BY <2>2, ClientAlone, AloneKeeps
    <2>3. CASE Outside(ProducerStep(s))
      BY <2>3, ProducerStepAlone, AloneKeeps
    <2>4. CASE Outside(ContextKills(s) \/ CameraFrame(s) \/ SourceFault(s))
      BY <2>4, EnvironmentAlone, AloneKeeps
    <2> QED
      BY <1>4, <2>1, <2>2, <2>3, <2>4 DEF Outside
  <1>5. CASE UNCHANGED mvars
    <2>1. cancelled \in BOOLEAN
      BY DEF Inv, TypeInv
    <2> QED
      BY <1>5, <2>1, ContextKeeps DEF mvars, pvars
  <1> QED
    BY <1>1, <1>2, <1>3, <1>4, <1>5 DEF MNext, SystemStep

\* ... and so always holds.
LEMMA Invariance == MSpec => []Inv
  BY InitInv, StepInv, PTL DEF MSpec

-----------------------------------------------------------------------------
(* The safety theorems.                                                    *)

\* Between operations every source has been left.
LEMMA FinishedFacts ==
  ASSUME Inv, coord.pc = "idle", NEW s \in Sources
  PROVE  /\ Left(coord, client[s], child[s], worker[s], slot[s], dir[s])
         /\ coord.phase = "finished" =>
              Accounted(s, client[s], child[s], worker[s], slot[s], dir[s])
  <1>1. Handled(coord, s, client[s], child[s], worker[s], slot[s], dir[s]) /\ s # 0
    BY SourceFacts, SourcesFacts
  <1>2. coord.op = "none" /\ coord.at = 0
    <2>1. coord \in Coordinators /\ Positioned(coord)
      BY DEF Inv, TypeInv, CoordinatorInv
    <2>2. coord.op \in {"none", "READY", "ARM", "START", "STOP", "COLLECT", "ABORT"}
      BY <2>1 DEF Coordinators
    <2>3. coord.op = "none"
      BY <2>1, <2>2 DEF Positioned, PcsOf, AbortPcs
    <2> QED
      BY <2>1, <2>3 DEF Positioned
  <1>3. ~ Ahead(coord, s)
    BY <1>2 DEF Ahead
  <1> QED
    BY <1>1, <1>2, <1>3 DEF Handled

\* The invariant implies NothingLeftBehind,
LEMMA InvNothingLeft ==
  ASSUME Inv
  PROVE  NothingLeftBehind
  <1> SUFFICES ASSUME Returned, NEW s \in Sources
               PROVE  /\ ~ Alive(s)
                      /\ coord.phase = "finished" =>
                           /\ Converged(s) /\ Drained(s)
                           /\ slot[s] = "failed" => dir[s] = "removed"
    BY DEF NothingLeftBehind
  <1>1. coord.pc = "idle" /\ coord.phase \in {"finished", "failed"}
    BY DEF Returned, Idle
  <1>2. /\ Left(coord, client[s], child[s], worker[s], slot[s], dir[s])
        /\ coord.phase = "finished" =>
             Accounted(s, client[s], child[s], worker[s], slot[s], dir[s])
    BY <1>1, FinishedFacts
  <1>3. /\ Alive(s) <=> Running(child[s])
        /\ Converged(s) <=> Reaped(client[s], child[s])
        /\ Drained(s) <=> Emptied(worker[s])
    BY SourceFacts
  <1>4. CASE coord.phase = "failed"
    BY <1>2, <1>3, <1>4 DEF Left
  <1>5. CASE coord.phase = "finished"
    BY <1>2, <1>3, <1>5 DEF Accounted, Reaped
  <1> QED
    BY <1>1, <1>4, <1>5

\* ... and CompleteIsExact.
LEMMA InvCompleteExact ==
  ASSUME Inv
  PROVE  CompleteIsExact
  <1> SUFFICES ASSUME coord.phase = "finished", NEW s \in Sources, slot[s] = "ok"
               PROVE  /\ dir[s] = "made" /\ worker[s].seen = "eof"
                      /\ \A i \in DOMAIN worker[s].got :
                           /\ worker[s].got[i] > worker[s].from
                           /\ i > 1 => worker[s].got[i] = worker[s].got[i - 1] + 1
    BY DEF CompleteIsExact
  <1>1. coord.pc = "idle"
    <2>1. coord \in Coordinators /\ Positioned(coord)
      BY DEF Inv, TypeInv, CoordinatorInv
    <2>2. coord.op \in {"none", "READY", "ARM", "START", "STOP", "COLLECT", "ABORT"}
      BY <2>1 DEF Coordinators
    <2>3. coord.op = "none"
      BY <2>1, <2>2 DEF Positioned, PhaseOf
    <2> QED
      BY <2>1, <2>3 DEF Positioned, PcsOf
  <1>2. /\ Left(coord, client[s], child[s], worker[s], slot[s], dir[s])
        /\ Accounted(s, client[s], child[s], worker[s], slot[s], dir[s])
    BY <1>1, FinishedFacts
  <1>3. worker[s].state = "done" /\ ~ worker[s].failed /\ dir[s] = "made"
    BY <1>2 DEF Accounted, Left
  <1>4. SourceOK(client[s], child[s], worker[s], Begun) /\ worker[s].got \in Seq(Nat)
    BY SourceFacts, WorkerTypes
  <1>5. worker[s].seen = "eof"
    BY <1>3, <1>4 DEF SourceOK, Drawn
  <1>6. Consecutive(worker[s].got, worker[s].from)
    BY <1>4, <1>5 DEF SourceOK, Announced
  <1>7. DOMAIN worker[s].got = 1 .. Len(worker[s].got)
    BY <1>4
  <1> QED
    BY <1>3, <1>5, <1>6, <1>7 DEF Consecutive

\* When the coordinator has returned for good no producer runs, whatever hung,
\* crashed or timed out; after a success every child is reaped, every recorder
\* has stopped and no failed source has a directory: abortLocked, abort, collect
\* and removeSource over every interleaving with clients, producers and recorders.
THEOREM NothingIsLeftBehind == MSpec => []NothingLeftBehind
  <1>1. Inv => NothingLeftBehind
    BY InvNothingLeft
  <1> QED
    BY <1>1, Invariance, PTL

\* What Finish(true) calls complete is exact: consecutive camera frames, none
\* complete before START was sent, up to the count announced in END, in a
\* directory that is still there.
THEOREM CompleteCapturesAreExact == MSpec => []CompleteIsExact
  <1>1. Inv => CompleteIsExact
    BY InvCompleteExact
  <1> QED
    BY <1>1, Invariance, PTL

-----------------------------------------------------------------------------
(* The contract of Participant.                                            *)

\* A source, as the contract sees it.
DroppedOf(sl, w) == sl = "failed" \/ w.intentional \/ w.failed

\* A step that changes at most source s.
LEMMA BarOne ==
  ASSUME Inv, Inv', NEW s \in Sources,
         \A t \in Sources : t # s => worker'[t] = worker[t] /\ slot'[t] = slot[t]
  PROVE  /\ Drains' = [Drains EXCEPT ![s] = DrainOf(worker'[s])]
         /\ Dropped' = [Dropped EXCEPT ![s] = DroppedOf(slot'[s], worker'[s])]
         /\ Payloads' = [Payloads EXCEPT ![s] = Len(worker'[s].got)]
         /\ Drains[s] = DrainOf(worker[s]) /\ Dropped[s] = DroppedOf(slot[s], worker[s])
         /\ Payloads[s] = Len(worker[s].got)
         /\ (DrainOf(worker'[s]) = DrainOf(worker[s]) => Drains' = Drains)
         /\ (DroppedOf(slot'[s], worker'[s]) = DroppedOf(slot[s], worker[s]) => Dropped' = Dropped)
         /\ (Len(worker'[s].got) = Len(worker[s].got) => Payloads' = Payloads)
  <1>1. /\ Drains' = [t \in Sources |-> DrainOf(worker'[t])]
        /\ Drains = [t \in Sources |-> DrainOf(worker[t])]
    BY DEF Drains, DrainOf
  <1>2. /\ Dropped' = [t \in Sources |-> DroppedOf(slot'[t], worker'[t])]
        /\ Dropped = [t \in Sources |-> DroppedOf(slot[t], worker[t])]
    BY DEF Dropped, DroppedOf
  <1>3. /\ Payloads' = [t \in Sources |-> Len(worker'[t].got)]
        /\ Payloads = [t \in Sources |-> Len(worker[t].got)]
    BY DEF Payloads
  <1>4. /\ Drains' = [Drains EXCEPT ![s] = DrainOf(worker'[s])]
        /\ (DrainOf(worker'[s]) = DrainOf(worker[s]) => Drains' = Drains)
        /\ Drains[s] = DrainOf(worker[s])
    BY <1>1
  <1>5. /\ Dropped' = [Dropped EXCEPT ![s] = DroppedOf(slot'[s], worker'[s])]
        /\ (DroppedOf(slot'[s], worker'[s]) = DroppedOf(slot[s], worker[s]) => Dropped' = Dropped)
        /\ Dropped[s] = DroppedOf(slot[s], worker[s])
    BY <1>2
  <1>6. /\ Payloads' = [Payloads EXCEPT ![s] = Len(worker'[s].got)]
        /\ (Len(worker'[s].got) = Len(worker[s].got) => Payloads' = Payloads)
        /\ Payloads[s] = Len(worker[s].got)
    BY <1>3
  <1> QED
    BY <1>4, <1>5, <1>6

\* The mapping sees nothing but the recorders and the slots.
LEMMA BarSame ==
  ASSUME worker' = worker, slot' = slot
  PROVE  Drains' = Drains /\ Dropped' = Dropped /\ Payloads' = Payloads
  BY DEF Drains, DrainOf, Dropped, Payloads

\* What an abstract step is.
Contract == Abstract!PartNext \/ UNCHANGED Abstract!partVars

\* A source is given up, or nothing the contract sees happens.
LEMMA DropsOrStutters ==
  ASSUME Inv, Inv', NEW s \in Sources, cancelled' = cancelled,
         coord'.phase = coord.phase, coord.phase # "finished",
         \A t \in Sources : t # s => worker'[t] = worker[t] /\ slot'[t] = slot[t],
         worker'[s].state = worker[s].state, worker'[s].got = worker[s].got,
         worker'[s].failed = worker[s].failed,
         worker[s].intentional => worker'[s].intentional,
         slot[s] = "failed" => slot'[s] = "failed"
  PROVE  Contract
  <1>1. /\ worker[s].failed \in BOOLEAN /\ worker[s].intentional \in BOOLEAN
        /\ worker'[s].intentional \in BOOLEAN
    BY SourceFacts, WorkerTypes DEF Inv, TypeInv
  <1>2. DrainOf(worker'[s]) = DrainOf(worker[s]) /\ Len(worker'[s].got) = Len(worker[s].got)
    BY DEF DrainOf
  <1>3. Drains' = Drains /\ Payloads' = Payloads
    BY <1>2, BarOne
  <1>4. DroppedOf(slot[s], worker[s]) \in BOOLEAN /\ DroppedOf(slot'[s], worker'[s]) \in BOOLEAN
        /\ (DroppedOf(slot[s], worker[s]) => DroppedOf(slot'[s], worker'[s]))
    BY <1>1 DEF DroppedOf
  <1>5. CASE DroppedOf(slot'[s], worker'[s]) = DroppedOf(slot[s], worker[s])
    <2>1. Dropped' = Dropped
      BY <1>5, BarOne
    <2> QED
      BY <1>3, <2>1 DEF Contract, Abstract!partVars
  <1>6. CASE DroppedOf(slot'[s], worker'[s]) # DroppedOf(slot[s], worker[s])
    <2>1. DroppedOf(slot[s], worker[s]) = FALSE /\ DroppedOf(slot'[s], worker'[s]) = TRUE
      BY <1>4, <1>6
    <2>2. Dropped' = [Dropped EXCEPT ![s] = TRUE] /\ ~ Dropped[s]
      BY <2>1, BarOne
    <2>3. Abstract!Drops(s)
      BY <1>3, <2>2 DEF Abstract!Drops
    <2> QED
      BY <2>3 DEF Contract, Abstract!PartNext
  <1> QED
    BY <1>5, <1>6

\* A call returns, or an operation goes on.
LEMMA PhaseMoves ==
  ASSUME Inv, Inv', worker' = worker, slot' = slot, cancelled' = cancelled,
         PhaseStep(coord.phase, coord'.phase)
  PROVE  Contract
  <1>1. Drains' = Drains /\ Dropped' = Dropped /\ Payloads' = Payloads
    BY BarSame
  <1>2. CASE coord'.phase = coord.phase
    BY <1>1, <1>2 DEF Contract, Abstract!partVars
  <1>3. CASE \/ coord.phase = "starting" /\ coord'.phase = "ready"
             \/ coord.phase = "ready" /\ coord'.phase = "armed"
             \/ coord.phase = "armed" /\ coord'.phase = "started"
    <2>1. Abstract!NextPhase(coord.phase) = coord'.phase
          /\ coord.phase \in {"starting", "ready", "armed"}
      BY <1>3 DEF Abstract!NextPhase
    <2>2. Abstract!Advances
      BY <1>1, <2>1 DEF Abstract!Advances
    <2> QED
      BY <2>2 DEF Contract, Abstract!PartNext
  <1>4. CASE coord.phase = "started" /\ coord'.phase = "finished"
    <2>1. ASSUME NEW s \in Sources
          PROVE  /\ Drains[s] # "on"
                 /\ Dropped[s] => s \notin Required
                 /\ ~ Dropped[s] => Drains[s] = "over"
      <3>1. Handled(coord', s, client'[s], child'[s], worker'[s], slot'[s], dir'[s])
        BY DEF Inv, CoordinatorInv
      <3>2. Accounted(s, client'[s], child'[s], worker[s], slot[s], dir'[s])
        BY <1>4, <3>1 DEF Handled
      <3>3. slot[s] \in {"ok", "failed"} /\ worker[s].failed \in BOOLEAN
        BY SourceFacts, WorkerTypes
      <3>4. Drains[s] = DrainOf(worker[s]) /\ Dropped[s] = DroppedOf(slot[s], worker[s])
        BY DEF Drains, Dropped, DroppedOf
      <3>5. Emptied(worker[s])
        BY <3>2 DEF Accounted
      <3>6. Drains[s] # "on"
        BY <3>4, <3>5 DEF DrainOf, Emptied
      <3>7. CASE slot[s] = "failed"
        BY <3>2, <3>4, <3>6, <3>7 DEF Accounted, DroppedOf
      <3>8. CASE slot[s] = "ok"
        BY <3>2, <3>4, <3>6, <3>8 DEF Accounted, DroppedOf, DrainOf
      <3> QED
        BY <3>3, <3>7, <3>8
    <2>2. Abstract!Finishes
      BY <1>1, <1>4, <2>1 DEF Abstract!Finishes
    <2> QED
      BY <2>2 DEF Contract, Abstract!PartNext
  <1>5. CASE coord'.phase # coord.phase /\ coord.phase # "finished" /\ coord'.phase = "failed"
    <2>1. Abstract!Fails
      BY <1>1, <1>5 DEF Abstract!Fails
    <2> QED
      BY <2>1 DEF Contract, Abstract!PartNext
  <1> QED
    BY <1>2, <1>3, <1>4, <1>5 DEF PhaseStep

\* A recorder breaks: the loss of a required source ends the capture.
LEMMA BreakContract ==
  ASSUME Inv, Inv', NEW s \in Sources, worker[s].state \in {"read", "sink"}, Reported(s),
         worker' = [worker EXCEPT ![s] = Broken], slot' = slot, coord' = coord
  PROVE  Contract
  <1> DEFINE ends == ~ worker[s].intentional
  <1>1. /\ worker \in [Sources -> Workers] /\ worker[s] \in Workers
        /\ worker[s].intentional \in BOOLEAN /\ cancelled \in BOOLEAN
    BY SourceFacts, WorkerTypes DEF Inv, TypeInv
  <1>2. worker'[s] = Broken /\ \A t \in Sources : t # s => worker'[t] = worker[t] /\ slot'[t] = slot[t]
    BY <1>1
  <1>3. /\ DrainOf(Broken) = "lost" /\ DrainOf(worker[s]) = "on" /\ Len(Broken.got) = 0
        /\ DroppedOf(slot'[s], Broken) = TRUE
    BY BrokenFacts DEF DrainOf, DroppedOf
  <1>4. /\ Drains[s] = "on" /\ Drains' = [Drains EXCEPT ![s] = "lost"]
        /\ Dropped' = [Dropped EXCEPT ![s] = TRUE] /\ Payloads' = [Payloads EXCEPT ![s] = 0]
        /\ Dropped[s] = DroppedOf(slot[s], worker[s])
    BY <1>2, <1>3, BarOne
  <1>5. cancelled' = (cancelled \/ (s \in Required /\ ends))
    BY <1>1, <1>2, BrokenFacts DEF Reported
  <1>6. ends \in IF Dropped[s] THEN BOOLEAN ELSE {TRUE}
    BY <1>1, <1>4 DEF DroppedOf
  <1> HIDE DEF ends
  <1>7. Abstract!DrainLost(s)
    BY <1>4, <1>5, <1>6 DEF Abstract!DrainLost
  <1> QED
    BY <1>7 DEF Contract, Abstract!PartNext

\* A recorder goes on, records an item, or ends after the end of file.
LEMMA DrainContract ==
  ASSUME Inv, Inv', NEW s \in Sources, worker[s].state \in {"read", "sink"}, Reported(s),
         NEW v, worker' = [worker EXCEPT ![s] = v], slot' = slot, coord' = coord,
         v.failed = worker[s].failed, v.intentional = worker[s].intentional,
         \/ v.got = worker[s].got /\ v.state \in {"read", "sink", "done"}
         \/ /\ Begun /\ Len(worker[s].got) < MaxItems /\ v.state = "sink"
            /\ Len(v.got) = Len(worker[s].got) + 1
  PROVE  Contract
  <1>1. /\ worker \in [Sources -> Workers] /\ worker[s] \in Workers /\ worker[s].failed \in BOOLEAN
        /\ cancelled \in BOOLEAN /\ SourceOK(client[s], child[s], worker[s], Begun)
    BY SourceFacts, WorkerTypes DEF Inv, TypeInv
  <1>2. worker'[s] = v /\ \A t \in Sources : t # s => worker'[t] = worker[t] /\ slot'[t] = slot[t]
    BY <1>1
  <1>3. ~ v.failed
    BY <1>1 DEF SourceOK, Drawn
  <1>4. cancelled' = cancelled
    BY <1>1, <1>2, <1>3 DEF Reported
  <1>5. DroppedOf(slot'[s], v) = DroppedOf(slot[s], worker[s])
    BY DEF DroppedOf
  <1>6. Dropped' = Dropped
    BY <1>2, <1>5, BarOne
  <1>7. DrainOf(worker[s]) = "on" /\ Drains[s] = "on"
    BY <1>2, BarOne DEF DrainOf
  <1>8. CASE v.got = worker[s].got /\ v.state \in {"read", "sink"}
    <2>1. DrainOf(v) = DrainOf(worker[s]) /\ Len(v.got) = Len(worker[s].got)
      BY <1>7, <1>8 DEF DrainOf
    <2>2. Drains' = Drains /\ Payloads' = Payloads
      BY <1>2, <2>1, BarOne
    <2> QED
      BY <1>4, <1>6, <2>2 DEF Contract, Abstract!partVars
  <1>9. CASE v.got = worker[s].got /\ v.state = "done"
    <2>1. DrainOf(v) = "over" /\ Len(v.got) = Len(worker[s].got)
      BY <1>3, <1>9 DEF DrainOf
    <2>2. Drains' = [Drains EXCEPT ![s] = "over"] /\ Payloads' = Payloads
      BY <1>2, <2>1, BarOne
    <2>3. Abstract!DrainEnds(s)
      BY <1>4, <1>6, <1>7, <2>2 DEF Abstract!DrainEnds
    <2> QED
      BY <2>3 DEF Contract, Abstract!PartNext
  <1>10. CASE /\ Begun /\ Len(worker[s].got) < MaxItems /\ v.state = "sink"
              /\ Len(v.got) = Len(worker[s].got) + 1
    <2>1. DrainOf(v) = DrainOf(worker[s])
      BY <1>7, <1>10 DEF DrainOf
    <2>2. Drains' = Drains /\ Payloads[s] = Len(worker[s].got)
          /\ Payloads' = [Payloads EXCEPT ![s] = Len(v.got)]
      BY <1>2, <2>1, BarOne
    <2>3. Payloads' = [Payloads EXCEPT ![s] = Payloads[s] + 1] /\ Payloads[s] < MaxItems
      BY <1>10, <2>2
    <2>4. Abstract!Records(s)
      BY <1>4, <1>6, <1>7, <1>10, <2>2, <2>3 DEF Abstract!Records, Begun
    <2> QED
      BY <2>4 DEF Contract, Abstract!PartNext
  <1> QED
    BY <1>8, <1>9, <1>10

\* The recorders keep the contract.
LEMMA RecorderContract ==
  ASSUME Inv, Inv', NEW s \in Sources, RecorderStep(s) \/ SinkReturns(s) \/ RecorderFails(s)
  PROVE  Contract
  <1> DEFINE w == worker[s]
  <1>1. worker \in [Sources -> Workers] /\ w \in Workers /\ w.got \in Seq(Nat)
        /\ client[s] \in Clients /\ child[s] \in Children /\ SourceOK(client[s], child[s], w, Begun)
    BY SourceFacts, WorkerTypes DEF Inv, TypeInv
  <1>2. CASE RecorderFails(s)
    BY <1>2, BreakContract DEF RecorderFails
  <1>3. ASSUME NEW state \in {"read", "done"}, w.state \in {"read", "sink"}, Reported(s),
               worker' = [worker EXCEPT ![s] = [w EXCEPT !.state = state]], slot' = slot,
               coord' = coord
        PROVE  Contract
    <2> DEFINE v == [w EXCEPT !.state = state]
    <2>1. /\ v.failed = w.failed /\ v.intentional = w.intentional /\ v.got = w.got
          /\ v.state \in {"read", "sink", "done"}
      BY <1>1 DEF Workers
    <2>2. worker' = [worker EXCEPT ![s] = v]
      BY <1>3
    <2> HIDE DEF v
    <2> QED
      BY <1>3, <2>1, <2>2, DrainContract
  <1>4. CASE SinkReturns(s)
    <2>1. /\ w.state = "sink" /\ Reported(s) /\ slot' = slot /\ coord' = coord
          /\ \/ worker' = [worker EXCEPT ![s] = Broken]
             \/ worker' = [worker EXCEPT ![s] = [w EXCEPT !.state = "read"]]
      BY <1>4 DEF SinkReturns
    <2> QED
      BY <1>3, <2>1, BreakContract
  <1>5. CASE RecorderEnds(s)
    <2>1. /\ w.state = "read" /\ Reported(s) /\ slot' = slot /\ coord' = coord
          /\ \/ worker' = [worker EXCEPT ![s] = Broken]
             \/ worker' = [worker EXCEPT ![s] = [w EXCEPT !.state = "done"]]
      BY <1>5 DEF RecorderEnds
    <2> QED
      BY <1>3, <2>1, BreakContract
  <1>6. CASE RecorderReads(s)
    <2> DEFINE r == Head(client[s].queue)
               v == Recorded(w, r)
               d == [client[s] EXCEPT !.queue = Tail(client[s].queue)]
    <2>1. /\ w.state = "read" /\ client[s].queue # <<>> /\ Reported(s) /\ slot' = slot
          /\ coord' = coord /\ worker' = [worker EXCEPT ![s] = v]
      BY <1>1, <1>6 DEF RecorderReads
    <2>2. r.type = "ITEM" /\ w.seen = "session" => Begun
      BY <1>1, <2>1, BegunType, RecordedKeeps, ZenonT(60)
    <2>3. client[s].queue \in Seq(Records)
      BY <1>1 DEF Clients
    <2>4. r \in Records
      BY <2>1, <2>3, InTail
    <2> HIDE DEF r
    <2>5. Reading(w, r, v)
      BY <1>1, <2>4, RecordedFacts
    <2> HIDE DEF v
    <2>6. CASE v = Broken
      BY <2>1, <2>6, BreakContract
    <2>7. CASE \/ v = [w EXCEPT !.seen = "session"]
               \/ v = [w EXCEPT !.seen = "end"]
               \/ v = [w EXCEPT !.seen = "eof"]
      <3>1. /\ v.failed = w.failed /\ v.intentional = w.intentional /\ v.got = w.got
            /\ v.state = w.state
        BY <1>1, <2>7 DEF Workers
      <3> QED
        BY <2>1, <3>1, DrainContract
    <2>8. CASE /\ r.type = "ITEM" /\ w.seen = "session" /\ Len(w.got) < MaxItems
               /\ v = [w EXCEPT !.got = Append(w.got, r.frame), !.state = "sink"]
      <3>1. r.frame \in Nat
        BY <2>4, <2>8, RecordFacts
      <3>2. Len(Append(w.got, r.frame)) = Len(w.got) + 1
        BY <1>1, <3>1
      <3>3. /\ v.failed = w.failed /\ v.intentional = w.intentional /\ v.state = "sink"
            /\ v.got = Append(w.got, r.frame)
        BY <1>1, <2>8 DEF Workers
      <3>4. Len(v.got) = Len(w.got) + 1
        BY <3>2, <3>3
      <3> QED
        BY <2>1, <2>2, <2>8, <3>3, <3>4, DrainContract
    <2> QED
      BY <2>5, <2>6, <2>7, <2>8 DEF Reading
  <1> QED
    BY <1>2, <1>4, <1>5, <1>6 DEF RecorderStep

\* A launch is a launch of Participant.
LEMMA LaunchContract ==
  ASSUME Inv, Inv', Launch
  PROVE  Contract
  <1>1. /\ coord.pc = "launch" /\ coord.pc # "idle"
        /\ coord' = [coord EXCEPT !.pc = "send", !.late = FALSE]
        /\ worker' = [worker EXCEPT ![Here] = NewWorker] /\ slot' = slot /\ cancelled' = cancelled
    BY DEF Launch, At
  <1>2. Here \in Sources /\ worker[Here] = NoWorker /\ slot[Here] = "ok" /\ coord.op = "READY"
    BY <1>1, HereFacts
  <1>3. coord \in Coordinators /\ coord.phase = "starting"
    <2>1. coord \in Coordinators /\ coord.phase \in PhaseOf(coord.op)
      BY <1>1, AtWork
    <2> QED
      BY <1>2, <2>1 DEF PhaseOf
  <1>4. coord'.phase = coord.phase
    BY <1>1, <1>3 DEF Coordinators
  <1>5. worker'[Here] = NewWorker
        /\ \A t \in Sources : t # Here => worker'[t] = worker[t] /\ slot'[t] = slot[t]
    <2>1. worker \in [Sources -> Workers]
      BY DEF Inv, TypeInv
    <2> QED
      BY <1>1, <1>2, <2>1
  <1>6. /\ DrainOf(NewWorker) = "on" /\ DrainOf(NoWorker) = "none"
        /\ NewWorker.got = NoWorker.got
        /\ DroppedOf("ok", NewWorker) = FALSE /\ DroppedOf("ok", NoWorker) = FALSE
    BY BrokenFacts DEF DrainOf, DroppedOf
  <1>7. Drains' = [Drains EXCEPT ![Here] = "on"] /\ Drains[Here] = "none"
    BY <1>2, <1>5, <1>6, BarOne
  <1>8. Dropped' = Dropped /\ ~ Dropped[Here]
    <2>1. slot'[Here] = "ok"
      BY <1>1, <1>2
    <2>2. /\ DroppedOf(slot'[Here], worker'[Here]) = FALSE
          /\ DroppedOf(slot[Here], worker[Here]) = FALSE
      BY <1>2, <1>5, <1>6, <2>1
    <2> QED
      BY <1>2, <1>5, <2>2, BarOne
  <1>9. Payloads' = Payloads
    <2>1. Len(worker'[Here].got) = Len(worker[Here].got)
      BY <1>2, <1>5, <1>6
    <2> QED
      BY <1>2, <1>5, <2>1, BarOne
  <1>10. Abstract!Launches(Here)
    BY <1>1, <1>3, <1>4, <1>7, <1>8, <1>9 DEF Abstract!Launches
  <1> QED
    BY <1>2, <1>10 DEF Contract, Abstract!PartNext

\* The steps at one source: it may be given up.
LEMMA SourceContract ==
  ASSUME Inv, Inv', coord.pc # "idle", cancelled' = cancelled, coord'.phase = coord.phase,
         slot' = slot \/ slot' = [slot EXCEPT ![Here] = "failed"],
         \/ worker' = worker
         \/ \E x \in BOOLEAN : worker' = [worker EXCEPT ![Here].intentional =
                                            worker[Here].intentional \/ x]
         \/ \E x \in BOOLEAN : worker' = [worker EXCEPT ![Here].stop = x]
         \/ \E x \in Nat : worker' = [worker EXCEPT ![Here].from = x]
  PROVE  Contract
  <1>1. Here \in Sources /\ coord.phase # "finished"
    BY AtWork
  <1>2. /\ worker \in [Sources -> Workers] /\ worker[Here] \in Workers
        /\ slot \in [Sources -> {"ok", "failed"}]
    BY <1>1, SourceFacts DEF Inv, TypeInv
  <1>3. \A t \in Sources : t # Here => worker'[t] = worker[t] /\ slot'[t] = slot[t]
    BY <1>1, <1>2
  <1>4. slot[Here] = "failed" => slot'[Here] = "failed"
    BY <1>1, <1>2
  <1>5. /\ worker'[Here].state = worker[Here].state /\ worker'[Here].got = worker[Here].got
        /\ worker'[Here].failed = worker[Here].failed
        /\ worker[Here].intentional => worker'[Here].intentional
    <2>1. CASE worker' = worker
      BY <2>1
    <2>2. CASE \E x \in BOOLEAN : worker' = [worker EXCEPT ![Here].intentional =
                                               worker[Here].intentional \/ x]
      <3>1. PICK x \in BOOLEAN : worker' = [worker EXCEPT ![Here].intentional =
                                              worker[Here].intentional \/ x]
        BY <2>2
      <3>2. worker'[Here] = [worker[Here] EXCEPT !.intentional = worker[Here].intentional \/ x]
        BY <1>1, <1>2, <3>1, Zenon
      <3>3. worker'[Here].intentional = (worker[Here].intentional \/ x)
        BY <1>2, <3>2, Zenon DEF Workers
      <3>4. /\ worker'[Here].state = worker[Here].state /\ worker'[Here].got = worker[Here].got
            /\ worker'[Here].failed = worker[Here].failed
        BY <1>2, <3>2, Zenon DEF Workers
      <3> QED
        BY <3>3, <3>4, Zenon
    <2>3. CASE \E x \in BOOLEAN : worker' = [worker EXCEPT ![Here].stop = x]
      BY <1>1, <1>2, <2>3 DEF Workers
    <2>4. CASE \E x \in Nat : worker' = [worker EXCEPT ![Here].from = x]
      BY <1>1, <1>2, <2>4 DEF Workers
    <2> QED
      BY <2>1, <2>2, <2>3, <2>4
  <1> QED
    BY <1>1, <1>3, <1>4, <1>5, DropsOrStutters

\* A move within an operation keeps the phase.
LEMMA SamePhase ==
  ASSUME Inv, NEW pc, NEW late,
         \/ coord' = [coord EXCEPT !.pc = pc]
         \/ coord' = [coord EXCEPT !.pc = pc, !.late = late]
         \/ coord' = [coord EXCEPT !.pc = pc, !.fatal = TRUE]
  PROVE  coord'.phase = coord.phase
  <1>1. coord \in Coordinators
    BY DEF Inv, TypeInv
  <1> QED
    BY <1>1 DEF Coordinators

\* The coordinator keeps the contract.
LEMMA CoordinatorContract ==
  ASSUME Inv, Inv', CoordinatorStep \/ CoordinatorFault \/ CallerStep
  PROVE  Contract
  <1>1. PhaseStep(coord.phase, coord'.phase)
    BY CoordinatorKeeps, CallerKeeps DEF Kept
  <1>2. CASE Launch
    BY <1>2, LaunchContract
  <1>3. CASE Unlaunched \/ LaunchUnowned
    <2>1. /\ coord.pc # "idle" /\ cancelled' = cancelled /\ worker' = worker
          /\ slot' = [slot EXCEPT ![Here] = "failed"]
      BY <1>3 DEF Unlaunched, LaunchUnowned, At
    <2>2. coord' = [coord EXCEPT !.pc = "remove"] \/ coord' = [coord EXCEPT !.pc = "abort"]
      BY <1>3 DEF Unlaunched, LaunchUnowned, Go
    <2>3. coord'.phase = coord.phase
      BY <2>2, SamePhase
    <2> QED
      BY <2>1, <2>3, SourceContract
  <1>4. CASE Send
    <2>1. coord.pc = "send" /\ coord.pc # "idle"
          /\ coord' = [coord EXCEPT !.pc = "await"] /\ cancelled' = cancelled /\ slot' = slot
      BY <1>4 DEF Send, At, Go
    <2>2. coord'.phase = coord.phase
      BY <2>1, SamePhase
    <2>3. /\ Here \in Sources /\ child[Here] \in Children /\ worker[Here] \in Workers
      BY <2>1, HereFacts
    <2>4. child[Here].frame \in Nat /\ worker[Here].from \in Nat
      BY <2>3, ChildTypes, WorkerTypes
    <2> DEFINE x == IF coord.op = "START" THEN child[Here].frame ELSE worker[Here].from
    <2>5. worker' = [worker EXCEPT ![Here].from = x]
      BY <1>4 DEF Send
    <2>6. x \in Nat
      BY <2>4
    <2> HIDE DEF x
    <2> QED
      BY <2>1, <2>2, <2>5, <2>6, SourceContract
  <1>5. CASE SendFails \/ CommandFailed \/ CommandTimesOut
    <2>1. /\ coord.pc # "idle" /\ cancelled' = cancelled /\ worker' = worker
          /\ slot' = [slot EXCEPT ![Here] = "failed"]
      BY <1>5 DEF SendFails, CommandFailed, CommandTimesOut, At, GiveUp
    <2>2. \/ coord' = [coord EXCEPT !.pc = "abort", !.late = coord.late]
          \/ coord' = [coord EXCEPT !.pc = "abort", !.late = ~ cancelled]
      BY <1>5 DEF SendFails, CommandFailed, CommandTimesOut, GiveUp
    <2>3. coord'.phase = coord.phase
      BY <2>2, SamePhase
    <2> QED
      BY <2>1, <2>3, SourceContract
  <1>6. CASE AbortCancels
    <2> DEFINE x == coord.op # "COLLECT" /\ ~ Drained(Here)
    <2>1. /\ coord.pc # "idle" /\ cancelled' = cancelled /\ slot' = slot
          /\ worker' = [worker EXCEPT ![Here].intentional = worker[Here].intentional \/ x]
      BY <1>6 DEF AbortCancels, At
    <2>2. coord' = [coord EXCEPT !.pc = "abortAck"] \/ coord' = [coord EXCEPT !.pc = "abortWait"]
      BY <1>6 DEF AbortCancels, Go
    <2>3. coord'.phase = coord.phase
      BY <2>2, SamePhase
    <2>4. x \in BOOLEAN
      OBVIOUS
    <2> HIDE DEF x
    <2> QED
      BY <2>1, <2>3, <2>4, SourceContract
  <1>7. CASE AbortAnswered \/ AbortTimesOut
    <2>1. coord.pc # "idle" /\ cancelled' = cancelled /\ slot' = slot /\ worker' = worker
      BY <1>7 DEF AbortAnswered, AbortTimesOut, At
    <2> QED
      BY <1>1, <2>1, PhaseMoves
  <1>8. CASE AbortConverges \/ AbortKills
    <2> DEFINE x == ~ Drained(Here)
    <2>1. /\ coord.pc # "idle" /\ cancelled' = cancelled /\ slot' = slot
          /\ worker' = [worker EXCEPT ![Here].stop = x]
      BY <1>8 DEF AbortConverges, AbortKills, At, pvars
    <2>2. \/ coord' = [coord EXCEPT !.pc = "abortDrain"]
          \/ coord' = [coord EXCEPT !.pc = "abortDrain", !.fatal = TRUE]
      BY <1>8 DEF AbortConverges, AbortKills, Go
    <2>3. coord'.phase = coord.phase
      BY <2>2, SamePhase
    <2>4. x \in BOOLEAN
      OBVIOUS
    <2> HIDE DEF x
    <2> QED
      BY <2>1, <2>3, <2>4, SourceContract
  <1>9. CASE CommandOK \/ AbortDrained \/ AbortUndrained \/ Remove \/ RemoveFails \/ CollectFailed
    <2>1. cancelled' = cancelled /\ slot' = slot /\ worker' = worker
      BY <1>9 DEF CommandOK, AbortDrained, AbortUndrained, Remove, RemoveFails, CollectFailed, pvars
    <2> QED
      BY <1>1, <2>1, PhaseMoves
  <1>10. CASE Collected
    <2> DEFINE failed == \/ worker[Here].failed \/ child[Here].code # 0
                         \/ client[Here].terminal = "failed"
    <2>1. /\ coord.pc = "collect" /\ coord.pc # "idle" /\ cancelled' = cancelled /\ worker' = worker
          /\ slot[Here] = "ok"
          /\ slot' = [slot EXCEPT ![Here] = IF failed THEN "failed" ELSE "ok"]
          /\ failed => coord' = [coord EXCEPT !.pc = "remove"]
      BY <1>10 DEF Collected, At, pvars
    <2> HIDE DEF failed
    <2>2. CASE failed
      <3>1. coord'.phase = coord.phase
        BY <2>1, <2>2, SamePhase
      <3> QED
        BY <2>1, <2>2, <3>1, SourceContract
    <2>3. CASE ~ failed
      <3>1. slot' = slot
        BY <2>1, <2>3, HereFacts, Untouched
      <3> QED
        BY <1>1, <2>1, <3>1, PhaseMoves
    <2> QED
      BY <2>2, <2>3
  <1>11. CASE CollectTimesOut
    <2>1. /\ coord.pc # "idle" /\ cancelled' = cancelled /\ worker' = worker
          /\ slot' = [slot EXCEPT ![Here] = "failed"]
      BY <1>11 DEF CollectTimesOut, At
    <2>2. \/ coord' = [coord EXCEPT !.pc = "abort", !.fatal = TRUE]
          \/ coord' = [coord EXCEPT !.pc = "remove", !.fatal = TRUE]
      BY <1>11 DEF CollectTimesOut
    <2>3. coord'.phase = coord.phase
      BY <2>2, SamePhase
    <2> QED
      BY <2>1, <2>3, SourceContract
  <1>12. CASE CallerStep
    <2>1. cancelled' = cancelled /\ slot' = slot /\ worker' = worker
      BY <1>12 DEF CallerStep, Arm, Start, FinishComplete, FinishAborted, Call, pvars
    <2> QED
      BY <1>1, <2>1, PhaseMoves
  <1> QED
    BY <1>2, <1>3, <1>4, <1>5, <1>6, <1>7, <1>8, <1>9, <1>10, <1>11, <1>12
    DEF CoordinatorStep, CoordinatorFault, CommandStep, AbortStep, LaunchRefused, LaunchFails

\* Clients, producers and cameras leave the capture context alone.
LEMMA SidesLeaveContext ==
  ASSUME NEW s \in Sources,
         ClientStep(s) \/ ContextKills(s) \/ ProducerStep(s) \/ CameraFrame(s) \/ SourceFault(s)
  PROVE  cancelled' = cancelled
  BY DEF ClientStep, ClientReads, ClientSeesEOF, ClientSeesAbort, ContextKills,
         ProducerStep, ServeReady, ServeArm, ServeCancel, MarkBoundary, ServeStart,
         DiscardPreStart, StreamFrame, CameraLost, ServeStop, ChildWrites, ChildBroken,
         CameraFrame, SourceFault, ArmFails, ChildDies, ChildHangs, CameraExits,
         Misbehaves

\* Every step is a step of Participant or a stutter,
LEMMA StepContract == Inv /\ Inv' /\ [MNext]_mvars => [Abstract!PartNext]_(Abstract!partVars)
  <1> SUFFICES ASSUME Inv, Inv', [MNext]_mvars PROVE Contract
    BY DEF Contract
  <1>1. CASE CoordinatorStep \/ CoordinatorFault \/ CallerStep
    BY <1>1, CoordinatorContract
  <1>2. CASE CaptureCancelled
    <2>1. Drains' = Drains /\ Dropped' = Dropped /\ Payloads' = Payloads
      BY <1>2, BarSame DEF CaptureCancelled
    <2>2. Abstract!Cancels
      BY <1>2, <2>1 DEF CaptureCancelled, Abstract!Cancels
    <2> QED
      BY <2>2 DEF Contract, Abstract!PartNext
  <1>3. ASSUME NEW s \in Sources,
               \/ RecorderStep(s) \/ SinkReturns(s) \/ RecorderFails(s)
               \/ Outside(ClientStep(s) \/ ContextKills(s) \/ ProducerStep(s))
               \/ Outside(CameraFrame(s) \/ SourceFault(s))
        PROVE  Contract
    <2>1. CASE RecorderStep(s) \/ SinkReturns(s) \/ RecorderFails(s)
      BY <2>1, RecorderContract
    <2>2. ASSUME cancelled' = cancelled, UNCHANGED <<coord, slot, worker>> PROVE Contract
      <3>1. PhaseStep(coord.phase, coord'.phase)
        BY <2>2 DEF PhaseStep
      <3> QED
        BY <2>2, <3>1, PhaseMoves
    <2>3. CASE Outside(ClientStep(s) \/ ContextKills(s) \/ ProducerStep(s))
      <3>1. cancelled' = cancelled
        BY <2>3, SidesLeaveContext DEF Outside
      <3> QED
        BY <2>2, <2>3, <3>1 DEF Outside
    <2>4. CASE Outside(CameraFrame(s) \/ SourceFault(s))
      <3>1. cancelled' = cancelled
        BY <2>4, SidesLeaveContext DEF Outside
      <3> QED
        BY <2>2, <2>4, <3>1 DEF Outside
    <2> QED
      BY <1>3, <2>1, <2>3, <2>4
  <1>4. CASE UNCHANGED mvars
    <2>1. worker' = worker /\ slot' = slot /\ coord' = coord /\ cancelled' = cancelled
      BY <1>4 DEF mvars, pvars
    <2>2. PhaseStep(coord.phase, coord'.phase)
      BY <2>1 DEF PhaseStep
    <2> QED
      BY <2>1, <2>2, PhaseMoves
  <1> QED
    BY <1>1, <1>2, <1>3, <1>4 DEF MNext, SystemStep

\* ... from an initial state of Participant.
LEMMA InitContract == MInit => Abstract!PartInit
  <1> SUFFICES ASSUME MInit PROVE Abstract!PartInit
    OBVIOUS
  <1>1. /\ slot = [s \in Sources |-> "ok"] /\ worker = [s \in Sources |-> NoWorker]
        /\ cancelled = FALSE /\ coord.phase = "starting"
    BY DEF MInit, PInit
  <1>2. DrainOf(NoWorker) = "none" /\ Len(NoWorker.got) = 0
    BY BrokenFacts DEF DrainOf
  <1>3. Drains = [s \in Sources |-> "none"]
    BY <1>1, <1>2 DEF Drains
  <1>4. Dropped = [s \in Sources |-> FALSE]
    BY <1>1, BrokenFacts DEF Dropped
  <1>5. Payloads = [s \in Sources |-> 0]
    BY <1>1, <1>2 DEF Payloads
  <1> QED
    BY <1>1, <1>3, <1>4, <1>5 DEF Abstract!PartInit

\* The coordinator, its recorders and the producers together keep the contract
\* of Participant: Finish reports success only when all drains are over and no
\* required source is lost, nothing is recorded before START or after the end,
\* and the loss of a required source ends the capture.
THEOREM CoordinatorImplementsParticipant == MSpec => ImplementsParticipant
  BY Invariance, InitContract, StepContract, PTL DEF MSpec, ImplementsParticipant, Abstract!PartSpec
=============================================================================
