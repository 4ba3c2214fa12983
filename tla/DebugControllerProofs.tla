------------------------ MODULE DebugControllerProofs ------------------------
(***************************************************************************)
(* TLAPS proofs about module DebugController, for firmware images of any   *)
(* number of blocks, any limit of the event queue and any number of        *)
(* messages the target sends unasked.                                      *)
(***************************************************************************)
EXTENDS DebugController, SequenceTheorems, TLAPS

-----------------------------------------------------------------------------
(* The inductive invariant.                                                *)

Commands == {"version", "rfStart", "set", "rfInit", "frame", "start", "stop"}
Events == {"mssUp", "rfUp", "rfInit", "frameStart", "frameEnd", "report"}
Names == Commands \cup Events \cup {NoCommand, "stray"}

Message ==
  [class : {"async", "response"}, id : Names,
   status : {"ok", "odd", "fault", "refused", "stopped"}]
LinkStep == [do : {"exec", "answer", "await"}, what : Names]
SerialStep == Reads \cup DOMAIN Changes \cup {"openPort", "wake"}

Modes == {"away", "driven", "monitor", "loading", "booted"}
Target ==
  [mode : Modes, baud : {Fast, Cold}, part : {"supported", "foreign"},
   changed : SUBSET {"clock", "baud", "image"}, frame : {"unset", "set", "running"}]

Outcome == [failed : BOOLEAN, marked : BOOLEAN, mayRun : BOOLEAN, complete : BOOLEAN]
LinkState == [command : Names, wire : Seq(Message), queue : Seq(Message)]

\* Before and after the controller exists; between its operations.
Opening == {"open", "reset", "transport", "bootstrap"} \cup SerialOps
Calm == {"prepare", "arm", "capture", "cleanup", "close", "ended"}

TypeInv ==
  /\ options \in [reset : BOOLEAN, warm : BOOLEAN, finite : BOOLEAN]
  /\ op \in Opening \cup LinkOps \cup Calm
  /\ op \in SerialOps => todo \in Seq(SerialStep)
  /\ op \in LinkOps => todo \in Seq(LinkStep)
  /\ link \in LinkState
  /\ outcome \in Outcome
  /\ target \in Target

\* After an unknown write the program only cleans up.
Halted == unknown => op \in {"close", "ended"} \/ (op = "cleanup" /\ ctl = "unknown")

\* The firmware submission writes nothing but the image.
ImageStep == {"writeRegister", "poll", "readRegister", "writeBlock", "release"}

\* Steps that change the target are behind the gate of the part.
Gated ==
  /\ op \in {"negotiate", "reopen"} => ~ options.warm
  /\ op = "submit" => target.part = "supported" /\ todo \in Seq(ImageStep)
  /\ op = "gate" => todo = <<"readPart">> \/ target.part = "supported"
  /\ op \in SerialOps =>
       \A i \in DOMAIN todo : todo[i] \in DOMAIN Changes =>
         /\ op \in {"negotiate", "submit"}
         /\ Changes[todo[i]] = "image" <=> op = "submit"
         /\ target.part = "supported" \/ \E j \in 1 .. (i - 1) : todo[j] = "readPart"

Messages == Range(link.wire) \cup Range(link.queue)

\* Where the target is while the operations follow one another.
Located ==
  /\ op = "open" => "gpio" \notin handles
  /\ op \in {"open", "probe", "negotiate", "reopen", "gate"} =>
       target.mode \in {"away", "monitor"}
  /\ op = "reset" =>
       IF "gpio" \in handles THEN target.mode = "driven"
       ELSE target.mode \in {"away", "monitor"} /\ todo = ResetScript
  /\ op = "bootstrap" => target.mode = "booted" \/ todo = BootstrapScript
  /\ op \notin Opening \cup {"ended"} => target.mode = "booted"
  /\ Messages # {} \/ target.frame # "unset" => target.mode = "booted"
  /\ op = "ended" /\ ~ outcome.marked => target.mode \in {"away", "monitor", "booted"}

\* What tells the controller that no frame runs, and that one was started.
Ending(m) == (m.class = "async" /\ m.id = "frameEnd") \/ m.status = "stopped"
StartReply(m) == m.class = "response" /\ m.id = "start"

\* No frame runs, and none is about to.
NoFrame ==
  /\ target.frame # "running"
  /\ link.command \notin {"start", "stop"}
  /\ \A m \in Messages : ~ Ending(m) /\ ~ StartReply(m)

Answer(c) == [do |-> "answer", what |-> c]
AwaitsStart == <<Await("frameStart")>>
AwaitsEnd == <<Await("frameEnd")>>

\* The frame that was started, as long as no error asks for a reset.
Framed ==
  /\ op \in {"bootstrap", "apply"} =>
       \A i \in DOMAIN todo : todo[i].what \notin {"start", "stop"}
  /\ op = "start" =>
       todo \in {TriggerScript(TRUE), <<Answer("start")>> \o AwaitsStart, AwaitsStart, <<>>}
  /\ op = "stop" =>
       todo \in {TriggerScript(FALSE), <<Answer("stop")>> \o AwaitsEnd, AwaitsEnd, <<>>}
  /\ op = "awaitEnd" => todo \in {AwaitsEnd, <<>>}
  /\ op \in Opening \cup {"prepare", "apply", "arm"} => ~ outcome.mayRun
  /\ op \in {"start", "capture", "stop", "awaitEnd"} => outcome.mayRun
  /\ ~ outcome.mayRun => NoFrame
  /\ ~ outcome.marked =>
       /\ op = "start" /\ todo = TriggerScript(TRUE) => NoFrame
       /\ link.command = "start" =>
            /\ op = "start" /\ todo = <<Answer("start")>> \o AwaitsStart
            /\ target.frame # "running"
            /\ \A m \in Messages : ~ Ending(m) /\ ~ StartReply(m)
       /\ (\E m \in Messages : Ending(m)) => target.frame # "running"
       /\ op \in {"close", "ended"} => target.frame # "running"
       /\ op \in {"stop", "awaitEnd"} /\ todo = <<>> => target.frame # "running"

Inv == TypeInv /\ Halted /\ Gated /\ OnlyKnownPartIsWritten /\ Located /\ Framed

-----------------------------------------------------------------------------
(* Sequences and messages.                                                 *)

LEMMA HeadTail ==
  ASSUME NEW S, NEW s \in Seq(S), s # <<>>
  PROVE  /\ Head(s) = s[1] /\ Head(s) \in S /\ Head(s) \in Range(s)
         /\ DOMAIN s = 1 .. Len(s) /\ Len(s) \in Nat \ {0}
         /\ Tail(s) \in Seq(S) /\ DOMAIN Tail(s) = 1 .. (Len(s) - 1)
         /\ \A i \in 1 .. (Len(s) - 1) : Tail(s)[i] = s[i + 1]
         /\ Range(Tail(s)) \subseteq Range(s)
  <1>1. DOMAIN s = 1 .. Len(s) /\ Len(s) \in Nat \ {0}
    BY EmptySeq, LenProperties
  <1>2. /\ Tail(s) \in Seq(S) /\ Len(Tail(s)) = Len(s) - 1
        /\ \A i \in 1 .. Len(Tail(s)) : Tail(s)[i] = s[i + 1]
    BY HeadTailProperties
  <1>3. DOMAIN Tail(s) = 1 .. (Len(s) - 1)
    BY <1>2, LenProperties
  <1>4. Head(s) = s[1] /\ Head(s) \in S
    BY <1>1, HeadTailProperties
  <1>5. Range(Tail(s)) \subseteq Range(s)
    BY <1>1, <1>2, <1>3 DEF Range
  <1>6. Head(s) \in Range(s)
    BY <1>1, <1>4 DEF Range
  <1> QED
    BY <1>1, <1>2, <1>3, <1>4, <1>5, <1>6

LEMMA Appended ==
  ASSUME NEW S, NEW s \in Seq(S), NEW e \in S
  PROVE  Append(s, e) \in Seq(S) /\ Range(Append(s, e)) = Range(s) \cup {e}
  <1>1. /\ Append(s, e) \in Seq(S) /\ Len(Append(s, e)) = Len(s) + 1
        /\ \A i \in 1 .. Len(s) : Append(s, e)[i] = s[i]
        /\ Append(s, e)[Len(s) + 1] = e
    BY AppendProperties
  <1>2. /\ DOMAIN s = 1 .. Len(s) /\ Len(s) \in Nat
        /\ DOMAIN Append(s, e) = 1 .. (Len(s) + 1)
    BY <1>1, LenProperties
  <1> QED
    BY <1>1, <1>2 DEF Range

LEMMA Removed ==
  ASSUME NEW S, NEW s \in Seq(S), NEW i \in DOMAIN s
  PROVE  RemoveAt(s, i) \in Seq(S) /\ Range(RemoveAt(s, i)) \subseteq Range(s)
  <1> DEFINE a == SubSeq(s, 1, i - 1)
             b == SubSeq(s, i + 1, Len(s))
  <1>1. DOMAIN s = 1 .. Len(s) /\ Len(s) \in Nat /\ i \in Int
    BY LenProperties
  <1>2. \A n \in 1 .. Len(s) : s[n] \in Range(s)
    BY <1>1 DEF Range
  <1>3. a \in Seq(Range(s)) /\ b \in Seq(Range(s))
    BY <1>1, <1>2, SubSeqProperties
  <1>4. a \o b \in Seq(Range(s))
    BY <1>3, ConcatProperties
  <1>5. Range(s) \subseteq S
    BY RangeOfSeq
  <1> QED
    BY <1>4, <1>5, SeqMonotonic, RangeOfSeq DEF RemoveAt

\* The messages that one, two or no messages more make.
LEMMA Several ==
  ASSUME NEW s \in Seq(Message), NEW m \in Message, NEW n \in Message
  PROVE  /\ s \o <<>> \in Seq(Message) /\ Range(s \o <<>>) = Range(s)
         /\ s \o <<m>> \in Seq(Message) /\ Range(s \o <<m>>) = Range(s) \cup {m}
         /\ s \o <<m, n>> \in Seq(Message) /\ Range(s \o <<m, n>>) = Range(s) \cup {m, n}
  <1> DEFINE one == <<m>>
             two == <<m, n>>
  <1>1. s \o <<>> = s
    BY ConcatEmptySeq
  <1>2. one \in Seq(Message) /\ Range(one) = {m}
    BY DEF Range
  <1>3. two \in Seq(Message) /\ Range(two) = {m, n}
    BY DEF Range
  <1> HIDE DEF one, two
  <1>4. s \o one \in Seq(Message) /\ Range(s \o one) = Range(s) \cup {m}
    BY <1>2, ConcatProperties, RangeConcatenation
  <1>5. s \o two \in Seq(Message) /\ Range(s \o two) = Range(s) \cup {m, n}
    BY <1>3, ConcatProperties, RangeConcatenation
  <1> QED
    BY <1>1, <1>4, <1>5 DEF one, two

\* What the ends of an operation do to its outcome.
LEMMA Blamed ==
  ASSUME outcome \in Outcome, NEW m \in BOOLEAN, Blame(m)
  PROVE  /\ outcome' \in Outcome /\ outcome'.mayRun = outcome.mayRun
         /\ outcome'.marked <=> outcome.marked \/ m
  BY DEF Blame, Outcome

LEMMA SubmitSteps == SubmitScript \in Seq(ImageStep)
  <1> DEFINE blocks == Copies("writeBlock", Blocks)
  <1>1. blocks \in Seq(ImageStep)
    BY DebugAssumption, IsASeq DEF Copies, ImageStep
  <1> DEFINE s1 == <<"writeRegister", "poll", "writeRegister", "readRegister",
                     "writeRegister", "poll", "writeRegister">>
             s2 == <<"writeRegister", "poll", "writeRegister">>
             s3 == <<"release">>
  <1>2. s1 \in Seq(ImageStep)
    BY DEF ImageStep
  <1>3. s2 \in Seq(ImageStep) /\ s3 \in Seq(ImageStep)
    BY DEF ImageStep
  <1>4. SubmitScript = s1 \o blocks \o s2 \o blocks \o s3
    BY DEF SubmitScript
  <1> HIDE DEF s1, s2, s3, blocks
  <1>5. s1 \o blocks \in Seq(ImageStep)
    BY <1>1, <1>2, ConcatProperties
  <1>6. s1 \o blocks \o s2 \in Seq(ImageStep)
    BY <1>3, <1>5, ConcatProperties
  <1>7. s1 \o blocks \o s2 \o blocks \in Seq(ImageStep)
    BY <1>1, <1>6, ConcatProperties
  <1> QED
    BY <1>3, <1>4, <1>7, ConcatProperties

LEMMA Changing ==
  /\ DOMAIN Changes = {"writeClock", "writeBaud", "writeRegister", "writeBlock", "release"}
  /\ Changes["writeClock"] = "clock" /\ Changes["writeBaud"] = "baud"
  /\ Changes["writeRegister"] = "image" /\ Changes["writeBlock"] = "image"
  /\ Changes["release"] = "image"
  BY DEF Changes

PortStep == {"openPort", "wake", "readStatus", "readPart", "readClock", "writeClock", "writeBaud"}

LEMMA PortSteps ==
  LET p == <<"openPort">> \o InitializeScript
      n == <<"openPort">> \o NegotiateScript
  IN  /\ p \in Seq({"openPort", "wake", "readStatus"})
      /\ n \in Seq(PortStep) /\ Len(n) = 7
      /\ n[4] = "readPart"
      /\ \A i \in 1 .. 4 : n[i] \notin {"writeClock", "writeBaud"}
  <1> DEFINE o == <<"openPort">>
             s == InitializeScript
             t == NegotiateScript
  <1>1. o \in Seq({"openPort", "wake", "readStatus"}) /\ o \in Seq(PortStep)
        /\ Len(o) = 1 /\ o[1] = "openPort"
    BY DEF PortStep
  <1>2. s \in Seq({"openPort", "wake", "readStatus"})
    BY DEF InitializeScript
  <1>3. t \in Seq(PortStep)
    BY DEF NegotiateScript, PortStep
  <1>4. Len(t) = 6 /\ t[1] = "wake" /\ t[2] = "readStatus" /\ t[3] = "readPart"
    BY DEF NegotiateScript
  <1> HIDE DEF o, s, t
  <1>5. o \o s \in Seq({"openPort", "wake", "readStatus"})
    BY <1>1, <1>2, ConcatProperties
  <1>6. /\ o \o t \in Seq(PortStep) /\ Len(o \o t) = 7
        /\ \A i \in 1 .. 7 : (o \o t)[i] = IF i <= 1 THEN o[i] ELSE t[i - 1]
    <2>1. o \in Seq(PortStep) /\ Len(o) = 1 /\ Len(t) = 6
      BY <1>1, <1>4
    <2>2. /\ o \o t \in Seq(PortStep) /\ Len(o \o t) = Len(o) + Len(t)
          /\ \A i \in 1 .. Len(o) + Len(t) :
               (o \o t)[i] = IF i <= Len(o) THEN o[i] ELSE t[i - Len(o)]
      BY <1>3, <2>1, ConcatProperties
    <2> QED
      BY <2>1, <2>2
  <1>7. /\ (o \o t)[1] = "openPort" /\ (o \o t)[2] = "wake" /\ (o \o t)[3] = "readStatus"
        /\ (o \o t)[4] = "readPart"
    BY <1>1, <1>4, <1>6
  <1> QED
    BY <1>5, <1>6, <1>7 DEF o, s, t

-----------------------------------------------------------------------------
(* The end of an operation.                                                *)

BootEvent == [class |-> "async", id |-> "mssUp", status |-> "ok"]

\* What a step of the opening does to the link and the target, at most.
Opens ==
  /\ options' = options
  /\ target' \in Target /\ target'.frame = target.frame /\ target'.part = target.part
  /\ link' \in LinkState /\ (link'.command # link.command => link'.command \notin {"start", "stop"})
  /\ Messages' \subseteq Messages \cup {BootEvent}
  /\ Messages' # {} => target'.mode = "booted"
  /\ target.mode = "booted" => target'.mode = "booted"
  /\ OnlyKnownPartIsWritten'

LEMMA OpeningNoFrame ==
  ASSUME Inv, op \in Opening, Opens PROVE NoFrame' /\ ~ outcome.mayRun
  <1>1. ~ outcome.mayRun /\ NoFrame
    BY DEF Inv, Framed
  <1>2. \A m \in Messages' : ~ Ending(m) /\ ~ StartReply(m)
    BY <1>1 DEF Opens, NoFrame, BootEvent, Ending, StartReply
  <1>3. target'.frame # "running" /\ link'.command \notin {"start", "stop"}
    BY <1>1 DEF Opens, NoFrame
  <1>4. NoFrame'
    BY <1>2, <1>3 DEF NoFrame, Ending, StartReply
  <1> QED
    BY <1>1, <1>4

\* The opening goes on.
LEMMA OpeningInv ==
  ASSUME Inv, op \in Opening, Opens, ~ unknown', op' \in Opening \cup {"prepare"}, op' # "open",
         outcome' = outcome, Gated', 
         op' \in SerialOps => todo' \in Seq(SerialStep),
         op' = "bootstrap" => /\ todo' \in Seq(LinkStep)
                              /\ \A i \in DOMAIN todo' : todo'[i].what \notin {"start", "stop"}
                              /\ target'.mode = "booted" \/ todo' = BootstrapScript,
         op' \in {"probe", "negotiate", "reopen", "gate"} =>
           target'.mode \in {"away", "monitor"},
         op' = "reset" =>
           IF "gpio" \in handles' THEN target'.mode = "driven"
           ELSE target'.mode \in {"away", "monitor"} /\ todo' = ResetScript,
         op' = "prepare" => target'.mode = "booted"
  PROVE  Inv'
  <1>1. NoFrame' /\ ~ outcome'.mayRun
    BY OpeningNoFrame
  <1>2. TypeInv'
    <2>1. op' \in LinkOps => todo' \in Seq(LinkStep)
      BY DEF LinkOps, Opening, SerialOps
    <2>2. options' = options /\ link' \in LinkState /\ target' \in Target
      BY DEF Opens
    <2>3. op' \in Opening \cup LinkOps \cup Calm
      BY DEF Calm
    <2> QED
      BY <2>1, <2>2, <2>3 DEF Inv, TypeInv
  <1>3. Halted'
    BY DEF Halted
  <1>4. Located'
    <2>1. Messages' # {} \/ target'.frame # "unset" => target'.mode = "booted"
      BY DEF Inv, Located, Opens
    <2>2. op' # "ended" /\ (op' \notin Opening => target'.mode = "booted")
      BY DEF Opening, SerialOps
    <2> QED
      BY <2>1, <2>2 DEF Located
  <1>5. Framed'
    <2>1. link'.command # "start" /\ target'.frame # "running" /\ (\A m \in Messages' : ~ Ending(m)')
      BY <1>1 DEF NoFrame, Ending
    <2>2. op' \notin {"start", "stop", "awaitEnd", "capture", "apply", "close", "ended"}
      BY DEF Opening, SerialOps
    <2> QED
      BY <1>1, <2>1, <2>2 DEF Framed, Ending
  <1> QED
    BY <1>2, <1>3, <1>4, <1>5 DEF Inv, Opens

\* OpenController gives up.
LEMMA OpenFailsInv ==
  ASSUME Inv, op \in Opening, Opens, NEW m \in BOOLEAN, OpenFails(m),
         ~ m => target'.mode \in {"away", "monitor", "booted"}
  PROVE  Inv'
  <1>1. /\ op' = "ended" /\ outcome' \in Outcome /\ outcome'.mayRun = outcome.mayRun
        /\ outcome'.marked <=> outcome.marked \/ m
    BY Blamed DEF OpenFails, Enter, Inv, TypeInv
  <1>2. NoFrame' /\ ~ outcome'.mayRun
    BY <1>1, OpeningNoFrame
  <1>3. TypeInv'
    BY <1>1 DEF Inv, TypeInv, Opens, Calm, SerialOps, LinkOps
  <1>4. Halted' /\ Gated'
    BY <1>1 DEF Halted, Gated, SerialOps
  <1>5. Located'
    BY <1>1 DEF Inv, Located, Opens, Opening, SerialOps
  <1>6. Framed'
    <2>1. link'.command # "start" /\ target'.frame # "running" /\ (\A x \in Messages' : ~ Ending(x)')
      BY <1>2 DEF NoFrame, Ending
    <2> QED
      BY <1>1, <1>2, <2>1 DEF Framed, Ending, Opening, SerialOps
  <1> QED
    BY <1>3, <1>4, <1>5, <1>6 DEF Inv, Opens

-----------------------------------------------------------------------------
(* Enhanced COM.                                                           *)

\* The step at hand is the first one left.
LEMMA AtHand ==
  ASSUME Inv, OnSerial
  PROVE  /\ op \in SerialOps /\ op \in Opening /\ ~ unknown
         /\ todo \in Seq(SerialStep) /\ todo # <<>> /\ Step = todo[1] /\ Step \in SerialStep
         /\ Step \in DOMAIN Changes =>
              /\ op \in {"negotiate", "submit"}
              /\ Changes[Step] = "image" <=> op = "submit"
              /\ target.part = "supported"
  <1>1. op \in SerialOps /\ todo \in Seq(SerialStep) /\ todo # <<>>
    BY DEF OnSerial, Inv, TypeInv
  <1>2. /\ Step = todo[1] /\ Step \in SerialStep
        /\ DOMAIN todo = 1 .. Len(todo) /\ Len(todo) \in Nat \ {0}
    BY <1>1, HeadTail DEF Step
  <1>3. 1 \in DOMAIN todo
    BY <1>2
  <1>4. todo[1] \in DOMAIN Changes =>
          /\ op \in {"negotiate", "submit"}
          /\ Changes[todo[1]] = "image" <=> op = "submit"
          /\ target.part = "supported" \/ \E j \in 1 .. (1 - 1) : todo[j] = "readPart"
    BY <1>1, <1>3 DEF Inv, Gated
  <1>5. ~ unknown /\ op \in Opening
    BY <1>1 DEF Inv, Halted, SerialOps, Opening
  <1> QED
    BY <1>1, <1>2, <1>4, <1>5

LEMMA DeliveredOpens ==
  ASSUME Inv, OnSerial, Delivered(Step), options' = options
  PROVE  Opens /\ (op # "submit" => target'.mode = target.mode)
  <1>1. PICK t \in {target} \cup (IF Hears THEN {Acted(Step)} ELSE {}) :
          target' = t /\ link' = [link EXCEPT !.wire = WireAfter(t)]
    BY DEF Delivered
  <1>2. target \in Target /\ link \in LinkState /\ OnlyKnownPartIsWritten
    BY DEF Inv, TypeInv
  <1>3. /\ t \in Target /\ t.frame = target.frame /\ t.part = target.part
        /\ target.mode = "booted" => t.mode = "booted"
        /\ op # "submit" => t.mode = target.mode
        /\ t.changed # {} => /\ target.part = "supported"
                             /\ options.warm => t.changed = {"image"}
    <2>1. CASE t = target
      BY <1>2, <2>1 DEF OnlyKnownPartIsWritten
    <2>2. CASE Step \in DOMAIN Changes /\ target.mode # "booted" /\ t = Acted(Step)
      <3> DEFINE c == Changes[Step]
                 b == IF Step = "writeBaud" THEN Fast ELSE target.baud
                 m == IF Step = "release" THEN "booted"
                      ELSE IF c = "image" THEN "loading" ELSE target.mode
      <3>1. /\ c \in {"clock", "baud", "image"} /\ b \in {Fast, Cold} /\ m \in Modes
            /\ Step = "release" => c = "image"
        BY <1>2, <2>2, Changing DEF Target, Modes
      <3>2. t = [target EXCEPT !.changed = @ \cup {c}, !.baud = b, !.mode = m]
        BY <2>2 DEF Acted
      <3>3. /\ op \in {"negotiate", "submit"} /\ target.part = "supported"
            /\ c = "image" <=> op = "submit"
            /\ op = "negotiate" => ~ options.warm
        BY <2>2, AtHand DEF Inv, Gated
      <3>4. op # "submit" => m = target.mode
        BY <3>1, <3>3
      <3> HIDE DEF c, b, m
      <3>5. /\ t \in Target /\ t.frame = target.frame /\ t.part = target.part
            /\ t.changed = target.changed \cup {c} /\ t.mode = m
        BY <1>2, <3>1, <3>2 DEF Target
      <3>6. options.warm => t.changed = {"image"}
        BY <1>2, <3>3, <3>5 DEF OnlyKnownPartIsWritten
      <3> QED
        BY <2>2, <3>3, <3>4, <3>5, <3>6
    <2> QED
      BY <1>1, <2>1, <2>2 DEF Hears, Acted
  <1>4. WireAfter(t) \in Seq(Message) /\ Range(WireAfter(t)) \subseteq Range(link.wire) \cup {BootEvent}
        /\ (t.mode # "booted" => WireAfter(t) = link.wire)
    <2>1. BootEvent \in Message /\ link.wire \in Seq(Message)
      BY <1>2 DEF BootEvent, Message, Names, Commands, Events, LinkState
    <2> QED
      BY <2>1, Appended DEF WireAfter, BootEvent
  <1>5. /\ link' \in LinkState /\ link'.command = link.command
        /\ link'.wire = WireAfter(t) /\ link'.queue = link.queue
    BY <1>1, <1>2, <1>4 DEF LinkState
  <1>6. /\ Messages' \subseteq Messages \cup {BootEvent}
        /\ Messages' # {} => t.mode = "booted"
    <2>1. Messages' = Range(WireAfter(t)) \cup Range(link.queue)
      BY <1>5 DEF Messages
    <2>2. Messages # {} => target.mode = "booted"
      BY DEF Inv, Located
    <2> QED
      BY <1>3, <1>4, <2>1, <2>2 DEF Messages
  <1> QED
    BY <1>1, <1>3, <1>5, <1>6 DEF Opens, OnlyKnownPartIsWritten

\* A step that leaves the link and the target alone.
LEMMA UntouchedOpens ==
  ASSUME Inv, UNCHANGED <<options, target, link>> PROVE Opens
  <1>1. Messages' = Messages
    BY DEF Messages
  <1>2. Messages # {} => target.mode = "booted"
    BY DEF Inv, Located
  <1> QED
    BY <1>1, <1>2 DEF Opens, Inv, TypeInv, OnlyKnownPartIsWritten

\* Without effect on the image, the target stays in its monitor.
LEMMA SerialFailsInv ==
  ASSUME Inv, op \in SerialOps, Opens, NEW kind, SerialFails(kind),
         op # "submit" => target'.mode = target.mode,
         unknown' = unknown \/ kind = "error"
  PROVE  Inv'
  <1>1. /\ op \in Opening /\ ~ unknown
        /\ op # "submit" => target.mode \in {"away", "monitor"}
    BY DEF Inv, Halted, Located, Opening, SerialOps
  <1>2. CASE OpenFails(FALSE) /\ op # "submit"
    BY <1>1, <1>2, OpenFailsInv
  <1>3. CASE OpenFails(TRUE)
    BY <1>1, <1>3, OpenFailsInv
  <1>4. CASE /\ op = "probe" /\ Negotiable(kind) /\ UNCHANGED outcome
             /\ Enter("negotiate", <<"openPort">> \o NegotiateScript)
    <2>1. kind = "rejected" /\ ~ options.warm /\ options' = options
      BY <1>4 DEF Negotiable, Opens
    <2>2. /\ op' = "negotiate" /\ todo' \in Seq(PortStep) /\ Len(todo') = 7
          /\ todo'[4] = "readPart"
          /\ \A i \in 1 .. 4 : todo'[i] \notin {"writeClock", "writeBaud"}
      BY <1>4, PortSteps DEF Enter
    <2>3. DOMAIN todo' = 1 .. 7 /\ (\A i \in 1 .. 7 : todo'[i] \in PortStep)
      BY ZenonT(40), <2>2, LenProperties, ElementOfSeq
    <2>4. \A i \in DOMAIN todo' : todo'[i] \in DOMAIN Changes =>
            /\ Changes[todo'[i]] # "image"
            /\ \E j \in 1 .. (i - 1) : todo'[j] = "readPart"
      <3> SUFFICES ASSUME NEW i \in 1 .. 7, todo'[i] \in DOMAIN Changes
                   PROVE  Changes[todo'[i]] # "image" /\ 4 \in 1 .. (i - 1)
        BY <2>2, <2>3
      <3>1. todo'[i] \in {"writeClock", "writeBaud"}
        BY <2>3, Changing DEF PortStep
      <3> QED
        BY <2>2, <3>1, Changing
    <2>5. Gated'
      BY <2>1, <2>2, <2>4 DEF Gated
    <2>6. todo' \in Seq(SerialStep)
      BY <2>2, SeqMonotonic, Changing DEF PortStep, SerialStep, Reads
    <2> QED
      BY <1>1, <1>4, <2>1, <2>2, <2>5, <2>6, OpeningInv DEF Opening, SerialOps
  <1> QED
    BY <1>2, <1>3, <1>4 DEF SerialFails

\* What is left of a script is gated as the script was.
LEMMA SerialAdvanceInv ==
  ASSUME Inv, OnSerial \/ (op \in SerialOps /\ todo # <<>>), Opens, Advance,
         op # "submit" => target'.mode = target.mode,
         Step = "readPart" => target.part = "supported",
         outcome' = outcome, unknown' = unknown
  PROVE  Inv'
  <1>1. /\ op \in SerialOps /\ op \in Opening /\ ~ unknown /\ op' = op /\ todo' = Tail(todo)
        /\ todo \in Seq(SerialStep) /\ todo # <<>>
        /\ options' = options /\ target'.part = target.part
    BY DEF OnSerial, Advance, Opens, Inv, TypeInv, Halted, SerialOps, Opening
  <1>2. /\ Step = todo[1] /\ Len(todo) \in Nat \ {0} /\ DOMAIN todo = 1 .. Len(todo)
        /\ todo' \in Seq(SerialStep) /\ DOMAIN todo' = 1 .. (Len(todo) - 1)
        /\ \A i \in 1 .. (Len(todo) - 1) : todo'[i] = todo[i + 1]
    BY <1>1, HeadTail DEF Step
  <1>3. op = "gate" => target.part = "supported"
    <2>1. CASE todo = <<"readPart">>
      BY <1>2, <2>1
    <2> QED
      BY <2>1 DEF Inv, Gated
  <1>4. ASSUME NEW i \in DOMAIN todo', todo'[i] \in DOMAIN Changes
        PROVE  /\ op \in {"negotiate", "submit"}
               /\ Changes[todo'[i]] = "image" <=> op = "submit"
               /\ target.part = "supported" \/ \E j \in 1 .. (i - 1) : todo'[j] = "readPart"
    <2>1. i + 1 \in DOMAIN todo /\ todo'[i] = todo[i + 1] /\ i \in 1 .. (Len(todo) - 1)
      BY <1>2
    <2>2. /\ op \in {"negotiate", "submit"}
          /\ Changes[todo'[i]] = "image" <=> op = "submit"
          /\ target.part = "supported" \/ \E j \in 1 .. ((i + 1) - 1) : todo[j] = "readPart"
      BY <1>1, <1>4, <2>1 DEF Inv, Gated
    <2>3. ASSUME target.part # "supported"
          PROVE  \E j \in 1 .. (i - 1) : todo'[j] = "readPart"
      <3>1. PICK j \in 1 .. i : todo[j] = "readPart"
        BY <2>1, <2>2, <2>3
      <3>2. j # 1 /\ j - 1 \in 1 .. (i - 1)
        BY <1>2, <2>1, <2>3, <3>1
      <3>3. todo'[j - 1] = todo[(j - 1) + 1]
        BY <1>2, <2>1, <3>2
      <3> QED
        BY <3>1, <3>2, <3>3
    <2> QED
      BY <2>2, <2>3
  <1>5. Gated'
    <2>1. op \in {"negotiate", "reopen"} => ~ options.warm
      BY DEF Inv, Gated
    <2>2. op = "submit" => target.part = "supported" /\ todo' \in Seq(ImageStep)
      BY <1>1, HeadTail DEF Inv, Gated
    <2> QED
      BY <1>1, <1>3, <1>4, <2>1, <2>2 DEF Gated
  <1>6. op \in {"probe", "negotiate", "reopen", "gate"} => target'.mode \in {"away", "monitor"}
    BY DEF Inv, Located
  <1> QED
    BY <1>1, <1>2, <1>5, <1>6, OpeningInv DEF Opening, SerialOps

LEMMA SerialInv ==
  ASSUME Inv, Serial PROVE Inv'
  <1> USE DEF OnSerial
  <1>1. CASE OpenPort
    <2>1. /\ op \in SerialOps /\ op \in Opening /\ todo # <<>> /\ Step = "openPort"
          /\ UNCHANGED <<options, target, link, unknown>>
      BY <1>1 DEF OpenPort, SerialOps, Opening
    <2>2. Opens
      BY <2>1, UntouchedOpens
    <2>3. CASE OpenFails(FALSE)
      <3>1. op # "submit"
        <4>1. todo \in Seq(ImageStep) => Step \in ImageStep
          BY <2>1, HeadTail DEF Step
        <4> QED
          BY <2>1, <4>1 DEF Inv, Gated, ImageStep
      <3> QED
        BY <2>1, <2>2, <2>3, <3>1, OpenFailsInv DEF Inv, Located, SerialOps
    <2> QED
      BY <1>1, <2>1, <2>2, <2>3, SerialAdvanceInv DEF OpenPort
  <1>2. CASE SerialRefused
    BY <1>2, UntouchedOpens, SerialFailsInv DEF SerialRefused
  <1>3. CASE SerialWriteUnknown
    <2>1. Opens /\ (op # "submit" => target'.mode = target.mode)
      BY <1>3, DeliveredOpens DEF SerialWriteUnknown
    <2> QED
      BY <1>3, <2>1, SerialFailsInv DEF SerialWriteUnknown
  <1>4. CASE SerialWrite
    <2>1. Opens /\ (op # "submit" => target'.mode = target.mode)
      BY <1>4, DeliveredOpens DEF SerialWrite
    <2> QED
      BY <1>4, <2>1, SerialAdvanceInv DEF SerialWrite, Reads
  <1>5. CASE SerialRead
    <2>1. Opens /\ target' = target /\ OnSerial /\ unknown' = unknown
      BY <1>5, UntouchedOpens DEF SerialRead
    <2>2. CASE SerialFails("error")
      BY <2>1, <2>2, SerialFailsInv
    <2>3. CASE Advance /\ outcome' = outcome /\ ~ (Step = "readPart" /\ target.part = "foreign")
      <3>1. target.part \in {"supported", "foreign"}
        BY DEF Inv, TypeInv, Target
      <3> QED
        BY <2>1, <2>3, <3>1, SerialAdvanceInv
    <2> QED
      BY <1>5, <2>2, <2>3 DEF SerialRead
  <1>6. CASE SerialReadFails
    <2>1. Opens /\ target' = target /\ OnSerial /\ unknown' = unknown
      BY <1>6, UntouchedOpens DEF SerialReadFails
    <2>2. PICK kind \in {"rejected", "error"} : SerialFails(kind)
      BY <1>6 DEF SerialReadFails
    <2> QED
      BY <2>1, <2>2, SerialFailsInv DEF SerialOps
  <1>7. CASE SerialDone
    <2>1. /\ op \in Opening /\ todo = <<>> /\ UNCHANGED <<options, target, link, unknown>>
          /\ ~ unknown /\ Opens
      BY <1>7, UntouchedOpens DEF SerialDone, SerialOps, Opening, Inv, Halted
    <2>2. op # "submit" => target.mode \in {"away", "monitor"}
      BY <1>7 DEF SerialDone, SerialOps, Inv, Located
    <2>3. CASE op # "submit" /\ OpenFails(FALSE)
      BY <2>1, <2>2, <2>3, OpenFailsInv
    <2>4. CASE op # "submit" /\ Enter("gate", <<"readPart">>) /\ UNCHANGED outcome
      <3>1. op' = "gate" /\ todo' = <<"readPart">> /\ todo' \in Seq(SerialStep)
        BY <2>4 DEF Enter, SerialStep, Reads
      <3>2. Gated'
        BY <3>1, Changing DEF Gated
      <3> QED
        BY <2>1, <2>2, <2>4, <3>1, <3>2, OpeningInv DEF Opening, SerialOps
    <2>5. CASE /\ op = "negotiate" /\ UNCHANGED outcome
               /\ Enter("reopen", <<"openPort">> \o InitializeScript)
      <3>1. op' = "reopen" /\ todo' \in Seq({"openPort", "wake", "readStatus"})
        BY <2>5, PortSteps DEF Enter
      <3>2. \A i \in DOMAIN todo' : todo'[i] \in {"openPort", "wake", "readStatus"}
        BY <3>1, ElementOfSeq, LenProperties
      <3>3. todo' \in Seq(SerialStep)
        BY <3>1, SeqMonotonic DEF SerialStep, Reads
      <3>4. Gated'
        <4>1. ~ options'.warm
          BY <2>1, <2>5 DEF Inv, Gated
        <4> QED
          BY <3>1, <3>2, <4>1, Changing DEF Gated
      <3> QED
        BY <2>1, <2>2, <2>5, <3>1, <3>3, <3>4, OpeningInv DEF Opening, SerialOps
    <2>6. CASE op = "gate" /\ UNCHANGED outcome /\ Enter("submit", SubmitScript)
      <3>1. op' = "submit" /\ todo' \in Seq(ImageStep)
        BY <2>6, SubmitSteps DEF Enter
      <3>2. \A i \in DOMAIN todo' : todo'[i] \in ImageStep
        BY <3>1, ElementOfSeq, LenProperties
      <3>3. todo' \in Seq(SerialStep)
        BY <3>1, SeqMonotonic, Changing DEF ImageStep, SerialStep, Reads
      <3>4. target'.part = "supported"
        BY <2>1, <2>6 DEF Inv, Gated
      <3>5. Gated'
        BY <3>1, <3>2, <3>4, Changing DEF Gated, ImageStep
      <3> QED
        BY <2>1, <2>6, <3>1, <3>3, <3>5, OpeningInv DEF Opening, SerialOps
    <2>7. CASE op = "submit" /\ UNCHANGED outcome /\ Enter("transport", TransportScript)
      <3>1. op' = "transport"
        BY <2>7 DEF Enter
      <3>2. Gated'
        BY <3>1 DEF Gated, SerialOps
      <3> QED
        BY <2>1, <2>7, <3>1, <3>2, OpeningInv DEF Opening, SerialOps
    <2> QED
      BY <1>7, <2>3, <2>4, <2>5, <2>6, <2>7 DEF SerialDone
  <1> QED
    BY <1>1, <1>2, <1>3, <1>4, <1>5, <1>6, <1>7 DEF Serial

-----------------------------------------------------------------------------
(* Reset and transport.                                                    *)

\* A port is opened to see whether the monitor answers.
LEMMA ProbeInv ==
  ASSUME Inv, op \in Opening, Opens, ~ unknown', outcome' = outcome,
         Enter("probe", <<"openPort">> \o InitializeScript),
         target'.mode \in {"away", "monitor"}
  PROVE  Inv'
  <1>1. op' = "probe" /\ todo' \in Seq({"openPort", "wake", "readStatus"})
    BY PortSteps DEF Enter
  <1>2. \A i \in DOMAIN todo' : todo'[i] \in {"openPort", "wake", "readStatus"}
    BY <1>1, ElementOfSeq, LenProperties
  <1>3. todo' \in Seq(SerialStep)
    BY <1>1, SeqMonotonic DEF SerialStep, Reads
  <1>4. Gated'
    BY <1>1, <1>2, Changing DEF Gated
  <1> QED
    BY <1>1, <1>3, <1>4, OpeningInv DEF Opening, SerialOps

LEMMA OpenControllerInv ==
  ASSUME Inv, OpenController PROVE Inv'
  <1>1. /\ op = "open" /\ op \in Opening /\ UNCHANGED <<options, target, link, unknown>>
        /\ ~ unknown /\ target.mode \in {"away", "monitor"} /\ Opens
    BY UntouchedOpens DEF OpenController, Opening, Inv, Halted, Located
  <1>2. CASE OpenFails(FALSE)
    BY <1>1, <1>2, OpenFailsInv
  <1>3. CASE Enter("reset", ResetScript) /\ UNCHANGED <<handles, outcome>>
    <2>1. op' = "reset" /\ todo' = ResetScript /\ op' \in Opening /\ op' \notin SerialOps
      BY <1>3 DEF Enter, Opening, SerialOps
    <2>2. Gated'
      BY <2>1 DEF Gated
    <2>3. "gpio" \notin handles'
      BY <1>1, <1>3 DEF Inv, Located
    <2> QED
      BY <1>1, <1>3, <2>1, <2>2, <2>3, OpeningInv
  <1>4. CASE Enter("probe", <<"openPort">> \o InitializeScript) /\ UNCHANGED outcome
    BY <1>1, <1>4, ProbeInv
  <1> QED
    BY <1>2, <1>3, <1>4 DEF OpenController

\* The pins are driven from the open of interface D on.
LEMMA ResetInv ==
  ASSUME Inv, ResetStep \/ ResetFails \/ ResetDone PROVE Inv'
  <1>1. /\ op = "reset" /\ op \in Opening /\ UNCHANGED <<options, link>> /\ ~ unknown
        /\ IF "gpio" \in handles THEN target.mode = "driven"
           ELSE target.mode \in {"away", "monitor"} /\ todo = ResetScript
        /\ target \in Target /\ link \in LinkState /\ Messages = {} /\ OnlyKnownPartIsWritten
    BY DEF ResetStep, ResetFails, ResetDone, Opening, Inv, TypeInv, Halted, Located
  <1>2. ASSUME NEW m \in Modes, target' = [target EXCEPT !.mode = m]
        PROVE  Opens /\ target'.mode = m
    <2>1. /\ target' \in Target /\ target'.frame = target.frame /\ target'.part = target.part
          /\ target'.changed = target.changed /\ target'.mode = m
      BY <1>1, <1>2 DEF Target
    <2>2. Messages' = {}
      BY <1>1 DEF Messages
    <2> QED
      BY <1>1, <2>1, <2>2 DEF Opens, OnlyKnownPartIsWritten
  <1>3. CASE ResetStep
    <2>1. /\ target' = [target EXCEPT !.mode = "driven"] /\ op' = "reset"
          /\ UNCHANGED <<outcome, unknown>>
      BY <1>1, <1>3 DEF ResetStep, Advance
    <2>2. "gpio" \in handles'
      <3>1. CASE "gpio" \in handles
        BY <1>3, <3>1 DEF ResetStep
      <3>2. CASE "gpio" \notin handles
        <4>1. Step = "openGPIO"
          BY <1>1, <3>2 DEF Step, ResetScript
        <4>2. "openGPIO" \in DOMAIN ResetOpens /\ ResetOpens["openGPIO"] = "gpio"
          BY DEF ResetOpens
        <4> QED
          BY <1>3, <4>1, <4>2 DEF ResetStep
      <3> QED
        BY <3>1, <3>2
    <2>3. Opens /\ target'.mode = "driven"
      BY <1>2, <2>1 DEF Modes
    <2>4. Gated'
      BY <2>1 DEF Gated, SerialOps
    <2> QED
      BY <1>1, <2>1, <2>2, <2>3, <2>4, OpeningInv DEF SerialOps
  <1>4. CASE ResetFails
    <2> DEFINE opened == "gpio" \in handles
    <2>0. opened \in BOOLEAN
      OBVIOUS
    <2>1. PICK driven \in {opened, TRUE} :
            /\ target' = IF driven THEN [target EXCEPT !.mode = "driven"] ELSE target
            /\ OpenFails(driven)
      BY <1>4 DEF ResetFails
    <2>2. CASE driven
      <3>1. Opens /\ OpenFails(TRUE)
        BY <1>2, <2>1, <2>2 DEF Modes
      <3> QED
        BY <1>1, <3>1, OpenFailsInv
    <2>3. CASE ~ driven
      <3>1. driven = opened
        BY <2>3
      <3>2. driven = FALSE /\ "gpio" \notin handles
        BY <2>0, <2>3, <3>1
      <3>3. OpenFails(FALSE) /\ target' = target
        BY <2>1, <3>2
      <3>4. Opens
        BY <1>1, <3>3, UntouchedOpens
      <3> QED
        BY <1>1, <3>2, <3>3, <3>4, OpenFailsInv
    <2> QED
      BY <2>2, <2>3
  <1>5. CASE ResetDone
    <2>0. PICK rate \in {Fast, Cold} :
            target' = [target EXCEPT !.mode = "monitor", !.baud = rate]
      BY <1>5 DEF ResetDone
    <2>1. /\ UNCHANGED <<outcome, unknown>>
          /\ Enter("probe", <<"openPort">> \o InitializeScript)
      BY <1>5 DEF ResetDone
    <2>2. /\ target' \in Target /\ target'.frame = target.frame /\ target'.part = target.part
          /\ target'.changed = target.changed /\ target'.mode = "monitor"
      BY <1>1, <2>0 DEF Target, Modes
    <2>3. Messages' = {} /\ target.mode # "booted"
      BY <1>1 DEF Messages
    <2>4. Opens
      BY <1>1, <2>2, <2>3 DEF Opens, OnlyKnownPartIsWritten
    <2> QED
      BY <1>1, <2>1, <2>2, <2>4, ProbeInv
  <1> QED
    BY <1>3, <1>4, <1>5

LEMMA BootstrapSteps ==
  /\ BootstrapScript \in Seq(LinkStep) /\ BootstrapScript # <<>>
  /\ BootstrapScript[1] = Await("mssUp")
  /\ \A i \in DOMAIN BootstrapScript : BootstrapScript[i].what \notin {"start", "stop"}
  <1>1. \A w \in Names : Await(w) \in LinkStep /\ Exec(w) \in LinkStep
                         /\ Await(w).what = w /\ Exec(w).what = w
    BY DEF Await, Exec, LinkStep
  <1>2. {"mssUp", "version", "rfStart", "rfUp"} \subseteq Names
    BY DEF Names, Commands, Events
  <1>3. BootstrapScript \in Seq(LinkStep)
    BY <1>1, <1>2 DEF BootstrapScript
  <1>4. /\ BootstrapScript # <<>> /\ BootstrapScript[1] = Await("mssUp")
        /\ DOMAIN BootstrapScript = 1 .. 5
    BY DEF BootstrapScript
  <1>5. ASSUME NEW i \in 1 .. 5 PROVE BootstrapScript[i].what \notin {"start", "stop"}
    BY <1>1, <1>2 DEF BootstrapScript
  <1> QED
    BY <1>3, <1>4, <1>5

LEMMA TransportInv ==
  ASSUME Inv, TransportStep \/ TransportFails PROVE Inv'
  <1>1. /\ op = "transport" /\ op \in Opening /\ UNCHANGED <<options, target, link, unknown>>
        /\ ~ unknown /\ Opens
    BY UntouchedOpens DEF TransportStep, TransportFails, Opening, Inv, Halted
  <1>2. CASE TransportFails
    BY <1>1, <1>2, OpenFailsInv DEF TransportFails
  <1>3. CASE Advance /\ UNCHANGED outcome
    <2>1. op' = "transport"
      BY <1>1, <1>3 DEF Advance
    <2>2. Gated'
      BY <2>1 DEF Gated, SerialOps
    <2> QED
      BY <1>1, <1>3, <2>1, <2>2, OpeningInv DEF SerialOps
  <1>4. CASE Enter("bootstrap", BootstrapScript) /\ UNCHANGED outcome
    <2>1. op' = "bootstrap" /\ todo' = BootstrapScript
      BY <1>4 DEF Enter
    <2>2. Gated'
      BY <2>1 DEF Gated, SerialOps
    <2> QED
      BY <1>1, <1>4, <2>1, <2>2, OpeningInv, BootstrapSteps DEF Opening, SerialOps
  <1> QED
    BY <1>2, <1>3, <1>4 DEF TransportStep

-----------------------------------------------------------------------------
(* mmWaveLink.                                                             *)

LEMMA LinkSteps ==
  /\ \A w \in Names : /\ Await(w) \in LinkStep /\ Exec(w) \in LinkStep /\ Answer(w) \in LinkStep
                      /\ Await(w).what = w /\ Exec(w).what = w /\ Answer(w).what = w
                      /\ Await(w).do = "await" /\ Exec(w).do = "exec" /\ Answer(w).do = "answer"
  /\ \A s \in LinkStep : [s EXCEPT !.do = "answer"] = Answer(s.what)
  /\ {"start", "stop", "frameStart", "frameEnd"} \subseteq Names
  BY DEF Await, Exec, Answer, LinkStep, Names, Commands, Events

\* A sequence of two.
LEMMA Pair ==
  ASSUME NEW x, NEW y
  PROVE  /\ Head(<<x, y>>) = x /\ Tail(<<x, y>>) = <<y>> /\ <<x>> \o <<y>> = <<x, y>>
         /\ <<x, y>> # <<>> /\ Head(<<y>>) = y /\ Tail(<<y>>) = <<>> /\ <<y>> # <<>>
  <1> DEFINE S == {x, y}
             s == <<x>>
             t == <<y>>
             p == <<x, y>>
  <1>1. s \in Seq(S) /\ Len(s) = 1 /\ s[1] = x
    OBVIOUS
  <1>2. t \in Seq(S) /\ Len(t) = 1 /\ t[1] = y
    OBVIOUS
  <1>3. p \in Seq(S) /\ Len(p) = 2 /\ p[1] = x /\ p[2] = y
    OBVIOUS
  <1> HIDE DEF S, s, t, p
  <1>4. /\ s \o t \in Seq(S) /\ Len(s \o t) = Len(s) + Len(t)
        /\ \A i \in 1 .. Len(s) + Len(t) : (s \o t)[i] = IF i <= Len(s) THEN s[i] ELSE t[i - Len(s)]
    BY <1>1, <1>2, ConcatProperties
  <1>5. Len(s \o t) = 2 /\ (s \o t)[1] = x /\ (s \o t)[2] = y
    BY <1>1, <1>2, <1>4
  <1>6. s \o t = p
    BY <1>3, <1>4, <1>5, SeqEqual
  <1> QED
    BY <1>6 DEF s, t, p

\* The script of a trigger, step by step.
LEMMA TriggerSteps ==
  ASSUME NEW c \in Names, NEW e \in Names
  PROVE  LET whole == <<Exec(c), Await(e)>>
             rest == <<Answer(c)>> \o <<Await(e)>>
             last == <<Await(e)>>
         IN  /\ {whole, rest, last, <<>>} \subseteq Seq(LinkStep)
             /\ whole # <<>> /\ Head(whole) = Exec(c) /\ Tail(whole) = last
             /\ rest # <<>> /\ Head(rest) = Answer(c) /\ Tail(rest) = last
             /\ last # <<>> /\ Head(last) = Await(e) /\ Tail(last) = <<>>
  <1>1. Await(e) \in LinkStep /\ Exec(c) \in LinkStep /\ Answer(c) \in LinkStep
    BY LinkSteps
  <1>2. /\ <<Exec(c), Await(e)>> \in Seq(LinkStep) /\ <<Answer(c), Await(e)>> \in Seq(LinkStep)
        /\ <<Await(e)>> \in Seq(LinkStep) /\ <<>> \in Seq(LinkStep)
    BY <1>1
  <1>3. <<Answer(c)>> \o <<Await(e)>> = <<Answer(c), Await(e)>>
    BY Pair
  <1> QED
    BY <1>2, <1>3, Pair

\* What an exchange does to the link, at most.
Exchanges ==
  /\ options' = options /\ target' = target /\ link' \in LinkState
  /\ Messages' \subseteq Messages
  /\ link'.command # link.command => Step.do = "exec" /\ link'.command = Step.what

LEMMA AtLink ==
  ASSUME Inv, OnLink
  PROVE  /\ ~ unknown /\ op \in LinkOps /\ todo \in Seq(LinkStep) /\ todo # <<>>
         /\ Step = todo[1] /\ Step \in LinkStep /\ target \in Target /\ link \in LinkState
         /\ link.wire \in Seq(Message) /\ link.queue \in Seq(Message)
         /\ op = "bootstrap" <=> op \in Opening
         /\ Step.what \in {"start", "stop"} => op \notin {"bootstrap", "apply"}
         /\ op \in {"bootstrap", "apply"} <=> ~ outcome.mayRun
         /\ op # "bootstrap" \/ Messages # {} => target.mode = "booted"
  <1>1. /\ ~ unknown /\ op \in LinkOps /\ todo \in Seq(LinkStep) /\ todo # <<>>
        /\ target \in Target /\ link \in LinkState
    BY DEF OnLink, Inv, TypeInv, Halted, LinkOps
  <1>2. Step = todo[1] /\ Step \in LinkStep /\ 1 \in DOMAIN todo
    BY <1>1, HeadTail DEF Step
  <1>3. link.wire \in Seq(Message) /\ link.queue \in Seq(Message)
    BY <1>1 DEF LinkState
  <1>4. op = "bootstrap" <=> op \in Opening
    BY <1>1 DEF LinkOps, Opening, SerialOps
  <1>5. Step.what \in {"start", "stop"} => op \notin {"bootstrap", "apply"}
    BY <1>2 DEF Inv, Framed
  <1>6. op \in {"bootstrap", "apply"} <=> ~ outcome.mayRun
    BY <1>1, <1>4 DEF Inv, Framed, LinkOps
  <1>7. op # "bootstrap" \/ Messages # {} => target.mode = "booted"
    BY <1>1, <1>4 DEF Inv, Located, LinkOps
  <1> QED
    BY <1>1, <1>2, <1>3, <1>4, <1>5, <1>6, <1>7

LEMMA ExchangesOpens ==
  ASSUME Inv, OnLink, Exchanges
  PROVE  /\ op = "bootstrap" => Opens
         /\ ~ outcome.mayRun => NoFrame'
  <1>1. OnlyKnownPartIsWritten'
    BY DEF Exchanges, Inv, OnlyKnownPartIsWritten
  <1>2. ~ outcome.mayRun => link'.command \notin {"start", "stop"} /\ NoFrame
    BY AtLink DEF Exchanges, Inv, Framed, NoFrame
  <1>3. ~ outcome.mayRun => NoFrame'
    BY <1>2 DEF NoFrame, Exchanges, Ending, StartReply
  <1>4. target.mode = "booted" \/ Messages' = {}
    BY AtLink DEF Exchanges
  <1> QED
    BY <1>1, <1>2, <1>3, <1>4, AtLink DEF Opens, Exchanges, Inv, TypeInv

\* An exchange fails: the operation ends, and asks for a reset.
LEMMA LinkFailsInv ==
  ASSUME Inv, OnLink, Exchanges, LinkFails PROVE Inv'
  <1>1. CASE op = "bootstrap"
    BY <1>1, AtLink, ExchangesOpens, OpenFailsInv DEF LinkFails
  <1>2. CASE op # "bootstrap"
    <2>1. /\ op' \in {"close", "cleanup"} /\ outcome' \in Outcome /\ outcome'.marked
          /\ outcome'.mayRun = outcome.mayRun /\ ctl' = "unknown"
      BY <1>2, Blamed DEF LinkFails, Enter, Inv, TypeInv
    <2>2. TypeInv'
      BY <2>1 DEF Inv, TypeInv, Exchanges, Calm, SerialOps, LinkOps
    <2>3. Halted' /\ Gated'
      BY <2>1 DEF Halted, Gated, SerialOps
    <2>4. OnlyKnownPartIsWritten'
      BY DEF Exchanges, Inv, OnlyKnownPartIsWritten
    <2>5. Located'
      BY <1>2, <2>1, AtLink DEF Located, Exchanges, Opening, SerialOps
    <2>6. Framed'
      BY <2>1, AtLink, ExchangesOpens DEF Framed, Opening, SerialOps
    <2> QED
      BY <2>2, <2>3, <2>4, <2>5, <2>6 DEF Inv
  <1> QED
    BY <1>1, <1>2

\* Where a trigger is.
LEMMA Triggering ==
  ASSUME Inv, OnLink
  PROVE  /\ op = "start" =>
              \/ todo = TriggerScript(TRUE) /\ Step = Exec("start") /\ Tail(todo) = AwaitsStart
              \/ /\ todo = <<Answer("start")>> \o AwaitsStart
                 /\ Step = Answer("start") /\ Tail(todo) = AwaitsStart
              \/ todo = AwaitsStart /\ Step = Await("frameStart") /\ Tail(todo) = <<>>
         /\ op = "stop" =>
              \/ todo = TriggerScript(FALSE) /\ Step = Exec("stop") /\ Tail(todo) = AwaitsEnd
              \/ /\ todo = <<Answer("stop")>> \o AwaitsEnd
                 /\ Step = Answer("stop") /\ Tail(todo) = AwaitsEnd
              \/ todo = AwaitsEnd /\ Step = Await("frameEnd") /\ Tail(todo) = <<>>
         /\ op = "awaitEnd" =>
              todo = AwaitsEnd /\ Step = Await("frameEnd") /\ Tail(todo) = <<>>
  <1>1. /\ "start" \in Names /\ "stop" \in Names
        /\ "frameStart" \in Names /\ "frameEnd" \in Names
    BY LinkSteps
  <1>2. todo # <<>>
    BY DEF OnLink
  <1>3. ASSUME op = "start"
        PROVE  \/ todo = TriggerScript(TRUE) /\ Step = Exec("start") /\ Tail(todo) = AwaitsStart
               \/ /\ todo = <<Answer("start")>> \o AwaitsStart
                  /\ Step = Answer("start") /\ Tail(todo) = AwaitsStart
               \/ todo = AwaitsStart /\ Step = Await("frameStart") /\ Tail(todo) = <<>>
    <2>1. todo \in {TriggerScript(TRUE), <<Answer("start")>> \o AwaitsStart, AwaitsStart}
      BY <1>2, <1>3 DEF Inv, Framed
    <2> QED
      BY ZenonT(40), <1>1, <2>1, TriggerSteps DEF Step, TriggerScript, AwaitsStart
  <1>4. ASSUME op = "stop"
        PROVE  \/ todo = TriggerScript(FALSE) /\ Step = Exec("stop") /\ Tail(todo) = AwaitsEnd
               \/ /\ todo = <<Answer("stop")>> \o AwaitsEnd
                  /\ Step = Answer("stop") /\ Tail(todo) = AwaitsEnd
               \/ todo = AwaitsEnd /\ Step = Await("frameEnd") /\ Tail(todo) = <<>>
    <2>1. todo \in {TriggerScript(FALSE), <<Answer("stop")>> \o AwaitsEnd, AwaitsEnd}
      BY <1>2, <1>4 DEF Inv, Framed
    <2> QED
      BY ZenonT(40), <1>1, <2>1, TriggerSteps DEF Step, TriggerScript, AwaitsEnd
  <1>5. ASSUME op = "awaitEnd"
        PROVE  todo = AwaitsEnd /\ Step = Await("frameEnd") /\ Tail(todo) = <<>>
    <2>1. todo = AwaitsEnd
      BY <1>2, <1>5 DEF Inv, Framed
    <2> QED
      BY <1>1, <2>1, TriggerSteps DEF Step, AwaitsEnd
  <1> QED
    BY <1>3, <1>4, <1>5

\* The message a step waits for.
Brings(m) ==
  /\ Step.do = "answer" => m.class = "response" /\ m.id = Step.what
  /\ Step.do # "answer" => Wanted(m)

\* It has arrived: the operation goes on.
LEMMA LinkAdvanceInv ==
  ASSUME Inv, OnLink, Exchanges, Advance, link'.command = link.command,
         Step.do \in {"answer", "await"}, UNCHANGED <<outcome, unknown>>,
         NEW m \in Messages, Brings(m)
  PROVE  Inv'
  <1> USE LinkSteps
  <1>1. /\ op' = op /\ todo' = Tail(todo) /\ op \in LinkOps /\ target.mode = "booted"
        /\ options' = options /\ target' = target /\ todo' \in Seq(LinkStep)
    BY AtLink, HeadTail DEF Advance, Exchanges
  <1>2. op = "bootstrap" => op \in Opening
    BY AtLink
  <1>3. CASE op = "bootstrap" \/ op = "apply"
    <2>1. \A i \in DOMAIN todo' : todo'[i].what \notin {"start", "stop"}
      <3>1. /\ DOMAIN todo = 1 .. Len(todo) /\ Len(todo) \in Nat \ {0}
            /\ DOMAIN todo' = 1 .. (Len(todo) - 1)
            /\ \A i \in 1 .. (Len(todo) - 1) : todo'[i] = todo[i + 1]
        BY <1>1, AtLink, HeadTail
      <3>2. \A i \in DOMAIN todo : todo[i].what \notin {"start", "stop"}
        BY <1>3 DEF Inv, Framed
      <3> QED
        BY SMTT(30), <3>1, <3>2
    <2>2. CASE op = "bootstrap"
      <3>1. Gated'
        BY <1>1, <2>2 DEF Gated, SerialOps
      <3> QED
        BY <1>1, <1>2, <2>1, <2>2, <3>1, AtLink, ExchangesOpens, OpeningInv DEF SerialOps
    <2>3. CASE op = "apply"
      <3>1. NoFrame' /\ ~ outcome.mayRun
        BY <2>3, AtLink, ExchangesOpens
      <3>2. TypeInv'
        BY <1>1, <2>3 DEF Inv, TypeInv, Exchanges, SerialOps
      <3>3. Halted' /\ Gated'
        BY <1>1, <2>3, AtLink DEF Halted, Gated, SerialOps
      <3>4. OnlyKnownPartIsWritten'
        BY DEF Exchanges, Inv, OnlyKnownPartIsWritten
      <3>5. Located'
        BY <1>1, <2>3 DEF Located, Opening, SerialOps
      <3>6. Framed'
        BY <1>1, <2>1, <2>3, <3>1 DEF Framed, NoFrame
      <3> QED
        BY <3>2, <3>3, <3>4, <3>5, <3>6 DEF Inv
    <2> QED
      BY <1>3, <2>2, <2>3
  <1>4. CASE op \in {"start", "stop", "awaitEnd"}
    <2>1. TypeInv'
      BY <1>1, <1>4 DEF Inv, TypeInv, Exchanges, SerialOps
    <2>2. Halted' /\ Gated'
      BY <1>1, <1>4, AtLink DEF Halted, Gated, SerialOps
    <2>3. OnlyKnownPartIsWritten'
      BY DEF Exchanges, Inv, OnlyKnownPartIsWritten
    <2>4. Located'
      BY <1>1, <1>4 DEF Located, Opening, SerialOps
    <2>5. outcome.mayRun
      BY <1>4, AtLink
    <2>6. ~ outcome.marked => link.command # "start"
      <3>1. SUFFICES ASSUME ~ outcome.marked, link.command = "start" PROVE FALSE
        OBVIOUS
      <3>2. /\ op = "start" /\ todo = <<Answer("start")>> \o AwaitsStart
            /\ ~ StartReply(m)
        BY <3>1 DEF Inv, Framed
      <3>3. Step = Answer("start")
        BY <3>2, TriggerSteps DEF Step, AwaitsStart
      <3> QED
        BY <3>2, <3>3 DEF Brings, StartReply
    <2>7. /\ op = "start" => todo' \in {AwaitsStart, <<>>}
          /\ op = "stop" => todo' \in {AwaitsEnd, <<>>}
          /\ op = "awaitEnd" => todo' = <<>>
      BY <1>1, <1>4, Triggering
    <2>8. /\ op \in {"stop", "awaitEnd"} /\ todo' = <<>> => Ending(m)
          /\ op = "start" => todo' # TriggerScript(TRUE)
      <3>1. /\ AwaitsEnd # <<>> /\ TriggerScript(TRUE) # <<>>
            /\ Head(TriggerScript(TRUE)) # Head(AwaitsStart)
        BY TriggerSteps DEF AwaitsEnd, AwaitsStart, TriggerScript
      <3>2. op \in {"stop", "awaitEnd"} /\ todo' = <<>> => Step = Await("frameEnd")
        BY <1>1, <3>1, Triggering
      <3>3. Step = Await("frameEnd") => Ending(m)
        BY DEF Brings, Wanted, Ending, Await
      <3> QED
        BY <2>7, <3>1, <3>2, <3>3
    <2>9. ~ outcome.marked =>
            /\ (\E x \in Messages' : Ending(x)) => target.frame # "running"
            /\ op \in {"stop", "awaitEnd"} /\ todo' = <<>> => target.frame # "running"
      BY <2>8 DEF Inv, Framed, Exchanges
    <2>10. Framed'
      <3>1. \A x : Ending(x)' <=> Ending(x)
        BY DEF Ending
      <3> QED
        BY <1>1, <1>4, <2>5, <2>6, <2>7, <2>8, <2>9, <3>1 DEF Framed, Opening, SerialOps
    <2> QED
      BY <2>1, <2>2, <2>3, <2>4, <2>10 DEF Inv
  <1> QED
    BY <1>1, <1>3, <1>4 DEF LinkOps

\* The link changes, the operation does not.
LEMMA LinkQuietInv ==
  ASSUME Inv, OnLink, Exchanges, link'.command = link.command,
         UNCHANGED <<op, todo, outcome, unknown>>
  PROVE  Inv'
  <1>1. Halted' /\ Gated'
    BY AtLink DEF Halted, Gated, SerialOps, LinkOps
  <1>2. TypeInv' /\ OnlyKnownPartIsWritten'
    BY DEF Inv, TypeInv, Exchanges, OnlyKnownPartIsWritten
  <1>3. Located'
    <2>1. op \in LinkOps /\ op \notin {"open", "reset", "probe", "negotiate", "reopen", "gate", "ended"}
      BY AtLink DEF LinkOps
    <2>2. Messages # {} \/ target.frame # "unset" => target.mode = "booted"
      BY DEF Inv, Located
    <2>3. op = "bootstrap" => target.mode = "booted" \/ todo = BootstrapScript
      BY DEF Inv, Located
    <2>4. op \notin Opening \cup {"ended"} => target.mode = "booted"
      BY DEF Inv, Located
    <2> QED
      BY <2>1, <2>2, <2>3, <2>4 DEF Located, Exchanges
  <1>4. Framed'
    <2>1. NoFrame => NoFrame'
      BY DEF NoFrame, Exchanges, Ending, StartReply
    <2>2. /\ (\A m \in Messages : ~ Ending(m) /\ ~ StartReply(m)) =>
               (\A m \in Messages' : ~ Ending(m)' /\ ~ StartReply(m)')
          /\ (\E m \in Messages' : Ending(m)') => (\E m \in Messages : Ending(m))
      BY DEF Exchanges, Ending, StartReply
    <2> QED
      BY <2>1, <2>2 DEF Inv, Framed, Exchanges
  <1> QED
    BY <1>1, <1>2, <1>3, <1>4 DEF Inv

\* A command is on its way to the target.
LEMMA ExecuteInv ==
  ASSUME Inv, Execute PROVE Inv'
  <1> USE LinkSteps
  <1>1. /\ OnLink /\ Step.do = "exec" /\ UNCHANGED <<options, op, outcome, target, unknown>>
        /\ link' = [link EXCEPT !.command = Step.what]
        /\ todo' = <<[Step EXCEPT !.do = "answer"]>> \o Tail(todo)
    BY DEF Execute
  <1>2. /\ link' \in LinkState /\ link'.command = Step.what /\ Step.what \in Names
        /\ link'.wire = link.wire /\ link'.queue = link.queue
    BY <1>1, AtLink DEF LinkState, LinkStep
  <1>3. Messages' = Messages
    BY <1>2 DEF Messages
  <1>4. Exchanges
    BY <1>1, <1>2, <1>3 DEF Exchanges
  <1>5. todo' = <<Answer(Step.what)>> \o Tail(todo)
    BY <1>1, AtLink
  <1>6. /\ todo' \in Seq(LinkStep)
        /\ op \in {"bootstrap", "apply"} =>
             \A i \in DOMAIN todo' : todo'[i].what \notin {"start", "stop"}
    <2> DEFINE a == <<Answer(Step.what)>>
               r == Tail(todo)
    <2>1. /\ a \in Seq(LinkStep) /\ Len(a) = 1 /\ a[1] = Answer(Step.what)
      BY <1>2
    <2>2. /\ r \in Seq(LinkStep) /\ Len(r) = Len(todo) - 1 /\ Len(todo) \in Nat \ {0}
          /\ DOMAIN todo = 1 .. Len(todo) /\ \A i \in 1 .. (Len(todo) - 1) : r[i] = todo[i + 1]
      BY AtLink, <1>1, HeadTail, HeadTailProperties
    <2> HIDE DEF a, r
    <2>3. /\ a \o r \in Seq(LinkStep) /\ Len(a \o r) = Len(a) + Len(r)
          /\ \A i \in 1 .. Len(a) + Len(r) : (a \o r)[i] = IF i <= Len(a) THEN a[i] ELSE r[i - Len(a)]
      <3>1. a \in Seq(LinkStep) /\ r \in Seq(LinkStep)
        BY <2>1, <2>2
      <3> QED
        BY <3>1, ConcatProperties
    <2>4. DOMAIN (a \o r) = 1 .. Len(todo)
      BY <2>1, <2>2, <2>3, LenProperties
    <2>5. todo' = a \o r
      BY <1>5 DEF a, r
    <2>6. ASSUME op \in {"bootstrap", "apply"}, NEW i \in DOMAIN todo'
          PROVE  todo'[i].what \notin {"start", "stop"}
      <3>1. \A k \in DOMAIN todo : todo[k].what \notin {"start", "stop"}
        BY <2>6 DEF Inv, Framed
      <3>2. Step.what \notin {"start", "stop"}
        BY <1>1, <2>6, AtLink
      <3>3. CASE i = 1
        BY <1>2, <2>1, <2>2, <2>3, <2>5, <3>2, <3>3
      <3>4. CASE i # 1
        <4>1. todo'[i] = r[i - 1] /\ i - 1 \in 1 .. (Len(todo) - 1)
          BY <2>1, <2>2, <2>3, <2>4, <2>5, <2>6, <3>4
        <4>2. r[i - 1] = todo[(i - 1) + 1] /\ (i - 1) + 1 \in DOMAIN todo
          BY <2>2, <4>1
        <4> QED
          BY <3>1, <4>1, <4>2
      <3> QED
        BY <3>3, <3>4
    <2> QED
      BY <2>3, <2>5, <2>6
  <1>7. target.mode = "booted"
    <2>1. op = "bootstrap" => todo # BootstrapScript
      BY <1>1, BootstrapSteps, AtLink DEF Await
    <2> QED
      BY <1>1, <2>1, AtLink DEF Inv, Located
  <1>8. CASE op = "bootstrap"
    <2>1. Gated'
      BY <1>1, <1>8 DEF Gated, SerialOps
    <2> QED
      BY <1>1, <1>4, <1>6, <1>7, <1>8, <2>1, AtLink, ExchangesOpens, OpeningInv DEF SerialOps
  <1>9. CASE op # "bootstrap"
    <2>1. op \in LinkOps /\ op \notin Opening
      BY <1>1, <1>9, AtLink
    <2>2. TypeInv'
      BY <1>1, <1>2, <1>6, <2>1 DEF Inv, TypeInv, Opening
    <2>3. Halted' /\ Gated'
      BY <1>1, <2>1, AtLink DEF Halted, Gated, Opening, SerialOps
    <2>4. OnlyKnownPartIsWritten' /\ Located'
      BY <1>1, <1>7, <2>1 DEF Inv, OnlyKnownPartIsWritten, Located, Opening, SerialOps, LinkOps
    <2>5. Framed'
      <3>1. CASE op = "apply"
        <4>1. NoFrame' /\ ~ outcome.mayRun
          BY <1>1, <1>4, <3>1, AtLink, ExchangesOpens
        <4> QED
          BY <1>1, <1>6, <3>1, <4>1 DEF Framed, NoFrame
      <3>2. CASE op = "start"
        <4>1. todo = TriggerScript(TRUE) /\ Step = Exec("start") /\ Tail(todo) = AwaitsStart
          BY <1>1, <3>2, Triggering
        <4>2. todo' = <<Answer("start")>> \o AwaitsStart
          BY <1>5, <4>1
        <4>3. todo' # TriggerScript(TRUE)
          <5>1. /\ Head(<<Answer("start")>> \o AwaitsStart) = Answer("start")
                /\ Head(TriggerScript(TRUE)) = Exec("start")
            BY TriggerSteps DEF TriggerScript, AwaitsStart
          <5>2. Answer("start") # Exec("start")
            BY DEF Answer, Exec
          <5> QED
            BY <4>2, <5>1, <5>2
        <4>4. ~ outcome.marked => /\ target.frame # "running"
                                  /\ \A m \in Messages : ~ Ending(m) /\ ~ StartReply(m)
          BY <3>2, <4>1 DEF Inv, Framed, NoFrame
        <4> QED
          BY <1>1, <1>3, <2>1, <3>2, <4>2, <4>3, <4>4, AtLink DEF Framed, Ending, StartReply
      <3>3. CASE op = "stop"
        <4>1. Step = Exec("stop") /\ Tail(todo) = AwaitsEnd
          BY <1>1, <3>3, Triggering
        <4>2. todo' = <<Answer("stop")>> \o AwaitsEnd /\ link'.command = "stop" /\ todo' # <<>>
          <5>1. <<Answer("stop")>> \o AwaitsEnd # <<>>
            BY TriggerSteps DEF AwaitsEnd
          <5>2. Step.what = "stop"
            BY <4>1
          <5> QED
            BY <1>2, <1>5, <4>1, <5>1, <5>2
        <4>3. ~ outcome.marked => ((\E m \in Messages : Ending(m)) => target.frame # "running")
          BY DEF Inv, Framed
        <4> QED
          BY <1>1, <1>3, <2>1, <3>3, <4>2, <4>3, AtLink DEF Framed, Ending, Opening, SerialOps
      <3>4. op # "awaitEnd"
        BY <1>1, Triggering
      <3> QED
        BY <2>1, <1>9, <3>1, <3>2, <3>3, <3>4 DEF LinkOps
    <2> QED
      BY <2>2, <2>3, <2>4, <2>5 DEF Inv
  <1> QED
    BY <1>8, <1>9

\* A message is taken off the wire.
LEMMA TakenExchanges ==
  ASSUME Inv, Receiving, link' = Taken, UNCHANGED <<options, target>>
  PROVE  /\ Exchanges /\ link'.command = link.command
         /\ Arrived \in Message /\ Arrived \in Messages
  <1>1. /\ link \in LinkState /\ link.wire \in Seq(Message) /\ link.wire # <<>>
    BY AtLink DEF Receiving
  <1>2. /\ Arrived \in Message /\ Arrived \in Range(link.wire)
        /\ Tail(link.wire) \in Seq(Message) /\ Range(Tail(link.wire)) \subseteq Range(link.wire)
    BY <1>1, HeadTail DEF Arrived
  <1>3. /\ link' \in LinkState /\ link'.command = link.command
        /\ link'.wire = Tail(link.wire) /\ link'.queue = link.queue
    BY <1>1, <1>2 DEF Taken, LinkState
  <1> QED
    BY <1>2, <1>3 DEF Exchanges, Messages

LEMMA LinkInv ==
  ASSUME Inv, Link PROVE Inv'
  <1>1. CASE Execute
    BY <1>1, ExecuteInv
  <1>2. CASE ExecuteFails
    <2>1. /\ OnLink /\ LinkFails /\ Step.do = "exec" /\ UNCHANGED <<options, target>>
          /\ link' = link \/ link' = [link EXCEPT !.command = Step.what]
      BY <1>2 DEF ExecuteFails
    <2>2. /\ link' \in LinkState /\ link'.wire = link.wire /\ link'.queue = link.queue
          /\ link'.command \in {link.command, Step.what}
      BY <2>1, AtLink DEF LinkState, LinkStep
    <2>3. Exchanges
      BY <2>1, <2>2 DEF Exchanges, Messages
    <2> QED
      BY <2>1, <2>3, LinkFailsInv
  <1>3. CASE TakeQueued
    <2>1. /\ OnLink /\ UNCHANGED <<options, target, unknown>>
      BY <1>3 DEF TakeQueued
    <2>2. PICK i \in DOMAIN link.queue :
            /\ Wanted(link.queue[i]) /\ link' = [link EXCEPT !.queue = RemoveAt(@, i)]
            /\ (Advance /\ UNCHANGED outcome) \/ LinkFails
      BY <1>3 DEF TakeQueued
    <2>3. /\ RemoveAt(link.queue, i) \in Seq(Message)
          /\ Range(RemoveAt(link.queue, i)) \subseteq Range(link.queue)
      BY <2>1, AtLink, Removed
    <2>4. /\ link' \in LinkState /\ link'.command = link.command /\ link'.wire = link.wire
          /\ link'.queue = RemoveAt(link.queue, i)
      BY <2>1, <2>2, <2>3, AtLink DEF LinkState
    <2>5. Exchanges
      BY <2>1, <2>3, <2>4 DEF Exchanges, Messages
    <2>6. link.queue[i] \in Messages /\ Step.do = "await"
      BY <2>2 DEF Messages, Range, Wanted, Await
    <2>7. Brings(link.queue[i])
      BY <2>2, <2>6 DEF Brings
    <2> QED
      BY <2>1, <2>2, <2>4, <2>5, <2>6, <2>7, LinkFailsInv, LinkAdvanceInv
  <1>4. CASE ReceiveAwaited
    <2>1. /\ OnLink /\ Receiving /\ Wanted(Arrived) /\ UNCHANGED <<options, target, unknown>>
          /\ link' = Taken /\ ((Advance /\ UNCHANGED outcome) \/ LinkFails)
      BY <1>4 DEF ReceiveAwaited, Receiving
    <2>2. Exchanges /\ link'.command = link.command /\ Arrived \in Messages
      BY <2>1, TakenExchanges
    <2>3. Step.do = "await" /\ Brings(Arrived)
      BY <2>1 DEF Brings, Wanted, Await
    <2> QED
      BY <2>1, <2>2, <2>3, LinkFailsInv, LinkAdvanceInv
  <1>5. CASE ReceiveOther
    <2>1. /\ OnLink /\ Receiving /\ UNCHANGED <<options, target, unknown>>
      BY <1>5 DEF ReceiveOther, Receiving
    <2>2. CASE link' = Taken /\ LinkFails
      BY <2>1, <2>2, TakenExchanges, LinkFailsInv
    <2>3. CASE link' = [Taken EXCEPT !.queue = Append(@, Arrived)] /\ UNCHANGED <<op, todo, outcome>>
      <3>1. /\ link \in LinkState /\ link.wire \in Seq(Message) /\ link.wire # <<>>
            /\ link.queue \in Seq(Message)
        BY <2>1, AtLink DEF Receiving
      <3>2. /\ Arrived \in Message /\ Arrived \in Range(link.wire)
            /\ Tail(link.wire) \in Seq(Message) /\ Range(Tail(link.wire)) \subseteq Range(link.wire)
        BY <3>1, HeadTail DEF Arrived
      <3>3. /\ Append(link.queue, Arrived) \in Seq(Message)
            /\ Range(Append(link.queue, Arrived)) = Range(link.queue) \cup {Arrived}
        BY <3>1, <3>2, Appended
      <3>4. /\ link' \in LinkState /\ link'.command = link.command
            /\ link'.wire = Tail(link.wire) /\ link'.queue = Append(link.queue, Arrived)
        BY <2>3, <3>1, <3>2, <3>3 DEF Taken, LinkState
      <3>5. Exchanges
        BY <2>1, <3>2, <3>3, <3>4 DEF Exchanges, Messages
      <3> QED
        BY <2>1, <2>3, <3>4, <3>5, LinkQuietInv
    <2> QED
      BY <1>5, <2>2, <2>3 DEF ReceiveOther
  <1>6. CASE ReceiveResponse
    <2>1. /\ OnLink /\ Receiving /\ UNCHANGED <<options, target, unknown>>
          /\ link' = Taken /\ Arrived.class = "response"
      BY <1>6 DEF ReceiveResponse, Receiving
    <2>2. Exchanges /\ link'.command = link.command /\ Arrived \in Messages
      BY <2>1, TakenExchanges
    <2>3. CASE LinkFails
      BY <2>1, <2>2, <2>3, LinkFailsInv
    <2>4. CASE /\ Step.do = "answer" /\ Arrived.id = Step.what
               /\ Advance /\ UNCHANGED outcome
      <3>1. Brings(Arrived)
        BY <2>1, <2>4 DEF Brings
      <3> QED
        BY <2>1, <2>2, <2>4, <3>1, LinkAdvanceInv
    <2>5. CASE /\ op = "stop" /\ KnownStopped(Arrived.status) /\ Enter("close", <<>>)
               /\ UNCHANGED outcome
      <3>1. op' = "close" /\ Ending(Arrived) /\ outcome.mayRun /\ ~ unknown
        BY <2>1, <2>5, AtLink DEF Enter, KnownStopped, Ending
      <3>2. target.mode = "booted"
        BY <2>1, <2>5, AtLink
      <3>3. TypeInv'
        BY <2>2, <2>5, <3>1 DEF Inv, TypeInv, Exchanges, Calm, SerialOps, LinkOps
      <3>4. Halted' /\ Gated' /\ OnlyKnownPartIsWritten'
        BY <2>1, <3>1 DEF Halted, Gated, SerialOps, Inv, OnlyKnownPartIsWritten
      <3>5. Located'
        BY <2>1, <3>1, <3>2 DEF Located, Opening, SerialOps
      <3>6. ~ outcome.marked =>
              target.frame # "running" /\ link.command # "start"
        BY <2>2, <2>5, <3>1 DEF Inv, Framed
      <3>7. Framed'
        BY <2>1, <2>2, <2>5, <3>1, <3>6 DEF Framed, Opening, SerialOps
      <3> QED
        BY <3>3, <3>4, <3>5, <3>7 DEF Inv
    <2> QED
      BY <1>6, <2>3, <2>4, <2>5 DEF ReceiveResponse
  <1>7. CASE ReceiveFails
    <2>1. OnLink /\ LinkFails /\ UNCHANGED <<options, target, link>>
      BY <1>7 DEF ReceiveFails
    <2>2. Exchanges
      BY <2>1, AtLink DEF Exchanges, Messages
    <2> QED
      BY <2>1, <2>2, LinkFailsInv
  <1> QED
    BY <1>1, <1>2, <1>3, <1>4, <1>5, <1>6, <1>7 DEF Link

-----------------------------------------------------------------------------
(* The session.                                                            *)

\* A step between the operations of the controller.
LEMMA CalmInv ==
  ASSUME Inv, op \notin Opening, UNCHANGED <<options, link, target, unknown>>,
         op' \in Calm \cup {"apply", "start", "stop", "awaitEnd"}, op' = "ended" => op = "close",
         op # "ended", outcome' \in Outcome, op' \in LinkOps => todo' \in Seq(LinkStep),
         unknown => op' \in {"close", "ended"}, Framed'
  PROVE  Inv'
  <1>1. op' \notin Opening
    BY DEF Opening, SerialOps, Calm
  <1>2. target.mode = "booted"
    BY DEF Inv, Located
  <1>3. TypeInv'
    <2>1. op' \in Opening \cup LinkOps \cup Calm
      BY DEF LinkOps
    <2> QED
      BY <1>1, <2>1 DEF Inv, TypeInv, Opening
  <1>4. Halted' /\ Gated' /\ OnlyKnownPartIsWritten'
    BY <1>1 DEF Halted, Gated, Opening, SerialOps, Inv, OnlyKnownPartIsWritten
  <1>5. Located'
    BY <1>1, <1>2 DEF Located, Opening, SerialOps
  <1> QED
    BY <1>3, <1>4, <1>5 DEF Inv

\* No frame has been asked for yet.
LEMMA UnframedInv ==
  ASSUME Inv, op \notin Opening, UNCHANGED <<options, link, target, unknown>>, ~ outcome.mayRun,
         op' \in {"arm", "cleanup", "close", "apply"}, op # "ended", outcome' \in Outcome,
         outcome'.mayRun = outcome.mayRun, unknown => op' = "close",
         op' = "apply" => todo' = ApplyScript
  PROVE  Inv'
  <1> USE LinkSteps
  <1>1. NoFrame' /\ ~ outcome'.mayRun
    BY DEF Inv, Framed, NoFrame, Messages, Ending, StartReply
  <1>2. /\ ApplyScript \in Seq(LinkStep)
        /\ \A i \in DOMAIN ApplyScript : ApplyScript[i].what \notin {"start", "stop"}
    <2>1. {"set", "rfInit", "frame"} \subseteq Names
      BY DEF Names, Commands, Events
    <2>2. ApplyScript \in Seq(LinkStep)
      BY <2>1 DEF ApplyScript
    <2>3. DOMAIN ApplyScript = 1 .. 4
      BY DEF ApplyScript
    <2>4. ASSUME NEW i \in 1 .. 4 PROVE ApplyScript[i].what \notin {"start", "stop"}
      BY <2>1 DEF ApplyScript
    <2> QED
      BY <2>2, <2>3, <2>4
  <1>3. Framed'
    BY <1>1, <1>2 DEF Framed, NoFrame
  <1> QED
    BY <1>2, <1>3, CalmInv DEF Calm, LinkOps

\* Nothing happens.
LEMMA Stuttering ==
  ASSUME Inv, UNCHANGED vars PROVE Inv'
  <1>1. TypeInv' /\ Halted'
    BY DEF vars, Inv, TypeInv, Halted
  <1>2. Gated' /\ OnlyKnownPartIsWritten'
    BY DEF vars, Inv, Gated, OnlyKnownPartIsWritten
  <1>3. Located'
    BY DEF vars, Inv, Located, Messages
  <1>4. Framed'
    BY DEF vars, Inv, Framed, NoFrame, Messages, Ending, StartReply
  <1> QED
    BY <1>1, <1>2, <1>3, <1>4 DEF Inv

LEMMA SessionInv ==
  ASSUME Inv, Session PROVE Inv'
  <1> USE LinkSteps
  <1>0. outcome \in Outcome
    BY DEF Inv, TypeInv
  <1>1. CASE Opened
    <2>1. /\ op = "bootstrap" /\ op \in Opening /\ todo = <<>>
          /\ UNCHANGED <<options, link, target, unknown>>
      BY <1>1 DEF Opened, Opening
    <2>2. Opens /\ ~ unknown
      BY <2>1, UntouchedOpens DEF Inv, Halted
    <2>3. CASE OpenFails(TRUE)
      BY <2>1, <2>2, <2>3, OpenFailsInv
    <2>4. CASE Enter("prepare", <<>>) /\ UNCHANGED outcome
      <3>1. op' = "prepare" /\ target.mode = "booted"
        BY <2>1, <2>4, BootstrapSteps DEF Enter, Inv, Located
      <3>2. Gated'
        BY <3>1 DEF Gated, SerialOps
      <3> QED
        BY <2>1, <2>2, <2>4, <3>1, <3>2, OpeningInv DEF SerialOps
    <2> QED
      BY <1>1, <2>3, <2>4 DEF Opened
  <1>2. CASE Prepare \/ Applied \/ ArmFails
    <2>1. /\ op \in {"prepare", "apply", "arm"} /\ UNCHANGED <<options, link, target, unknown>>
          /\ op' \in {"apply", "arm", "cleanup"} /\ (op' = "apply" => todo' = ApplyScript)
          /\ UNCHANGED outcome \/ Blame(FALSE)
      BY <1>2 DEF Prepare, Applied, ArmFails, RunFails, Enter
    <2>2. outcome' \in Outcome /\ outcome'.mayRun = outcome.mayRun
      BY <1>0, <2>1, Blamed
    <2>3. ~ outcome.mayRun /\ ~ unknown /\ op \notin Opening
      BY <2>1 DEF Inv, Framed, Halted, Opening, SerialOps
    <2> QED
      BY <2>1, <2>2, <2>3, UnframedInv
  <1>3. CASE StartContext
    <2>1. /\ op = "arm" /\ UNCHANGED <<options, link, target, unknown>>
          /\ op' = "cleanup" \/ (op' = "start" /\ todo' = TriggerScript(TRUE))
          /\ \/ outcome' = [outcome EXCEPT !.mayRun = TRUE, !.failed = TRUE]
             \/ outcome' = [outcome EXCEPT !.mayRun = TRUE]
      BY <1>3 DEF StartContext, Enter
    <2>2. outcome' \in Outcome /\ outcome'.mayRun
      BY <1>0, <2>1 DEF Outcome
    <2>3. ~ unknown /\ op \notin Opening /\ NoFrame
      BY <2>1 DEF Inv, Framed, Halted, Opening, SerialOps
    <2>4. NoFrame'
      BY <2>1, <2>3 DEF NoFrame, Messages, Ending, StartReply
    <2>5. TriggerScript(TRUE) \in Seq(LinkStep)
      BY TriggerSteps DEF TriggerScript
    <2>6. Framed'
      BY <2>1, <2>2, <2>4 DEF Framed, NoFrame, Opening, SerialOps
    <2> QED
      BY <2>1, <2>2, <2>3, <2>5, <2>6, CalmInv DEF Calm, LinkOps
  <1>4. CASE Started \/ CaptureEnds
    <2>1. /\ op \in {"start", "capture"} /\ (op = "start" => todo = <<>>)
          /\ UNCHANGED <<options, link, target, unknown>> /\ op' \in {"capture", "cleanup"}
          /\ \/ outcome' = [outcome EXCEPT !.complete = TRUE] \/ UNCHANGED outcome
             \/ Blame(FALSE)
      BY <1>4 DEF Started, CaptureEnds, RunFails, Enter
    <2>2. /\ outcome' \in Outcome /\ outcome'.mayRun = outcome.mayRun
          /\ outcome'.marked <=> outcome.marked
      <3>1. CASE Blame(FALSE)
        BY <1>0, <3>1, Blamed
      <3>2. CASE outcome' = [outcome EXCEPT !.complete = TRUE] \/ UNCHANGED outcome
        BY <1>0, <3>2 DEF Outcome
      <3> QED
        BY <2>1, <3>1, <3>2
    <2>3. ~ unknown /\ op \notin Opening /\ outcome.mayRun
      BY <2>1 DEF Inv, Framed, Halted, Opening, SerialOps
    <2>4. <<Answer("start")>> \o AwaitsStart # <<>>
      BY TriggerSteps DEF AwaitsStart
    <2>5. ~ outcome.marked => /\ link.command # "start"
                              /\ (\E m \in Messages : Ending(m)) => target.frame # "running"
      BY <2>1, <2>4 DEF Inv, Framed
    <2>6. Framed'
      BY <2>1, <2>2, <2>3, <2>5 DEF Framed, Messages, Ending, Opening, SerialOps
    <2> QED
      BY <2>1, <2>2, <2>3, <2>6, CalmInv DEF Calm, LinkOps
  <1>5. CASE Cleanup
    <2>1. /\ op = "cleanup" /\ UNCHANGED <<options, link, target, unknown>>
          /\ op \notin Opening /\ (unknown => ctl = "unknown")
      BY <1>5 DEF Cleanup, Inv, Halted, Opening, SerialOps
    <2>2. CASE ~ outcome.mayRun
      <3>1. op' = "close" /\ outcome' = outcome
        BY <1>5, <2>2 DEF Cleanup, Enter
      <3> QED
        BY <1>0, <2>1, <2>2, <3>1, UnframedInv
    <2>3. CASE outcome.mayRun /\ ctl = "unknown"
      <3>1. op' = "close" /\ Blame(TRUE)
        BY <1>5, <2>3 DEF Cleanup, Enter
      <3>2. outcome' \in Outcome /\ outcome'.mayRun /\ outcome'.marked
        BY <1>0, <2>3, <3>1, Blamed
      <3>3. Framed'
        BY <3>1, <3>2 DEF Framed, Opening, SerialOps
      <3> QED
        BY <2>1, <3>1, <3>2, <3>3, CalmInv DEF Calm, LinkOps
    <2>4. CASE outcome.mayRun /\ ctl # "unknown"
      <3>1. /\ \/ op' = "awaitEnd" /\ todo' = AwaitsEnd
               \/ op' = "stop" /\ todo' = TriggerScript(FALSE)
            /\ outcome' = outcome /\ ~ unknown
        BY <1>5, <2>1, <2>4 DEF Cleanup, Enter, AwaitEndScript, AwaitsEnd
      <3>2. AwaitsEnd # <<>> /\ TriggerScript(FALSE) # <<>>
            /\ <<Answer("start")>> \o AwaitsStart # <<>>
        BY TriggerSteps DEF TriggerScript, AwaitsEnd, AwaitsStart
      <3>3. AwaitsEnd \in Seq(LinkStep) /\ TriggerScript(FALSE) \in Seq(LinkStep)
        BY TriggerSteps DEF TriggerScript, AwaitsEnd
      <3>4. ~ outcome.marked => /\ link.command # "start"
                                /\ (\E m \in Messages : Ending(m)) => target.frame # "running"
        BY <2>1, <3>2 DEF Inv, Framed
      <3>5. Framed'
        BY <2>1, <2>4, <3>1, <3>2, <3>4 DEF Framed, Messages, Ending, Opening, SerialOps
      <3> QED
        BY <1>0, <2>1, <3>1, <3>3, <3>5, CalmInv DEF Calm, LinkOps
    <2> QED
      BY <2>2, <2>3, <2>4
  <1>6. CASE Stopped \/ Close
    <2>1. /\ op \in {"stop", "awaitEnd", "close"} /\ (op # "close" => todo = <<>>)
          /\ op' = IF op = "close" THEN "ended" ELSE "close"
          /\ UNCHANGED <<options, link, target, unknown>>
          /\ UNCHANGED outcome \/ Blame(TRUE)
      BY <1>6 DEF Stopped, Close, Cleaning, Enter
    <2>2. /\ outcome' \in Outcome /\ outcome'.mayRun = outcome.mayRun
          /\ ~ outcome'.marked => ~ outcome.marked
      BY <1>0, <2>1, Blamed
    <2>3. op \notin Opening /\ (unknown => op = "close")
      BY <2>1 DEF Inv, Halted, Opening, SerialOps
    <2>4. <<Answer("start")>> \o AwaitsStart # <<>>
      BY TriggerSteps DEF AwaitsStart
    <2>5. ~ outcome.marked => /\ link.command # "start" /\ target.frame # "running"
      BY <2>1, <2>4 DEF Inv, Framed
    <2>6. ~ outcome.mayRun => NoFrame
      BY DEF Inv, Framed
    <2>7. ~ outcome'.mayRun => NoFrame'
      BY <2>1, <2>2, <2>6 DEF NoFrame, Messages, Ending, StartReply
    <2>8. Framed'
      BY <2>1, <2>2, <2>5, <2>7 DEF Framed, Opening, SerialOps
    <2> QED
      BY <2>1, <2>2, <2>3, <2>8, CalmInv DEF Calm, LinkOps
  <1>7. CASE Returned
    <2>1. UNCHANGED vars
      BY <1>7 DEF Returned
    <2> QED
      BY <2>1, Stuttering
  <1> QED
    BY <1>1, <1>2, <1>3, <1>4, <1>5, <1>6, <1>7 DEF Session

-----------------------------------------------------------------------------
(* The environment.                                                        *)

\* What the target and the context of the capture may do at any time.
LEMMA TellsInv ==
  ASSUME Inv, UNCHANGED <<options, op, todo, handles, ctl, outcome, unknown>>,
         target' \in Target, target'.mode = target.mode, target'.part = target.part,
         target'.changed = target.changed, link' \in LinkState,
         Messages' # {} \/ target'.frame # "unset" => target.mode = "booted",
         link'.command \in {link.command, NoCommand},
         target'.frame = "running" =>
           target.frame = "running" \/ (link.command = "start" /\ link'.command = NoCommand),
         \A m \in Messages' : m \notin Messages =>
           /\ StartReply(m) => link.command = "start" /\ link'.command = NoCommand
           /\ Ending(m) => /\ target'.frame # "running"
                           /\ link.command = "stop" \/ target.frame = "running"
  PROVE  Inv'
  <1>1. TypeInv'
    BY DEF Inv, TypeInv
  <1>2. Halted'
    BY DEF Inv, Halted
  <1>3. Gated'
    BY DEF Inv, Gated
  <1>4. OnlyKnownPartIsWritten'
    BY DEF Inv, OnlyKnownPartIsWritten
  <1>5. Located'
    BY DEF Inv, Located
  <1>6. NoCommand \notin {"start", "stop"} /\ <<Answer("start")>> \o AwaitsStart # TriggerScript(TRUE)
    <2>1. Head(TriggerScript(TRUE)) = Exec("start")
      BY TriggerSteps, LinkSteps DEF TriggerScript
    <2>2. Head(<<Answer("start")>> \o AwaitsStart) = Answer("start")
      BY TriggerSteps, LinkSteps DEF AwaitsStart
    <2>3. Exec("start") # Answer("start")
      <3>1. Exec("start").do = "exec" /\ Answer("start").do = "answer"
        BY DEF Exec, Answer
      <3> QED
        BY <3>1
    <2>4. <<Answer("start")>> \o AwaitsStart # TriggerScript(TRUE)
      BY <2>1, <2>2, <2>3
    <2> QED
      BY <2>4 DEF NoCommand
  <1>7. ASSUME NoFrame PROVE NoFrame'
    BY <1>6, <1>7 DEF NoFrame, Ending, StartReply
  <1>8. ASSUME ~ outcome.marked, link'.command = "start"
        PROVE  /\ op = "start" /\ todo = <<Answer("start")>> \o AwaitsStart
               /\ target'.frame # "running"
               /\ \A m \in Messages' : ~ Ending(m) /\ ~ StartReply(m)
    <2>1. /\ link.command = "start" /\ op = "start"
          /\ todo = <<Answer("start")>> \o AwaitsStart /\ target.frame # "running"
          /\ \A m \in Messages : ~ Ending(m) /\ ~ StartReply(m)
      BY <1>6, <1>8 DEF Inv, Framed
    <2> QED
      BY <1>6, <1>8, <2>1
  <1>9. ASSUME ~ outcome.marked, NEW m \in Messages', Ending(m)
        PROVE  target'.frame # "running"
    <2>1. CASE m \in Messages
      <3>1. target.frame # "running" /\ (link.command = "start" => ~ Ending(m))
        BY <1>9, <2>1 DEF Inv, Framed
      <3> QED
        BY <1>9, <3>1
    <2> QED
      BY <1>9, <2>1
  <1>10. ASSUME ~ outcome.marked, target.frame # "running", link.command # "start"
         PROVE  target'.frame # "running"
    BY <1>10
  <1>11. ASSUME ~ outcome.marked,
                op \in {"close", "ended"} \/ (op \in {"stop", "awaitEnd"} /\ todo = <<>>)
         PROVE  target'.frame # "running"
    BY <1>10, <1>11 DEF Inv, Framed
  <1>12. Framed'
    BY <1>7, <1>8, <1>9, <1>11 DEF Inv, Framed, Ending, StartReply, NoFrame
  <1> QED
    BY <1>1, <1>2, <1>3, <1>4, <1>5, <1>12 DEF Inv

LEMMA Told ==
  ASSUME link \in LinkState, NEW m \in Message, NEW n \in Message
  PROVE  /\ Tells(<<>>) => /\ link' \in LinkState /\ link'.command = NoCommand
                           /\ Messages' = Messages
         /\ Tells(<<m>>) => /\ link' \in LinkState /\ link'.command = NoCommand
                            /\ Messages' = Messages \cup {m}
         /\ Tells(<<m, n>>) => /\ link' \in LinkState /\ link'.command = NoCommand
                               /\ Messages' = Messages \cup {m, n}
  <1>1. /\ link.wire \in Seq(Message) /\ link.queue \in Seq(Message) /\ NoCommand \in Names
    BY DEF LinkState, Names
  <1>2. ASSUME NEW ms, link.wire \o ms \in Seq(Message), Tells(ms)
        PROVE  /\ link' \in LinkState /\ link'.command = NoCommand
               /\ Messages' = Range(link.wire \o ms) \cup Range(link.queue)
    <2>1. /\ link'.command = NoCommand /\ link'.wire = link.wire \o ms
          /\ link'.queue = link.queue /\ link' \in LinkState
      BY <1>1, <1>2 DEF Tells, LinkState
    <2> QED
      BY <2>1 DEF Messages
  <1>3. ASSUME Tells(<<>>)
        PROVE  link' \in LinkState /\ link'.command = NoCommand /\ Messages' = Messages
    <2>1. link.wire \o <<>> \in Seq(Message) /\ Range(link.wire \o <<>>) = Range(link.wire)
      BY <1>1, Several
    <2>2. /\ link' \in LinkState /\ link'.command = NoCommand
          /\ Messages' = Range(link.wire \o <<>>) \cup Range(link.queue)
      BY <1>2, <1>3, <2>1
    <2>3. Messages = Range(link.wire) \cup Range(link.queue)
      BY DEF Messages
    <2> QED
      BY <2>1, <2>2, <2>3
  <1> DEFINE one == <<m>>
             two == <<m, n>>
  <1>4. /\ link.wire \o one \in Seq(Message) /\ Range(link.wire \o one) = Range(link.wire) \cup {m}
        /\ link.wire \o two \in Seq(Message) /\ Range(link.wire \o two) = Range(link.wire) \cup {m, n}
    BY <1>1, Several
  <1> HIDE DEF one, two
  <1>5. ASSUME Tells(one)
        PROVE  /\ link' \in LinkState /\ link'.command = NoCommand
               /\ Messages' = Messages \cup {m}
    <2>1. /\ link' \in LinkState /\ link'.command = NoCommand
          /\ Messages' = Range(link.wire \o one) \cup Range(link.queue)
      BY <1>2, <1>4, <1>5
    <2> QED
      BY <1>4, <2>1 DEF Messages
  <1>6. ASSUME Tells(two)
        PROVE  /\ link' \in LinkState /\ link'.command = NoCommand
               /\ Messages' = Messages \cup {m, n}
    <2>1. /\ link' \in LinkState /\ link'.command = NoCommand
          /\ Messages' = Range(link.wire \o two) \cup Range(link.queue)
      BY <1>2, <1>4, <1>6
    <2> QED
      BY <1>4, <2>1 DEF Messages
  <1> QED
    BY <1>3, <1>5, <1>6 DEF one, two

LEMMA EnvironmentInv ==
  ASSUME Inv, Environment PROVE Inv'
  <1> USE LinkSteps
  <1>1. /\ link \in LinkState /\ link.wire \in Seq(Message) /\ link.queue \in Seq(Message)
        /\ link.command \in Names /\ target \in Target
    BY DEF Inv, TypeInv, LinkState
  <1>2. Messages # {} \/ target.frame # "unset" => target.mode = "booted"
    BY DEF Inv, Located
  <1>3. CASE Cancel
    <2>1. UNCHANGED <<options, op, todo, handles, ctl, outcome, unknown, target, link>>
      BY <1>3 DEF Cancel
    <2>2. Messages' = Messages
      BY <2>1 DEF Messages
    <2> QED
      BY <1>1, <1>2, <2>1, <2>2, TellsInv
  <1>5. CASE TargetExecutes
    <2> DEFINE r == Response("ok")
               event(status) == Event(Announces[link.command], status)
    <2>1. /\ UNCHANGED <<options, op, todo, handles, ctl, outcome, unknown>>
          /\ target.mode = "booted" /\ link.command # NoCommand
          /\ \/ /\ link.command \in DOMAIN Announces
                /\ \E status \in {"ok", "odd"} :
                     Tells(<<r, event(status)>>) \/ Tells(<<event(status), r>>)
             \/ Tells(<<r>>)
      BY <1>5 DEF TargetExecutes
    <2>2. /\ target' \in Target /\ target'.mode = target.mode /\ target'.part = target.part
          /\ target'.changed = target.changed
      <3>1. PICK f \in {"unset", "set", "running"} : target' = [target EXCEPT !.frame = f]
        <4>1. CASE link.command = "start"
          BY <1>5, <4>1 DEF TargetExecutes
        <4>2. CASE link.command \in {"frame", "stop"}
          BY <1>5, <4>2 DEF TargetExecutes
        <4>3. CASE link.command \notin {"frame", "stop", "start"}
          BY <1>1, <1>5, <4>3 DEF TargetExecutes, Target
        <4> QED
          BY <4>1, <4>2, <4>3
      <3> QED
        BY <1>1, <3>1 DEF Target
    <2>3. target'.frame = "running" => target.frame = "running" \/ link.command = "start"
      <3>1. CASE link.command = "start"
        BY <3>1
      <3>2. CASE link.command \in {"frame", "stop"}
        BY <1>1, <1>5, <3>2 DEF TargetExecutes, Target
      <3>3. CASE link.command \notin {"frame", "stop", "start"}
        BY <1>1, <1>5, <3>3 DEF TargetExecutes, Target
      <3> QED
        BY <3>1, <3>2, <3>3
    <2>4. link.command = "stop" => target'.frame # "running"
      BY <1>1, <1>5 DEF TargetExecutes, Target
    <2>5. /\ r \in Message /\ ~ Ending(r) /\ (StartReply(r) => link.command = "start")
      BY <1>1 DEF Response, Message, Ending, StartReply
    <2>6. ASSUME link.command \in DOMAIN Announces, NEW status \in {"ok", "odd"}
          PROVE  /\ event(status) \in Message /\ ~ StartReply(event(status))
                 /\ Ending(event(status)) => link.command = "stop"
      <3>1. /\ Announces[link.command] \in Events
            /\ Announces[link.command] = "frameEnd" => link.command = "stop"
        BY <2>6 DEF Announces, Events
      <3> QED
        BY <3>1 DEF Event, Message, Names, StartReply, Ending
    <2> HIDE DEF r, event
    <2>7. /\ link' \in LinkState /\ link'.command = NoCommand
          /\ \A m \in Messages' : m \notin Messages =>
             (StartReply(m) => link.command = "start") /\ (Ending(m) => link.command = "stop")
      <3>1. CASE Tells(<<r>>)
        <4>1. /\ link' \in LinkState /\ link'.command = NoCommand
              /\ Messages' = Messages \cup {r}
          BY <1>1, <2>5, <3>1, Told
        <4> QED
          BY <2>5, <4>1
      <3>2. ASSUME link.command \in DOMAIN Announces, NEW status \in {"ok", "odd"},
                   Tells(<<r, event(status)>>) \/ Tells(<<event(status), r>>)
            PROVE  /\ link' \in LinkState /\ link'.command = NoCommand
                   /\ \A m \in Messages' : m \in Messages \/ m = r \/ m = event(status)
        <4> DEFINE e == event(status)
        <4>1. e \in Message
          BY <2>6, <3>2
        <4> HIDE DEF e
        <4>2. CASE Tells(<<r, e>>)
          <5>1. /\ link' \in LinkState /\ link'.command = NoCommand
                /\ Messages' = Messages \cup {r, e}
            BY <1>1, <2>5, <4>1, <4>2, Told
          <5> QED
            BY <5>1 DEF e
        <4>3. CASE Tells(<<e, r>>)
          <5>1. /\ link' \in LinkState /\ link'.command = NoCommand
                /\ Messages' = Messages \cup {e, r}
            BY <1>1, <2>5, <4>1, <4>3, Told
          <5> QED
            BY <5>1 DEF e
        <4> QED
          BY <3>2, <4>2, <4>3 DEF e
      <3>3. ASSUME link.command \in DOMAIN Announces, NEW status \in {"ok", "odd"},
                   Tells(<<r, event(status)>>) \/ Tells(<<event(status), r>>)
            PROVE  \A m \in Messages' : m \notin Messages =>
             (StartReply(m) => link.command = "start") /\ (Ending(m) => link.command = "stop")
        BY <2>5, <2>6, <3>2, <3>3
      <3> QED
        BY <2>1, <3>1, <3>2, <3>3
    <2>8. \A m \in Messages' : m \notin Messages =>
           /\ StartReply(m) => link.command = "start" /\ link'.command = NoCommand
           /\ Ending(m) => /\ target'.frame # "running"
                           /\ link.command = "stop" \/ target.frame = "running"
      BY <2>4, <2>7
    <2> QED
      BY <2>1, <2>2, <2>3, <2>7, <2>8, TellsInv
  <1>6. CASE TargetRefuses
    <2>1. /\ UNCHANGED <<options, op, todo, handles, ctl, outcome, unknown, target>>
          /\ \/ Tells(<<>>)
             \/ target.mode = "booted" /\ Tells(<<Response("refused")>>)
             \/ /\ target.mode = "booted" /\ link.command = "stop"
                /\ target.frame # "running" /\ Tells(<<Response("stopped")>>)
      BY <1>6 DEF TargetRefuses
    <2>2. CASE Tells(<<>>)
      <3>1. /\ link' \in LinkState /\ link'.command = NoCommand /\ Messages' = Messages
        <4>1. Response("refused") \in Message
          BY <1>1 DEF Response, Message
        <4> QED
          BY <1>1, <2>2, <4>1, Told
      <3> QED
        BY <1>1, <1>2, <2>1, <3>1, TellsInv
    <2>3. ASSUME target.mode = "booted", NEW s \in {"refused", "stopped"}, Tells(<<Response(s)>>),
                 s = "stopped" => link.command = "stop" /\ target.frame # "running"
          PROVE  Inv'
      <3> DEFINE r == Response(s)
      <3>1. /\ r \in Message /\ (Ending(r) => s = "stopped")
            /\ StartReply(r) => link.command = "start"
        BY <1>1 DEF Response, Message, Ending, StartReply
      <3> HIDE DEF r
      <3>3. Tells(<<r>>)
        BY <2>3 DEF r
      <3>4. /\ link' \in LinkState /\ link'.command = NoCommand /\ Messages' = Messages \cup {r}
        BY <1>1, <3>1, <3>3, Told
      <3> QED
        BY <1>1, <2>1, <2>3, <3>1, <3>4, TellsInv
    <2> QED
      BY <2>1, <2>2, <2>3
  <1>7. CASE FrameEnds
    <2> DEFINE e == Event("frameEnd", "ok")
    <2>1. e \in Message /\ ~ StartReply(e)
      BY DEF Event, Message, Names, Events, StartReply
    <2>2. /\ UNCHANGED <<options, op, todo, handles, ctl, outcome, unknown>>
          /\ target.frame = "running" /\ target' = [target EXCEPT !.frame = "set"]
          /\ link' = [link EXCEPT !.wire = Append(@, e)]
      BY <1>7 DEF FrameEnds
    <2> HIDE DEF e
    <2>3. /\ Append(link.wire, e) \in Seq(Message)
          /\ Range(Append(link.wire, e)) = Range(link.wire) \cup {e}
      BY <1>1, <2>1, Appended
    <2>4. /\ link' \in LinkState /\ link'.command = link.command
          /\ link'.wire = Append(link.wire, e) /\ link'.queue = link.queue
      BY <1>1, <2>2, <2>3 DEF LinkState
    <2>5. Messages' = Messages \cup {e}
      BY <2>3, <2>4 DEF Messages
    <2>6. /\ target' \in Target /\ target'.mode = target.mode /\ target'.part = target.part
          /\ target'.changed = target.changed /\ target'.frame = "set"
      BY <1>1, <2>2 DEF Target
    <2> QED
      BY <1>2, <2>1, <2>2, <2>4, <2>5, <2>6, TellsInv
  <1>8. CASE Reports
    <2>1. PICK e \in {Event("report", "ok"), Event("report", "fault"),
                      [class |-> "response", id |-> "stray", status |-> "ok"]} :
            link' = [link EXCEPT !.wire = Append(@, e)]
      BY <1>8 DEF Reports
    <2>2. /\ UNCHANGED <<options, op, todo, handles, ctl, outcome, unknown, target>>
          /\ target.mode = "booted"
      BY <1>8 DEF Reports
    <2>3. e \in Message /\ ~ StartReply(e) /\ ~ Ending(e)
      BY DEF Event, Message, Names, Events, StartReply, Ending
    <2>4. /\ Append(link.wire, e) \in Seq(Message)
          /\ Range(Append(link.wire, e)) = Range(link.wire) \cup {e}
      BY <1>1, <2>3, Appended
    <2>5. /\ link' \in LinkState /\ link'.command = link.command
          /\ link'.wire = Append(link.wire, e) /\ link'.queue = link.queue
      BY <1>1, <2>1, <2>4 DEF LinkState
    <2>6. Messages' = Messages \cup {e}
      BY <2>4, <2>5 DEF Messages
    <2> QED
      BY <1>1, <2>2, <2>3, <2>5, <2>6, TellsInv
  <1> QED
    BY <1>3, <1>5, <1>6, <1>7, <1>8 DEF Environment

-----------------------------------------------------------------------------
(* The theorems.                                                           *)

LEMMA InitInv ==
  ASSUME Init PROVE Inv
  <1>1. /\ link.wire = <<>> /\ link.queue = <<>> /\ link.command = NoCommand /\ op = "open"
        /\ target.mode \in {"away", "monitor"} /\ target.frame = "unset" /\ target.changed = {}
        /\ handles = {} /\ unknown = FALSE /\ ~ outcome.mayRun /\ ~ outcome.marked
    BY DEF Init
  <1>2. TypeInv
    <2>1. link \in LinkState
      BY DEF Init, LinkState, Names
    <2>2. target \in Target /\ outcome \in Outcome
      BY DEF Init, Target, Modes, Outcome
    <2>3. op \in Opening /\ op \notin SerialOps \cup LinkOps
      BY <1>1 DEF Opening, SerialOps, LinkOps
    <2>4. options \in [reset : BOOLEAN, warm : BOOLEAN, finite : BOOLEAN]
      BY DEF Init
    <2> QED
      BY <2>1, <2>2, <2>3, <2>4 DEF TypeInv
  <1>3. Messages = {}
    BY <1>1 DEF Messages, Range
  <1>4. Halted /\ Gated /\ OnlyKnownPartIsWritten
    BY <1>1 DEF Halted, Gated, SerialOps, OnlyKnownPartIsWritten
  <1>5. Located
    BY <1>1, <1>3 DEF Located, Opening
  <1>6. Framed
    BY <1>1, <1>3 DEF Framed, NoFrame, NoCommand
  <1> QED
    BY <1>2, <1>4, <1>5, <1>6 DEF Inv

LEMMA NextInv ==
  ASSUME Inv, [Next]_vars PROVE Inv'
  <1>1. CASE OpenController
    BY <1>1, OpenControllerInv
  <1>2. CASE ResetStep \/ ResetFails \/ ResetDone
    BY <1>2, ResetInv
  <1>3. CASE Serial
    BY <1>3, SerialInv
  <1>4. CASE TransportStep \/ TransportFails
    BY <1>4, TransportInv
  <1>5. CASE Link
    BY <1>5, LinkInv
  <1>6. CASE Session
    BY <1>6, SessionInv
  <1>7. CASE Environment
    BY <1>7, EnvironmentInv
  <1>8. CASE UNCHANGED vars
    BY <1>8, Stuttering
  <1> QED
    BY <1>1, <1>2, <1>3, <1>4, <1>5, <1>6, <1>7, <1>8 DEF Next

THEOREM Invariance == Spec => []Inv
  <1>1. Init => Inv
    BY InitInv
  <1>2. Inv /\ [Next]_vars => Inv'
    BY NextInv
  <1> QED
    BY <1>1, <1>2, PTL DEF Spec

\* The part gate comes before every write: whatever route leads to the monitor,
\* only a part of the selected family is changed, and its baud registers only
\* when the cold-boot rate was allowed.
THEOREM KnownPartOnly == Spec => []OnlyKnownPartIsWritten
  BY Invariance, PTL DEF Inv

\* A command that ends without TargetStateError or CleanupError leaves no driven
\* pins, no half image and no running frame behind.
THEOREM UnmarkedEndSafe == Spec => []UnmarkedEndIsSafe
  <1>1. Inv => UnmarkedEndIsSafe
    BY DEF Inv, Located, Framed, UnmarkedEndIsSafe
  <1> QED
    BY <1>1, Invariance, PTL

\* An indeterminate write is the last thing that the command sends: every step
\* that sends needs an operation which an unknown result has ended.
THEOREM UnknownIsLast == Spec => NothingAfterUnknown
  <1>1. ASSUME Inv, [Next]_vars, unknown PROVE UNCHANGED sent
    <2>1. op \notin {"reset"} \cup SerialOps \cup LinkOps
      BY <1>1 DEF Inv, Halted, SerialOps, LinkOps
    <2>2. CASE Serial
      BY <2>1, <2>2 DEF Serial, OpenPort, SerialRefused, SerialWriteUnknown, SerialWrite,
                        SerialRead, SerialReadFails, SerialDone, OnSerial
    <2>3. CASE Link
      BY <2>1, <2>3 DEF Link, Execute, ExecuteFails, TakeQueued, ReceiveAwaited, ReceiveOther,
                        ReceiveResponse, ReceiveFails, OnLink
    <2>4. CASE ResetStep \/ ResetFails \/ ResetDone
      BY <2>1, <2>4 DEF ResetStep, ResetFails, ResetDone
    <2>5. CASE OpenController \/ TransportStep \/ TransportFails
      BY <2>5 DEF OpenController, TransportStep, TransportFails
    <2>6. CASE Session
      BY <2>6 DEF Session, Opened, Prepare, Applied, ArmFails, StartContext, Started, CaptureEnds,
                  Cleanup, Stopped, Close, Returned, vars
    <2>7. CASE Environment
      BY <2>7 DEF Environment, Cancel, TargetExecutes, TargetRefuses, FrameEnds, Reports
    <2>8. CASE UNCHANGED vars
      BY <2>8 DEF vars
    <2> QED
      BY <1>1, <2>2, <2>3, <2>4, <2>5, <2>6, <2>7, <2>8 DEF Next
  <1>2. Inv /\ [Next]_vars => [unknown => UNCHANGED sent]_vars
    BY <1>1
  <1> QED
    BY <1>2, Invariance, PTL DEF Spec, NothingAfterUnknown
=============================================================================
