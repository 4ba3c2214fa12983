----------------------- MODULE MultiSensorStreamProofs -----------------------
(***************************************************************************)
(* TLAPS proofs about module MultiSensorStream, for any external sources,  *)
(* any limits and any number of radar frames.                              *)
(***************************************************************************)
EXTENDS MultiSensorStream, TLAPS

-----------------------------------------------------------------------------
(* The inductive invariant.                                                *)

Progress ==
  [state : {"active", "COMMIT", "ABORT", "poisoned", "torn", "rejected"},
   config : BOOLEAN, started : BOOLEAN, next : [Streams -> Nat],
   ended : [Streams -> {"no", "complete", "failed"}]]

\* Where the main thread writes to the stream.
Writes == {"config", "observe", "end", "commit", "abort"}

TypeInv ==
  /\ pc \in Writes \cup {"launch", "arm", "start", "radio", "capture", "part", "mirror",
                         "radarCommit", "finish", "done"}
  /\ err \in BOOLEAN
  /\ frames \in Nat
  /\ mirror \in [state : {"on", "failed", "aborted", "sealed"}, delivered : Nat]
  /\ call \in [Threads -> {"idle", "lock", "emit"}]
  /\ enc \in Progress
  /\ dec \in Progress
  /\ drain \in [Sources -> {"none", "on", "over", "lost"}]
  /\ dropped \in [Sources -> BOOLEAN]
  /\ recorded \in [Sources -> Nat]
  /\ radarDir \in BOOLEAN
  /\ published \in BOOLEAN

\* One thread writes at a time, and nothing that its record is made of changes
\* before it is written.
Exclusion ==
  /\ \A c, d \in Threads : call[c] = "emit" /\ call[d] = "emit" => c = d
  /\ \A s \in Sources : call[s] # "idle" => drain[s] = "on"
  /\ call[Main] # "idle" => pc \in Writes
  /\ mirror.state = "sealed" => call[Radar] = "idle"

\* The encoder has accepted the record being written.
Emitting == \A c \in Threads : call[c] = "emit" => EncoderTakes(enc, RecordOf(c))

\* As long as the encoder works, both ends of the stream agree.
Agreement == (enc.state = "active" => dec = enc) /\ dec.state # "rejected"

\* What was recorded and delivered is what the encoder has counted.
Counted ==
  /\ \A s \in Sources : drain[s] # "lost" =>
       recorded[s] = enc.next[s] + (IF call[s] = "idle" THEN 0 ELSE 1)
  /\ mirror.state \in {"on", "sealed"} => mirror.delivered = enc.next[Radar]

\* A participant that has finished stays as it was found.
Finished ==
  phase = "finished" =>
    \A s \in Sources : /\ drain[s] # "on"
                       /\ dropped[s] => s \notin Required
                       /\ ~ dropped[s] => drain[s] = "over"

Endings ==
  \A s \in Sources : /\ enc.ended[s] # "no" => phase = "finished"
                     /\ enc.ended[s] = "complete" => ~ dropped[s]
                     /\ enc.ended[s] = "failed" => dropped[s]

\* What the main thread has reached.
Stages ==
  /\ phase = "finished" =>
       pc \in {"mirror", "radarCommit", "finish", "end", "commit", "abort", "done"}
  /\ pc = "mirror" /\ ~ err => phase = "finished"
  /\ pc = "radarCommit" => phase = "finished" /\ mirror.state = "sealed"
  /\ pc = "finish" /\ ~ err => phase = "finished" /\ mirror.state = "sealed" /\ radarDir
  /\ pc \in {"end", "commit"} =>
       phase = "finished" /\ mirror.state = "sealed" /\ radarDir /\ published
  /\ mirror.state = "sealed" =>
       /\ mirror.delivered = frames
       /\ pc \in {"radarCommit", "finish", "end", "commit", "abort", "done"}
  /\ published => pc \in {"end", "commit", "done"}
  /\ dec.state \in {"COMMIT", "ABORT"} => pc = "done"
  /\ dec.state = "COMMIT" => phase = "finished"

Inv == /\ TypeInv /\ Exclusion /\ Emitting /\ Agreement /\ Counted /\ Finished /\ Endings
       /\ Stages /\ TerminalIsTruthful

-----------------------------------------------------------------------------
(* Threads and records.                                                    *)

LEMMA Names ==
  /\ Main \in Threads /\ Main \notin Streams /\ Main \notin Sources /\ Main # Radar
  /\ Radar \in Threads /\ Radar \in Streams /\ Radar \notin Sources
  /\ Sources \subseteq Streams /\ Streams \subseteq Threads
  /\ \A c \in Threads : c = Main \/ c = Radar \/ c \in Sources
  /\ MaxRadarFrames \in Nat
  BY StreamAssumption DEF Main, Radar, Threads, Streams

\* The record of a thread is made of what only the thread itself changes.
LEMMA RecordKept ==
  ASSUME NEW c \in Threads, enc' = enc,
         c = Radar => mirror'.delivered = mirror.delivered,
         c \in Sources => recorded'[c] = recorded[c],
         c = Main => pc' = pc /\ pc \in Writes /\ (pc = "end" => dropped' = dropped)
  PROVE  RecordOf(c)' = RecordOf(c)
  <1>1. CASE c = Radar
    BY <1>1, Names DEF RecordOf
  <1>2. CASE c \in Sources
    BY <1>2, Names DEF RecordOf
  <1>3. CASE c = Main
    <2>1. Unended(enc)' = Unended(enc)
      BY DEF Unended
    <2>2. Least(Unended(enc))' = Least(Unended(enc))
      BY <2>1 DEF Least
    <2> QED
      BY <1>3, <2>1, <2>2, Names DEF RecordOf, Writes
  <1> QED
    BY <1>1, <1>2, <1>3, Names

\* What the encoder accepts the decoder accepts, if both have read the same.
LEMMA Accepted ==
  ASSUME Inv, NEW c \in Threads, call[c] = "emit"
  PROVE  /\ enc.state = "active" /\ dec = enc
         /\ DecoderAfter(dec, RecordOf(c)) = After(enc, RecordOf(c))
  <1>1. EncoderTakes(enc, RecordOf(c))
    BY DEF Inv, Emitting
  <1>2. enc.state = "active" /\ dec = enc
    BY <1>1 DEF EncoderTakes, Inv, Agreement
  <1>3. RecordOf(c).type = "END" => RecordOf(c).count = enc.next[RecordOf(c).source]
    <2>1. CASE c = Radar \/ c \in Sources
      BY <2>1, Names DEF RecordOf
    <2>2. CASE c = Main
      BY <2>2, Names DEF RecordOf, Writes, Inv, Exclusion
    <2> QED
      BY <2>1, <2>2, Names
  <1>4. DecoderTakes(enc, RecordOf(c))
    <2> DEFINE r == RecordOf(c)
    <2>1. r.type \in {"CONFIG", "START", "ITEM", "END", "COMMIT", "ABORT"}
      <3>1. CASE c = Radar \/ c \in Sources
        BY <3>1, Names DEF RecordOf
      <3>2. CASE c = Main
        BY <3>2, Names DEF RecordOf, Writes, Inv, Exclusion
      <3> QED
        BY <3>1, <3>2, Names
    <2> HIDE DEF r
    <2>2. EncoderTakes(enc, r) /\ (r.type = "END" => r.count = enc.next[r.source])
      BY <1>1, <1>3 DEF r
    <2>3. DecoderTakes(enc, r)
      BY <2>1, <2>2 DEF EncoderTakes, DecoderTakes
    <2> QED
      BY <2>3 DEF r
  <1> QED
    BY <1>2, <1>4 DEF DecoderAfter

\* What a record that is written changes.
LEMMA AfterStream ==
  ASSUME Inv, NEW c \in Streams
  PROVE  /\ After(enc, RecordOf(c)) \in Progress
         /\ After(enc, RecordOf(c)).state = enc.state
         /\ After(enc, RecordOf(c)).ended = enc.ended
         /\ After(enc, RecordOf(c)).next[c] = enc.next[c] + 1
         /\ \A s \in Streams \ {c} : After(enc, RecordOf(c)).next[s] = enc.next[s]
  <1>1. RecordOf(c).type = "ITEM" /\ RecordOf(c).source = c
    BY Names DEF RecordOf, Streams
  <1>2. After(enc, RecordOf(c)) = [enc EXCEPT !.next[c] = @ + 1]
    BY <1>1 DEF After
  <1> QED
    BY <1>2 DEF Inv, TypeInv, Progress

LEMMA AfterMain ==
  ASSUME Inv, pc \in Writes
  PROVE  /\ After(enc, RecordOf(Main)) \in Progress
         /\ After(enc, RecordOf(Main)).state =
              CASE pc = "commit" -> "COMMIT" [] pc = "abort" -> "ABORT" [] OTHER -> enc.state
         /\ After(enc, RecordOf(Main)).next = enc.next
         /\ pc # "end" => After(enc, RecordOf(Main)).ended = enc.ended
         /\ pc = "end" =>
              \A s \in Sources :
                \/ After(enc, RecordOf(Main)).ended[s] = enc.ended[s]
                \/ After(enc, RecordOf(Main)).ended[s] =
                     IF dropped[s] THEN "failed" ELSE "complete"
  <1> DEFINE r == RecordOf(Main)
  <1>1. CASE pc = "config"
    <2>1. After(enc, r) = [enc EXCEPT !.config = TRUE]
      BY <1>1, Names DEF RecordOf, After
    <2> QED
      BY <1>1, <2>1 DEF Inv, TypeInv, Progress
  <1>2. CASE pc = "observe"
    <2>1. After(enc, r) = [enc EXCEPT !.started = TRUE]
      BY <1>2, Names DEF RecordOf, After
    <2> QED
      BY <1>2, <2>1 DEF Inv, TypeInv, Progress
  <1>3. CASE pc = "commit"
    <2>1. After(enc, r) = [enc EXCEPT !.state = "COMMIT"]
      BY <1>3, Names DEF RecordOf, After
    <2> QED
      BY <1>3, <2>1 DEF Inv, TypeInv, Progress
  <1>4. CASE pc = "abort"
    <2>1. After(enc, r) = [enc EXCEPT !.state = "ABORT"]
      BY <1>4, Names DEF RecordOf, After
    <2> QED
      BY <1>4, <2>1 DEF Inv, TypeInv, Progress
  <1>5. CASE pc = "end"
    <2> DEFINE x == Least(Unended(enc))
               o == IF x \in Sources /\ dropped[x] THEN "failed" ELSE "complete"
    <2>1. r = [type |-> "END", source |-> x, count |-> enc.next[x], outcome |-> o]
      BY <1>5, Names DEF RecordOf
    <2>2. After(enc, r) = [enc EXCEPT !.ended[x] = o]
      BY <2>1 DEF After
    <2>3. o \in {"failed", "complete"} /\ (x \in Sources => o = IF dropped[x] THEN "failed" ELSE "complete")
      OBVIOUS
    <2> HIDE DEF x, o, r
    <2>4. enc \in Progress
      BY DEF Inv, TypeInv
    <2>5. After(enc, r) \in Progress
      BY <2>2, <2>3, <2>4 DEF Progress
    <2>6. After(enc, r).state = enc.state /\ After(enc, r).next = enc.next
      BY <2>2, <2>4 DEF Progress
    <2>7. \A s \in Sources : After(enc, r).ended[s] = IF s = x THEN o ELSE enc.ended[s]
      BY <2>2, <2>4, Names DEF Progress
    <2> QED
      BY <1>5, <2>3, <2>5, <2>6, <2>7 DEF r
  <1> QED
    BY <1>1, <1>2, <1>3, <1>4, <1>5 DEF Writes

-----------------------------------------------------------------------------
(* Steps of which the stream notices nothing.                              *)

\* The records being written stay accepted.
LEMMA EmittingKept ==
  ASSUME Inv, enc' = enc,
         \A c \in Threads : call'[c] = "emit" =>
           /\ call[c] = "emit"
           /\ c = Radar => mirror'.delivered = mirror.delivered
           /\ c \in Sources => recorded'[c] = recorded[c]
           /\ c = Main => pc' = pc /\ (pc = "end" => dropped' = dropped)
  PROVE  Emitting'
  <1> SUFFICES ASSUME NEW c \in Threads, call'[c] = "emit"
               PROVE  EncoderTakes(enc, RecordOf(c))'
    BY DEF Emitting
  <1>1. EncoderTakes(enc, RecordOf(c))
    BY DEF Inv, Emitting
  <1>2. c = Main => pc \in Writes
    BY DEF Inv, Exclusion
  <1>3. RecordOf(c)' = RecordOf(c)
    BY <1>2, RecordKept
  <1>4. EncoderTakes(enc', RecordOf(c)')
    BY <1>1, <1>3
  <1> QED
    BY <1>4 DEF EncoderTakes, EndingStarted, RecordsStarted, Unended, CommitOutcomes

\* The steps of the main thread, the sources and the radar between their calls.
LEMMA QuietInv ==
  ASSUME Inv, TypeInv', Finished', Stages', UNCHANGED <<call, enc, dec>>,
         call[Main] # "idle" => pc' = pc,
         mirror'.delivered = mirror.delivered,
         mirror'.state \in {"on", "sealed"} => mirror.state \in {"on", "sealed"},
         mirror'.state = "sealed" => call[Radar] = "idle",
         phase = "finished" => UNCHANGED <<phase, drain, dropped, recorded>>,
         \A s \in Sources :
           /\ call[s] # "idle" => drain'[s] = drain[s] /\ recorded'[s] = recorded[s]
           /\ drain'[s] # "lost" => drain[s] # "lost" /\ recorded'[s] = recorded[s],
         published => published' /\ radarDir' = radarDir,
         pc = "done" => UNCHANGED <<frames, published>>
  PROVE  Inv'
  <1>1. Exclusion'
    BY DEF Inv, Exclusion
  <1>2. Emitting'
    <2>1. call[Main] # "idle" /\ pc = "end" => dropped' = dropped
      BY DEF Inv, Stages
    <2> QED
      BY <2>1, EmittingKept
  <1>3. Agreement'
    BY DEF Inv, Agreement
  <1>4. Counted'
    BY DEF Inv, Counted
  <1>5. Endings'
    BY DEF Inv, Endings
  <1>6. TerminalIsTruthful'
    <2>1. dec.state = "COMMIT" =>
            UNCHANGED <<frames, drain, dropped, recorded, published, radarDir>>
      BY DEF Inv, Stages, TerminalIsTruthful
    <2>2. dec.state = "ABORT" => ~ published'
      BY DEF Inv, Stages, TerminalIsTruthful
    <2> QED
      BY <2>1, <2>2 DEF Inv, TerminalIsTruthful
  <1> QED
    BY <1>1, <1>2, <1>3, <1>4, <1>5, <1>6 DEF Inv

-----------------------------------------------------------------------------
(* Steps of the stream.                                                    *)

\* A call waits for the mutex.
LEMMA LockInv ==
  ASSUME Inv, NEW c \in Threads, call[c] = "idle", call' = [call EXCEPT ![c] = "lock"],
         UNCHANGED <<phase, drain, dropped, mainVars, radarVars, enc, dec, published, radarDir>>,
         c = Main => pc \in Writes,
         c = Radar => mirror.state = "on",
         IF c \in Sources
         THEN drain[c] = "on" /\ recorded' = [recorded EXCEPT ![c] = @ + 1]
         ELSE UNCHANGED recorded
  PROVE  Inv'
  <1>1. call \in [Threads -> {"idle", "lock", "emit"}] /\ recorded \in [Sources -> Nat]
    BY DEF Inv, TypeInv
  <1>2. TypeInv'
    <2>1. call' \in [Threads -> {"idle", "lock", "emit"}] /\ recorded' \in [Sources -> Nat]
      BY <1>1
    <2> QED
      BY <2>1 DEF Inv, TypeInv, mainVars, radarVars
  <1>3. Exclusion'
    BY <1>1, Names DEF Inv, Exclusion, mainVars, radarVars
  <1>4. Emitting'
    BY <1>1, EmittingKept, Names DEF mainVars, radarVars
  <1>5. Agreement' /\ Endings' /\ Finished'
    BY DEF Inv, Agreement, Endings, Finished
  <1>6. Counted'
    <2>1. ASSUME NEW s \in Sources, drain'[s] # "lost"
          PROVE  recorded'[s] = enc'.next[s] + (IF call'[s] = "idle" THEN 0 ELSE 1)
      <3>1. enc.next[s] \in Nat /\ s \in Threads
        BY Names DEF Inv, TypeInv, Progress
      <3>2. CASE s = c
        BY <1>1, <2>1, <3>1, <3>2 DEF Inv, Counted
      <3>3. CASE s # c
        BY <1>1, <2>1, <3>1, <3>3 DEF Inv, Counted
      <3> QED
        BY <3>2, <3>3
    <2> QED
      BY <2>1 DEF Inv, Counted, radarVars
  <1>7. Stages'
    BY DEF Inv, Stages, mainVars, radarVars
  <1>8. TerminalIsTruthful'
    <2>1. dec.state = "COMMIT" => UNCHANGED recorded
      BY DEF Inv, Stages, Finished
    <2> QED
      BY <2>1 DEF Inv, TerminalIsTruthful, radarVars
  <1> QED
    BY <1>2, <1>3, <1>4, <1>5, <1>6, <1>7, <1>8 DEF Inv

\* The mutex is taken and the encoder accepts the record.
LEMMA EmitInv ==
  ASSUME Inv, NEW c \in Threads, call[c] = "lock", call' = [call EXCEPT ![c] = "emit"],
         \A d \in Threads : call[d] # "emit",
         EncoderTakes(enc, RecordOf(c)),
         UNCHANGED <<partVars, mainVars, radarVars, enc, dec, published, radarDir>>
  PROVE  Inv'
  <1> USE DEF partVars, mainVars, radarVars
  <1>1. call \in [Threads -> {"idle", "lock", "emit"}]
    BY DEF Inv, TypeInv
  <1>2. TypeInv'
    <2>1. call' \in [Threads -> {"idle", "lock", "emit"}]
      BY <1>1
    <2> QED
      BY <2>1 DEF Inv, TypeInv
  <1>3. Exclusion'
    BY <1>1, Names DEF Inv, Exclusion
  <1>4. Emitting'
    <2>1. c = Main => pc \in Writes
      BY DEF Inv, Exclusion
    <2>2. RecordOf(c)' = RecordOf(c)
      BY <2>1, RecordKept
    <2>3. EncoderTakes(enc', RecordOf(c)')
      BY <2>2
    <2>4. EncoderTakes(enc, RecordOf(c))'
      BY <2>3 DEF EncoderTakes, EndingStarted, RecordsStarted, Unended, CommitOutcomes
    <2>5. \A d \in Threads : call'[d] = "emit" => d = c
      BY <1>1
    <2> QED
      BY <2>4, <2>5 DEF Emitting
  <1>5. Agreement' /\ Endings' /\ Finished' /\ Stages' /\ TerminalIsTruthful'
    BY DEF Inv, Agreement, Endings, Finished, Stages, TerminalIsTruthful
  <1>6. Counted'
    BY <1>1, Names DEF Inv, Counted
  <1> QED
    BY <1>2, <1>3, <1>4, <1>5, <1>6 DEF Inv

\* What the caller of a failed call does with the failure.
LEMMA FailedOutcome ==
  ASSUME Inv, NEW c \in Threads, Outcome(c, FALSE), c = Main => pc \in Writes,
         UNCHANGED <<published, radarDir>>,
         call' = [call EXCEPT ![c] = "idle"]
  PROVE  /\ UNCHANGED <<err, frames, phase>>
         /\ pc' = pc \/ (c = Main /\ pc' = "done")
              \/ (c = Main /\ pc = "observe" /\ pc' = "capture")
         /\ mirror' \in [state : {"on", "failed", "aborted", "sealed"}, delivered : Nat]
         /\ mirror'.delivered = mirror.delivered
         /\ mirror'.state \in {mirror.state, "failed"}
         /\ mirror.state = "sealed" => mirror'.state = "sealed"
         /\ drain' \in [Sources -> {"none", "on", "over", "lost"}]
         /\ dropped' \in [Sources -> BOOLEAN]
         /\ recorded' \in [Sources -> Nat]
         /\ \A s \in Sources : IF s = c
                               THEN drain[s] = "on" /\ drain'[s] = "lost"
                               ELSE /\ drain'[s] = drain[s] /\ dropped'[s] = dropped[s]
                                    /\ recorded'[s] = recorded[s]
         /\ phase = "finished" => UNCHANGED <<drain, dropped, recorded>>
  <1>1. CASE c = Main
    <2>1. MainOutcome(FALSE)
      BY <1>1, Names DEF Outcome
    <2>2. UNCHANGED <<phase, drain, dropped, recorded, err, radarVars>>
      BY <2>1 DEF MainOutcome
    <2>3. pc' = "done" \/ (pc = "observe" /\ pc' = "capture")
      BY <1>1, <2>1 DEF MainOutcome, Writes
    <2> QED
      BY <1>1, <2>2, <2>3, Names DEF radarVars, Inv, TypeInv
  <1>2. CASE c = Radar
    <2>1. RadarOutcome(FALSE)
      BY <1>2, Names DEF Outcome
    <2>2. UNCHANGED <<phase, drain, dropped, recorded, mainVars, frames>>
      BY <2>1 DEF RadarOutcome
    <2>3. mirror' = [mirror EXCEPT !.state = IF @ = "on" THEN "failed" ELSE @]
      BY <2>1 DEF RadarOutcome
    <2> QED
      BY <1>2, <2>2, <2>3, Names DEF mainVars, Inv, TypeInv
  <1>3. CASE c \in Sources
    <2>1. SourceOutcome(c, FALSE)
      BY <1>3, Names DEF Outcome
    <2>2. /\ DrainLost(c) /\ UNCHANGED <<mainVars, radarVars>>
      BY <2>1 DEF SourceOutcome
    <2>3. /\ drain[c] = "on" /\ drain' = [drain EXCEPT ![c] = "lost"]
          /\ dropped' = [dropped EXCEPT ![c] = TRUE]
          /\ recorded' = [recorded EXCEPT ![c] = 0]
          /\ UNCHANGED phase
      BY <2>2 DEF DrainLost
    <2>4. phase # "finished"
      BY <1>3, <2>3 DEF Inv, Finished
    <2>5. /\ drain' \in [Sources -> {"none", "on", "over", "lost"}]
          /\ dropped' \in [Sources -> BOOLEAN]
          /\ recorded' \in [Sources -> Nat]
      BY <1>3, <2>3 DEF Inv, TypeInv
    <2>6. \A s \in Sources : IF s = c
                             THEN drain[s] = "on" /\ drain'[s] = "lost"
                             ELSE /\ drain'[s] = drain[s] /\ dropped'[s] = dropped[s]
                                  /\ recorded'[s] = recorded[s]
      BY <1>3, <2>3 DEF Inv, TypeInv
    <2> QED
      BY <1>3, <2>2, <2>3, <2>4, <2>5, <2>6, Names DEF mainVars, radarVars, Inv, TypeInv
  <1> QED
    BY <1>1, <1>2, <1>3, Names

\* A call fails: before the mutex, with it, or in the middle of its record.
LEMMA FailInv ==
  ASSUME Inv, NEW c \in Threads, Outcome(c, FALSE), c = Main => pc \in Writes,
         UNCHANGED <<published, radarDir>>,
         call' = [call EXCEPT ![c] = "idle"],
         \/ UNCHANGED <<enc, dec>>
         \/ /\ enc' = [enc EXCEPT !.state = "poisoned"] /\ dec' = dec
            /\ \A d \in Threads : call[d] # "emit"
         \/ /\ enc' = [enc EXCEPT !.state = "poisoned"]
            /\ dec' = [dec EXCEPT !.state = "torn"] /\ call[c] = "emit"
  PROVE  Inv'
  <1>1. /\ UNCHANGED <<err, frames, phase>>
        /\ pc' = pc \/ (c = Main /\ pc' = "done")
             \/ (c = Main /\ pc = "observe" /\ pc' = "capture")
        /\ mirror' \in [state : {"on", "failed", "aborted", "sealed"}, delivered : Nat]
        /\ mirror'.delivered = mirror.delivered
        /\ mirror'.state \in {mirror.state, "failed"}
        /\ mirror.state = "sealed" => mirror'.state = "sealed"
        /\ drain' \in [Sources -> {"none", "on", "over", "lost"}]
        /\ dropped' \in [Sources -> BOOLEAN]
        /\ recorded' \in [Sources -> Nat]
        /\ \A s \in Sources : IF s = c
                              THEN drain[s] = "on" /\ drain'[s] = "lost"
                              ELSE /\ drain'[s] = drain[s] /\ dropped'[s] = dropped[s]
                                   /\ recorded'[s] = recorded[s]
        /\ phase = "finished" => UNCHANGED <<drain, dropped, recorded>>
    BY FailedOutcome
  <1>2. /\ call' \in [Threads -> {"idle", "lock", "emit"}]
        /\ \A d \in Threads : call'[d] = IF d = c THEN "idle" ELSE call[d]
    BY DEF Inv, TypeInv
  <1>3. /\ enc' \in Progress /\ dec' \in Progress
        /\ enc'.next = enc.next /\ enc'.ended = enc.ended
        /\ dec'.next = dec.next /\ dec'.ended = dec.ended
        /\ enc'.state \in {enc.state, "poisoned"} /\ dec'.state \in {dec.state, "torn"}
    <2>1. enc \in Progress /\ dec \in Progress
      BY DEF Inv, TypeInv
    <2> QED
      BY <2>1 DEF Progress
  <1>4. TypeInv'
    <2>1. pc' \in Writes \cup {"launch", "arm", "start", "radio", "capture", "part",
                               "mirror", "radarCommit", "finish", "done"}
      BY <1>1 DEF Inv, TypeInv
    <2> QED
      BY <1>1, <1>2, <1>3, <2>1 DEF Inv, TypeInv
  <1>5. Exclusion'
    <2>1. \A s \in Sources : call'[s] # "idle" => drain'[s] = "on"
      BY <1>1, <1>2, Names DEF Inv, Exclusion
    <2>2. call'[Main] # "idle" => pc' \in Writes
      BY <1>1, <1>2, Names DEF Inv, Exclusion
    <2>3. mirror'.state = "sealed" => call'[Radar] = "idle"
      BY <1>1, <1>2, Names DEF Inv, Exclusion
    <2>4. \A d, e \in Threads : call'[d] = "emit" /\ call'[e] = "emit" => d = e
      BY <1>2 DEF Inv, Exclusion
    <2> QED
      BY <2>1, <2>2, <2>3, <2>4 DEF Exclusion
  <1>6. Emitting'
    <2>1. CASE enc' = enc
      <3>1. pc = "end" => dropped' = dropped
        BY <1>1 DEF Inv, Stages
      <3> QED
        BY <1>1, <1>2, <2>1, <3>1, EmittingKept, Names
    <2>2. CASE enc' # enc
      <3>1. \A d \in Threads : call'[d] # "emit"
        BY <1>2, <2>2 DEF Inv, Exclusion
      <3> QED
        BY <3>1 DEF Emitting
    <2> QED
      BY <2>1, <2>2
  <1>7. Agreement'
    BY <1>3 DEF Inv, Agreement, TypeInv, Progress
  <1>8. Counted'
    <2>1. \A s \in Sources : drain'[s] # "lost" =>
            recorded'[s] = enc'.next[s] + (IF call'[s] = "idle" THEN 0 ELSE 1)
      BY <1>1, <1>2, <1>3, Names DEF Inv, Counted
    <2>2. mirror'.state \in {"on", "sealed"} => mirror'.delivered = enc'.next[Radar]
      BY <1>1, <1>3 DEF Inv, Counted
    <2> QED
      BY <2>1, <2>2 DEF Counted
  <1>9. Finished'
    BY <1>1 DEF Inv, Finished
  <1>10. Endings'
    BY <1>1, <1>3 DEF Inv, Endings
  <1>11. Stages'
    <2>1. dec'.state \in {"COMMIT", "ABORT"} => dec'.state = dec.state
      BY <1>3
    <2> QED
      BY <1>1, <2>1 DEF Inv, Stages, Writes
  <1>12. TerminalIsTruthful'
    <2>1. dec'.state \in {"COMMIT", "ABORT"} => dec'.state = dec.state
      BY <1>3
    <2>2. dec.state = "COMMIT" => UNCHANGED <<drain, dropped, recorded>>
      BY <1>1 DEF Inv, Stages
    <2> QED
      BY <1>1, <1>3, <2>1, <2>2 DEF Inv, TerminalIsTruthful
  <1> QED
    BY <1>4, <1>5, <1>6, <1>7, <1>8, <1>9, <1>10, <1>11, <1>12 DEF Inv

\* A record is written.
LEMMA WrittenInv ==
  ASSUME Inv, NEW c \in Threads, Written(c) PROVE Inv'
  <1> DEFINE a == After(enc, RecordOf(c))
  <1>1. /\ call[c] = "emit" /\ call' = [call EXCEPT ![c] = "idle"]
        /\ enc' = a /\ dec' = DecoderAfter(dec, RecordOf(c))
        /\ UNCHANGED <<published, radarDir>>
    BY DEF Written, EncoderAfter, restVars
  <1>2. enc.state = "active" /\ dec = enc /\ dec' = a
    BY <1>1, Accepted
  <1>3. /\ call' \in [Threads -> {"idle", "lock", "emit"}]
        /\ \A d \in Threads : call'[d] = IF d = c THEN "idle" ELSE call[d]
        /\ \A d \in Threads : call'[d] # "emit"
    BY <1>1 DEF Inv, TypeInv, Exclusion
  <1>4. Emitting'
    BY <1>3 DEF Emitting
  <1>5. c = Main => pc \in Writes
    BY <1>1 DEF Inv, Exclusion
  <1>6. a \in Progress /\ a.state \in {"active", "COMMIT", "ABORT"}
    BY <1>2, <1>5, AfterStream, AfterMain, Names DEF Streams
  <1> HIDE DEF a
  <1>7. Agreement'
    BY <1>1, <1>2, <1>6 DEF Agreement
  <1>8. CASE c \in Streams
    <2>1. /\ a.state = "active" /\ a.ended = enc.ended
          /\ a.next[c] = enc.next[c] + 1
          /\ \A s \in Streams \ {c} : a.next[s] = enc.next[s]
      BY <1>2, <1>8, AfterStream DEF a
    <2>2. c # Main
      BY <1>8, Names
    <2>3. PICK ended \in BOOLEAN : Outcome(c, ~ ended) /\ (~ ended \/ TRUE \in ContextEnded(c))
      <3>1. PICK ended \in ContextEnded(c) : Outcome(c, ~ ended)
        BY <2>2 DEF Written, Terminal
      <3>2. ContextEnded(c) \subseteq BOOLEAN
        <4>1. CASE c = Radar
          <5>1. ContextEnded(c) = {mirror.state \in {"failed", "aborted"}}
            BY <4>1, Names DEF ContextEnded
          <5>2. (mirror.state \in {"failed", "aborted"}) \in BOOLEAN
            OBVIOUS
          <5> QED
            BY <5>1, <5>2, Zenon
        <4>2. CASE c \in Sources
          <5>1. ContextEnded(c) = IF cancelled THEN {TRUE}
                                  ELSE IF dropped[c] THEN BOOLEAN ELSE {FALSE}
            BY <4>2, Names DEF ContextEnded
          <5> QED
            BY <5>1
        <4> QED
          BY <1>8, <4>1, <4>2 DEF Streams
      <3> QED
        BY <3>1, <3>2
    <2>4. enc'.next[c] \in Nat /\ enc.next[c] \in Nat
      BY <1>1, <1>6, <1>8 DEF Inv, TypeInv, Progress
    <2>5. CASE ended
      <3>1. Outcome(c, FALSE)
        BY <2>3, <2>5
      <3>2. /\ UNCHANGED <<err, frames, phase>>
            /\ pc' = pc
            /\ mirror' \in [state : {"on", "failed", "aborted", "sealed"}, delivered : Nat]
            /\ mirror'.delivered = mirror.delivered
            /\ mirror'.state \in {mirror.state, "failed"}
            /\ mirror.state = "sealed" => mirror'.state = "sealed"
            /\ drain' \in [Sources -> {"none", "on", "over", "lost"}]
            /\ dropped' \in [Sources -> BOOLEAN]
            /\ recorded' \in [Sources -> Nat]
            /\ \A s \in Sources : IF s = c
                                  THEN drain[s] = "on" /\ drain'[s] = "lost"
                                  ELSE /\ drain'[s] = drain[s] /\ dropped'[s] = dropped[s]
                                       /\ recorded'[s] = recorded[s]
            /\ phase = "finished" => UNCHANGED <<drain, dropped, recorded>>
        BY <1>1, <2>2, <3>1, FailedOutcome
      <3>3. c = Radar => mirror.state \in {"failed", "aborted"}
        BY <2>3, <2>5, Names DEF ContextEnded
      <3>4. TypeInv'
        BY <1>1, <1>2, <1>3, <1>6, <3>2 DEF Inv, TypeInv
      <3>5. Exclusion'
        <4>1. \A s \in Sources : call'[s] # "idle" => drain'[s] = "on"
          BY <1>3, <3>2, Names DEF Inv, Exclusion
        <4>2. mirror'.state = "sealed" => call'[Radar] = "idle"
          BY <1>3, <3>2, Names DEF Inv, Exclusion
        <4>3. call'[Main] # "idle" => pc' \in Writes
          BY <1>3, <3>2, Names DEF Inv, Exclusion
        <4> QED
          BY <1>3, <4>1, <4>2, <4>3 DEF Exclusion
      <3>6. Counted'
        <4>1. \A s \in Sources : drain'[s] # "lost" =>
                recorded'[s] = enc'.next[s] + (IF call'[s] = "idle" THEN 0 ELSE 1)
          BY <1>1, <1>3, <2>1, <3>2, Names DEF Inv, Counted
        <4>2. mirror'.state \in {"on", "sealed"} => mirror'.delivered = enc'.next[Radar]
          BY <1>1, <2>1, <3>2, <3>3, Names DEF Inv, Counted
        <4> QED
          BY <4>1, <4>2 DEF Counted
      <3>7. Finished'
        BY <3>2 DEF Inv, Finished
      <3>8. Endings'
        BY <1>1, <2>1, <3>2 DEF Inv, Endings
      <3>9. Stages' /\ TerminalIsTruthful'
        BY <1>1, <1>2, <2>1, <3>2 DEF Inv, Stages, TerminalIsTruthful
      <3> QED
        BY <1>4, <1>7, <3>4, <3>5, <3>6, <3>7, <3>8, <3>9 DEF Inv
    <2>6. CASE ~ ended /\ c = Radar
      <3>1. RadarOutcome(TRUE)
        BY <2>3, <2>6, Names DEF Outcome
      <3>2. /\ mirror' = [mirror EXCEPT !.delivered = @ + 1]
            /\ UNCHANGED <<phase, drain, dropped, recorded, pc, err, frames>>
        BY <3>1 DEF RadarOutcome, mainVars
      <3>3. /\ mirror' \in [state : {"on", "failed", "aborted", "sealed"}, delivered : Nat]
            /\ mirror'.state = mirror.state /\ mirror.state # "sealed"
            /\ mirror'.delivered = mirror.delivered + 1
        BY <1>1, <2>6, <3>2 DEF Inv, TypeInv, Exclusion
      <3>4. TypeInv'
        BY <1>1, <1>2, <1>3, <1>6, <3>2, <3>3 DEF Inv, TypeInv
      <3>5. Exclusion'
        BY <1>3, <2>6, <3>2, <3>3, Names DEF Inv, Exclusion
      <3>6. Counted'
        <4>1. \A s \in Sources : s # c /\ call'[s] = call[s] /\ enc'.next[s] = enc.next[s]
          BY <1>1, <1>3, <2>1, <2>6, Names
        <4> QED
          BY <1>1, <2>1, <2>6, <3>2, <3>3, <4>1 DEF Inv, Counted
      <3>7. Finished' /\ Endings'
        BY <1>1, <2>1, <3>2 DEF Inv, Finished, Endings
      <3>8. Stages' /\ TerminalIsTruthful'
        BY <1>1, <1>2, <2>1, <3>2, <3>3 DEF Inv, Stages, TerminalIsTruthful
      <3> QED
        BY <1>4, <1>7, <3>4, <3>5, <3>6, <3>7, <3>8 DEF Inv
    <2>7. CASE ~ ended /\ c \in Sources
      <3>1. SourceOutcome(c, TRUE)
        BY <2>3, <2>7, Names DEF Outcome
      <3>2. UNCHANGED <<phase, drain, dropped, recorded, pc, err, frames, mirror>>
        BY <3>1 DEF SourceOutcome, partVars, mainVars, radarVars
      <3>3. TypeInv'
        BY <1>1, <1>2, <1>3, <1>6, <3>2 DEF Inv, TypeInv
      <3>4. Exclusion'
        BY <1>3, <2>7, <3>2, Names DEF Inv, Exclusion
      <3>5. Counted'
        <4>1. ASSUME NEW s \in Sources, drain'[s] # "lost"
              PROVE  recorded'[s] = enc'.next[s] + (IF call'[s] = "idle" THEN 0 ELSE 1)
          <5>1. recorded[s] = enc.next[s] + (IF call[s] = "idle" THEN 0 ELSE 1)
            BY <3>2, <4>1 DEF Inv, Counted
          <5>2. CASE s = c
            BY <1>1, <1>3, <2>1, <2>4, <3>2, <5>1, <5>2
          <5>3. CASE s # c
            BY <1>1, <1>3, <2>1, <3>2, <5>1, <5>3, Names
          <5> QED
            BY <5>2, <5>3
        <4>2. mirror'.state \in {"on", "sealed"} => mirror'.delivered = enc'.next[Radar]
          BY <1>1, <2>1, <2>7, <3>2, Names DEF Inv, Counted
        <4> QED
          BY <4>1, <4>2 DEF Counted
      <3>6. Finished' /\ Endings'
        BY <1>1, <2>1, <3>2 DEF Inv, Finished, Endings
      <3>7. Stages' /\ TerminalIsTruthful'
        BY <1>1, <1>2, <2>1, <3>2 DEF Inv, Stages, TerminalIsTruthful
      <3> QED
        BY <1>4, <1>7, <3>3, <3>4, <3>5, <3>6, <3>7 DEF Inv
    <2> QED
      BY <1>8, <2>5, <2>6, <2>7 DEF Streams
  <1>9. CASE c = Main
    <2>1. /\ a.state = CASE pc = "commit" -> "COMMIT" [] pc = "abort" -> "ABORT"
                         [] OTHER -> enc.state
          /\ a.next = enc.next
          /\ pc # "end" => a.ended = enc.ended
          /\ pc = "end" => \A s \in Sources :
               \/ a.ended[s] = enc.ended[s]
               \/ a.ended[s] = IF dropped[s] THEN "failed" ELSE "complete"
      BY <1>5, <1>9, AfterMain DEF a
    <2>2. /\ UNCHANGED <<phase, drain, dropped, recorded, err, frames, mirror>>
          /\ pc = "config" => pc' \in {"launch", "done"}
          /\ pc = "observe" => pc' = "capture"
          /\ pc = "end" => pc' \in {"end", "commit", "done"}
          /\ pc \in {"commit", "abort"} => pc' = "done"
      <3>1. PICK ok \in BOOLEAN : MainOutcome(ok)
        <4>1. PICK ended \in IF Terminal(c) THEN {FALSE} ELSE ContextEnded(c) : Outcome(c, ~ ended)
          BY DEF Written
        <4>2. Outcome(c, TRUE) \/ Outcome(c, FALSE)
          BY <4>1
        <4> QED
          BY <1>9, <4>2, Names DEF Outcome
      <3> QED
        BY <3>1 DEF MainOutcome, radarVars
    <2>3. pc' \in Writes \cup {"launch", "capture", "done"}
      BY <1>5, <1>9, <2>2 DEF Writes
    <2>4. TypeInv'
      BY <1>1, <1>2, <1>3, <1>6, <2>2, <2>3 DEF Inv, TypeInv
    <2>5. Exclusion'
      BY <1>3, <1>9, <2>2, Names DEF Inv, Exclusion
    <2>6. Counted'
      BY <1>1, <1>3, <1>9, <2>1, <2>2, Names DEF Inv, Counted
    <2>7. Finished'
      BY <2>2 DEF Inv, Finished
    <2>8. Endings'
      <3>1. pc = "end" => phase = "finished"
        BY DEF Inv, Stages
      <3> QED
        BY <1>1, <2>1, <2>2, <3>1 DEF Inv, Endings
    <2>9. Stages'
      <3>1. pc \in {"commit", "abort"} \/ a.state = "active"
        BY <1>2, <1>5, <1>9, <2>1 DEF Writes
      <3>2. CASE pc = "commit"
        BY <1>1, <1>2, <2>1, <2>2, <3>2 DEF Inv, Stages
      <3>3. CASE pc = "abort"
        BY <1>1, <1>2, <2>1, <2>2, <3>3 DEF Inv, Stages
      <3>4. CASE pc \notin {"commit", "abort"}
        BY <1>1, <1>2, <1>5, <1>9, <2>2, <3>1, <3>4 DEF Inv, Stages, Writes
      <3> QED
        BY <3>2, <3>3, <3>4
    <2>10. TerminalIsTruthful'
      <3>1. CASE pc = "commit"
        <4>1. CommitOutcomes(enc)
          <5>1. EncoderTakes(enc, RecordOf(Main))
            BY <1>1, <1>9 DEF Inv, Emitting
          <5>2. RecordOf(Main) = [type |-> "COMMIT"]
            BY <3>1, Names DEF RecordOf
          <5> QED
            BY <5>1, <5>2 DEF EncoderTakes
        <4>2. /\ published /\ radarDir /\ mirror.delivered = frames
              /\ phase = "finished" /\ mirror.delivered = enc.next[Radar]
          BY <3>1 DEF Inv, Stages, Counted
        <4>3. ASSUME NEW s \in Sources
              PROVE  IF enc.ended[s] = "complete"
                     THEN enc.next[s] = recorded[s] /\ drain[s] = "over"
                     ELSE s \notin Required /\ dropped[s]
          <5>1. enc.ended[s] \in {"complete", "failed"}
            BY <4>1, Names DEF CommitOutcomes, Unended, Inv, TypeInv, Progress
          <5>2. CASE enc.ended[s] = "complete"
            <6>1. ~ dropped[s] /\ drain[s] = "over"
              BY <4>2, <5>2 DEF Inv, Endings, Finished
            <6>2. call[s] = "idle" /\ enc.next[s] \in Nat
              BY <6>1, Names DEF Inv, Exclusion, TypeInv, Progress
            <6> QED
              BY <5>2, <6>1, <6>2 DEF Inv, Counted
          <5>3. CASE enc.ended[s] = "failed"
            BY <4>2, <5>3 DEF Inv, Endings, Finished
          <5> QED
            BY <5>1, <5>2, <5>3
        <4>4. dec'.next = enc.next /\ dec'.ended = enc.ended /\ dec'.state = "COMMIT"
          BY <1>2, <2>1, <3>1
        <4> QED
          BY <1>1, <2>2, <4>2, <4>3, <4>4 DEF TerminalIsTruthful
      <3>2. CASE pc = "abort"
        <4>1. ~ published /\ dec'.state = "ABORT"
          BY <1>2, <2>1, <3>2 DEF Inv, Stages
        <4> QED
          BY <1>1, <4>1 DEF TerminalIsTruthful
      <3>3. CASE pc \notin {"commit", "abort"}
        <4>1. dec'.state = "active"
          BY <1>2, <2>1, <3>3
        <4> QED
          BY <4>1 DEF TerminalIsTruthful
      <3> QED
        BY <3>1, <3>2, <3>3
    <2> QED
      BY <1>4, <1>7, <2>4, <2>5, <2>6, <2>7, <2>8, <2>9, <2>10 DEF Inv
  <1> QED
    BY <1>8, <1>9 DEF Threads

-----------------------------------------------------------------------------
(* The steps of the specification.                                         *)

LEMMA EnterInv ==
  ASSUME Inv, NEW c \in {Main, Radar}, Enter(c), c = Main => pc \in Writes,
         c = Radar => mirror.state = "on"
  PROVE  Inv'
  <1>1. call[c] = "idle" /\ c \in Threads /\ UNCHANGED <<published, radarDir>>
    BY Names DEF Enter, restVars
  <1>2. CASE Outcome(c, FALSE) /\ UNCHANGED <<call, enc, dec>>
    <2>1. call' = [call EXCEPT ![c] = "idle"]
      BY <1>1, <1>2 DEF Inv, TypeInv
    <2> QED
      BY <1>1, <1>2, <2>1, FailInv
  <1>3. CASE /\ call' = [call EXCEPT ![c] = "lock"]
             /\ UNCHANGED <<partVars, mainVars, radarVars, enc, dec, closed>>
    <2>1. c \notin Sources
      BY Names
    <2> QED
      BY <1>1, <1>3, <2>1, LockInv DEF partVars
  <1> QED
    BY <1>2, <1>3 DEF Enter

LEMMA AcquireInv ==
  ASSUME Inv, NEW c \in Threads, Acquire(c) PROVE Inv'
  <1>1. /\ call[c] = "lock" /\ \A d \in Threads : call[d] # "emit"
        /\ UNCHANGED <<published, radarDir>>
    BY DEF Acquire, restVars
  <1>2. c = Main => pc \in Writes
    BY <1>1 DEF Inv, Exclusion
  <1>3. CASE /\ EncoderTakes(enc, RecordOf(c))
             /\ call' = [call EXCEPT ![c] = "emit"]
             /\ UNCHANGED <<partVars, mainVars, radarVars, enc, dec, closed>>
    BY <1>1, <1>3, EmitInv
  <1>4. CASE /\ call' = [call EXCEPT ![c] = "idle"]
             /\ enc' = enc \/ enc' = [enc EXCEPT !.state = "poisoned"]
             /\ Outcome(c, FALSE) /\ UNCHANGED dec
    BY <1>1, <1>2, <1>4, FailInv
  <1> QED
    BY <1>3, <1>4 DEF Acquire

LEMMA StreamInv ==
  ASSUME Inv, NEW c \in Threads, StreamStep(c) PROVE Inv'
  <1>1. CASE CancellationCloses(c)
    <2>1. UNCHANGED <<partVars, mainVars, radarVars, call, enc, dec, restVars>>
      BY <1>1 DEF CancellationCloses
    <2> USE DEF partVars, mainVars, radarVars, restVars
    <2>2. TypeInv' /\ Finished' /\ Stages'
      BY <2>1 DEF Inv, TypeInv, Finished, Stages
    <2> QED
      BY <2>1, <2>2, QuietInv DEF Inv, Exclusion
  <1>2. CASE Acquire(c)
    BY <1>2, AcquireInv
  <1>3. CASE Written(c)
    BY <1>3, WrittenInv
  <1>4. CASE WriteBreaks(c)
    <2>1. c = Main => pc \in Writes
      BY <1>4 DEF WriteBreaks, Inv, Exclusion
    <2> QED
      BY <1>4, <2>1, FailInv DEF WriteBreaks, restVars
  <1> QED
    BY <1>1, <1>2, <1>3, <1>4 DEF StreamStep

\* The coordinator's sources between their calls.
LEMMA SourceInv ==
  ASSUME Inv, NEW s \in Sources, SourceStep(s) PROVE Inv'
  <1>0. s \in Threads /\ s # Main /\ s # Radar
    BY Names
  <1>1. CASE RecordsItem(s)
    <2>1. call[s] = "idle" /\ UNCHANGED <<mainVars, radarVars, enc, dec, restVars>>
      BY <1>1 DEF RecordsItem
    <2>2. CASE DrainLost(s) /\ UNCHANGED call
      <3>1. call' = [call EXCEPT ![s] = "idle"]
        BY <2>1, <2>2 DEF Inv, TypeInv
      <3>2. Outcome(s, FALSE)
        BY <1>0, <2>1, <2>2 DEF Outcome, SourceOutcome, mainVars, radarVars
      <3> QED
        BY <1>0, <2>1, <3>1, <3>2, FailInv DEF restVars
    <2>3. CASE Records(s) /\ call' = [call EXCEPT ![s] = "lock"]
      BY <1>0, <2>1, <2>3, LockInv DEF Records, restVars
    <2> QED
      BY <1>1, <2>2, <2>3 DEF RecordsItem
  <1>2. CASE call[s] = "idle" /\ Participates(DrainLost(s))
    <2>1. call' = [call EXCEPT ![s] = "idle"] /\ UNCHANGED <<enc, dec>>
      BY <1>2 DEF Participates, outVars, Inv, TypeInv
    <2>2. Outcome(s, FALSE)
      BY <1>0, <1>2 DEF Outcome, SourceOutcome, Participates
    <2> QED
      BY <1>0, <1>2, <2>1, <2>2, FailInv DEF Participates, restVars
  <1>3. CASE \/ call[s] = "idle" /\ Participates(DrainEnds(s))
             \/ Participates(Launches(s)) \/ Participates(Drops(s))
    <2>1. /\ UNCHANGED <<mainVars, radarVars, outVars, restVars, phase, recorded>>
          /\ phase # "finished"
      BY <1>3 DEF Participates, DrainEnds, Launches, Drops, Inv, Finished
    <2> USE DEF mainVars, radarVars, outVars, restVars
    <2>2. /\ drain' \in [Sources -> {"none", "on", "over", "lost"}]
          /\ dropped' \in [Sources -> BOOLEAN]
      BY <1>3 DEF Participates, DrainEnds, Launches, Drops, Inv, TypeInv
    <2>3. TypeInv'
      BY <2>1, <2>2 DEF Inv, TypeInv
    <2>4. \A t \in Sources :
            /\ call[t] # "idle" => drain'[t] = drain[t]
            /\ drain'[t] # "lost" => drain[t] # "lost"
      BY <1>3 DEF Participates, DrainEnds, Launches, Drops, Inv, TypeInv, Exclusion
    <2>5. Finished' /\ Stages'
      BY <2>1 DEF Inv, Finished, Stages
    <2> QED
      BY <2>1, <2>3, <2>4, <2>5, QuietInv DEF Inv, Exclusion
  <1> QED
    BY <1>1, <1>2, <1>3 DEF SourceStep, Participates

\* What QuietInv asks of a step that leaves the participant's sources alone.
LEMMA MainQuiet ==
  ASSUME Inv, UNCHANGED <<call, enc, dec, drain, dropped, recorded>>,
         pc' \in Writes \cup {"launch", "arm", "start", "radio", "capture", "part", "mirror",
                              "radarCommit", "finish", "done"},
         err' \in BOOLEAN, frames' \in Nat, radarDir' \in BOOLEAN, published' \in BOOLEAN,
         mirror' \in [state : {"on", "failed", "aborted", "sealed"}, delivered : Nat],
         call[Main] # "idle" => pc' = pc,
         mirror'.delivered = mirror.delivered,
         mirror'.state \in {"on", "sealed"} => mirror.state \in {"on", "sealed"},
         mirror'.state = "sealed" => call[Radar] = "idle",
         phase = "finished" => phase' = phase,
         published => published' /\ radarDir' = radarDir,
         pc = "done" => UNCHANGED <<frames, published>>,
         Finished', Stages'
  PROVE  Inv'
  <1>1. TypeInv'
    BY DEF Inv, TypeInv
  <1> QED
    BY <1>1, QuietInv

LEMMA MainInv ==
  ASSUME Inv, MainStep PROVE Inv'
  <1> USE DEF partVars, mainVars, radarVars, outVars, restVars
  <1>0. call[Main] # "idle" => pc \in Writes
    BY DEF Inv, Exclusion
  <1>1. CASE MainCalls
    BY <1>1, EnterInv, Names DEF MainCalls, Writes
  <1>2. CASE CoordinatorAdvances
    <2>1. phase' \in {"ready", "armed", "started"} /\ phase \in {"starting", "ready", "armed"}
      BY <1>2 DEF CoordinatorAdvances, Advances, NextPhase
    <2>2. /\ UNCHANGED <<call, enc, dec, drain, dropped, recorded, err, frames, mirror,
                         radarDir, published>>
          /\ pc \in {"launch", "arm", "start"} /\ pc' \in {"arm", "start", "radio"}
      BY <1>2 DEF CoordinatorAdvances, Advances, Step
    <2>3. Finished'
      BY <2>1 DEF Finished
    <2>4. Stages'
      BY <2>1, <2>2 DEF Inv, Stages
    <2> QED
      BY <1>0, <2>1, <2>2, <2>3, <2>4, MainQuiet DEF Inv, TypeInv, Exclusion, Writes
  <1>3. CASE LaunchFails
    <2>1. /\ UNCHANGED <<call, enc, dec, drain, dropped, recorded, frames, radarDir, published>>
          /\ pc = "launch" /\ pc' = "abort" /\ err' = TRUE /\ phase' = "failed"
          /\ mirror' = [mirror EXCEPT !.state = IF @ = "sealed" THEN @ ELSE "aborted"]
      BY <1>3 DEF LaunchFails, AbortStream, MirrorAbort
    <2>2. mirror.state # "sealed" /\ ~ published
      BY <2>1 DEF Inv, Stages
    <2>3. /\ mirror' \in [state : {"on", "failed", "aborted", "sealed"}, delivered : Nat]
          /\ mirror'.state = "aborted" /\ mirror'.delivered = mirror.delivered
      BY <2>1, <2>2 DEF Inv, TypeInv
    <2>4. phase # "finished"
      BY <1>3 DEF LaunchFails, Inv, Stages
    <2>5. Finished' /\ Stages'
      BY <2>1, <2>2, <2>3 DEF Inv, Finished, Stages
    <2> QED
      BY <1>0, <2>1, <2>2, <2>3, <2>4, <2>5, MainQuiet DEF Inv, TypeInv, Writes
  <1>4. CASE CoordinatorFails
    <2>1. /\ UNCHANGED <<call, enc, dec, drain, dropped, recorded, frames, mirror, radarDir,
                         published>>
          /\ pc \in {"arm", "start"} /\ pc' = "part" /\ err' = TRUE
          /\ phase # "finished" /\ phase' = "failed"
      BY <1>4 DEF CoordinatorFails, Fails
    <2>2. Finished' /\ Stages'
      BY <2>1 DEF Inv, Finished, Stages
    <2> QED
      BY <1>0, <2>1, <2>2, MainQuiet DEF Inv, TypeInv, Exclusion, Writes
  <1>5. CASE RadioFails \/ FrameStartObserved \/ FrameStartRejected \/ CaptureEnds
    <2>1. /\ UNCHANGED <<call, enc, dec, phase, drain, dropped, recorded, frames, mirror,
                         radarDir, published>>
          /\ pc \in {"radio", "capture"} /\ pc' \in {"part", "observe", "capture"}
      BY <1>5 DEF RadioFails, FrameStartObserved, FrameStartRejected, CaptureEnds, Step
    <2>2. err' \in BOOLEAN
      BY <1>5 DEF RadioFails, FrameStartObserved, FrameStartRejected, CaptureEnds, Inv, TypeInv
    <2>3. Finished' /\ Stages'
      BY <2>1 DEF Inv, Finished, Stages
    <2> QED
      BY <1>0, <2>1, <2>2, <2>3, MainQuiet DEF Inv, TypeInv, Exclusion, Writes
  <1>6. CASE ParticipantCompletes \/ ParticipantAborts
    <2>1. /\ UNCHANGED <<call, enc, dec, drain, dropped, recorded, frames, mirror, radarDir,
                         published>>
          /\ pc = "part" /\ pc' = "mirror" /\ err' \in BOOLEAN
          /\ ~ err' => phase' = "finished"
          /\ phase = "finished" => phase' = phase
      BY <1>6 DEF ParticipantCompletes, ParticipantAborts, Finishes, Fails, Step
    <2>2. Finished'
      BY <1>6 DEF ParticipantCompletes, ParticipantAborts, Finishes, Fails, Inv, Finished
    <2>3. Stages'
      BY <2>1 DEF Inv, Stages
    <2> QED
      BY <1>0, <2>1, <2>2, <2>3, MainQuiet DEF Inv, TypeInv, Exclusion, Writes
  <1>7. CASE MirrorAborted
    <2>1. /\ UNCHANGED <<call, enc, dec, phase, drain, dropped, recorded, frames, radarDir,
                         published>>
          /\ pc = "mirror" /\ pc' = "finish" /\ err' = TRUE
          /\ mirror' = [mirror EXCEPT !.state = IF @ = "sealed" THEN @ ELSE "aborted"]
      BY <1>7 DEF MirrorAborted, MirrorAbort, Step
    <2>2. mirror.state # "sealed" /\ ~ published
      BY <2>1 DEF Inv, Stages
    <2>3. /\ mirror' \in [state : {"on", "failed", "aborted", "sealed"}, delivered : Nat]
          /\ mirror'.state = "aborted" /\ mirror'.delivered = mirror.delivered
      BY <2>1, <2>2 DEF Inv, TypeInv
    <2>4. Finished' /\ Stages'
      BY <2>1, <2>2, <2>3 DEF Inv, Finished, Stages
    <2> QED
      BY <1>0, <2>1, <2>2, <2>3, <2>4, MainQuiet DEF Inv, TypeInv, Writes
  <1>8. CASE MirrorSealed
    <2>1. /\ UNCHANGED <<call, enc, dec, phase, drain, dropped, recorded, err, frames, radarDir,
                         published>>
          /\ pc = "mirror" /\ pc' = "radarCommit" /\ ~ err
          /\ mirror.state = "on" /\ mirror.delivered = frames /\ call[Radar] = "idle"
          /\ mirror' = [mirror EXCEPT !.state = "sealed"]
      BY <1>8 DEF MirrorSealed, Step
    <2>2. /\ mirror' \in [state : {"on", "failed", "aborted", "sealed"}, delivered : Nat]
          /\ mirror'.state = "sealed" /\ mirror'.delivered = mirror.delivered
      BY <2>1 DEF Inv, TypeInv
    <2>3. Finished' /\ Stages'
      BY <2>1, <2>2 DEF Inv, Finished, Stages
    <2> QED
      BY <1>0, <2>1, <2>2, <2>3, MainQuiet DEF Inv, TypeInv, Writes
  <1>9. CASE RadarCommitted
    <2>1. /\ UNCHANGED <<call, enc, dec, phase, drain, dropped, recorded, frames, mirror,
                         published>>
          /\ pc = "radarCommit" /\ pc' = "finish"
      BY <1>9 DEF RadarCommitted, Step
    <2>2. radarDir' \in BOOLEAN /\ err' \in BOOLEAN /\ (~ err' => radarDir')
      <3>1. PICK ok \in BOOLEAN : radarDir' = ok /\ err' = ~ ok
        BY <1>9, Zenon DEF RadarCommitted
      <3> QED
        BY <3>1
    <2>3. ~ published /\ phase = "finished" /\ mirror.state = "sealed"
          /\ mirror.delivered = frames /\ dec.state \notin {"COMMIT", "ABORT"}
      BY <2>1 DEF Inv, Stages
    <2>4. Finished'
      BY <2>1 DEF Inv, Finished
    <2>5. Stages'
      BY <2>1, <2>3, <2>2 DEF Stages
    <2> QED
      BY <1>0, <2>1, <2>3, <2>4, <2>5, <2>2, MainQuiet DEF Inv, TypeInv, Exclusion, Writes
  <1>10. CASE Published
    <2>1. /\ UNCHANGED <<call, enc, dec, phase, drain, dropped, recorded, err, frames, mirror,
                         radarDir>>
          /\ pc = "finish" /\ pc' = "end" /\ ~ err /\ published' = TRUE
      BY <1>10 DEF Published, Step
    <2>2. Finished' /\ Stages'
      BY <2>1 DEF Inv, Finished, Stages
    <2> QED
      BY <1>0, <2>1, <2>2, MainQuiet DEF Inv, TypeInv, Exclusion, Writes
  <1>11. CASE FinishAborts
    <2>1. /\ UNCHANGED <<call, enc, dec, phase, drain, dropped, recorded, frames, radarDir,
                         published>>
          /\ pc = "finish" /\ pc' = "abort" /\ err' = TRUE
          /\ mirror' = [mirror EXCEPT !.state = IF @ = "sealed" THEN @ ELSE "aborted"]
      BY <1>11 DEF FinishAborts, AbortStream, MirrorAbort
    <2>2. /\ mirror' \in [state : {"on", "failed", "aborted", "sealed"}, delivered : Nat]
          /\ mirror'.state \in {"aborted", "sealed"}
          /\ mirror'.state = "sealed" => mirror.state = "sealed"
          /\ mirror'.delivered = mirror.delivered
      BY <2>1 DEF Inv, TypeInv
    <2>3. Finished' /\ Stages' /\ ~ published
      BY <2>1, <2>2 DEF Inv, Finished, Stages
    <2> QED
      BY <1>0, <2>1, <2>2, <2>3, MainQuiet DEF Inv, TypeInv, Exclusion, Writes
  <1> QED
    BY <1>1, <1>2, <1>3, <1>4, <1>5, <1>6, <1>7, <1>8, <1>9, <1>10, <1>11 DEF MainStep

\* The deadlines, the user, the reader and the radar.
LEMMA RestInv ==
  ASSUME Inv,
         \/ TerminalDeadline \/ Interrupted \/ ReaderStops \/ RadarFrame \/ RadarDelivers
         \/ MirrorFails \/ UNCHANGED vars
  PROVE  Inv'
  <1> USE DEF partVars, mainVars, radarVars, outVars, restVars
  <1>1. CASE TerminalDeadline \/ Interrupted \/ ReaderStops \/ UNCHANGED vars
    <2>1. UNCHANGED <<call, enc, dec, phase, drain, dropped, recorded, pc, err, frames, mirror,
                      radarDir, published>>
      BY <1>1 DEF TerminalDeadline, Interrupted, Participates, Cancels, ReaderStops, vars
    <2>2. Finished' /\ Stages'
      BY <2>1 DEF Inv, Finished, Stages
    <2> QED
      BY <2>1, <2>2, MainQuiet DEF Inv, TypeInv, Exclusion
  <1>2. CASE RadarFrame
    <2>1. /\ UNCHANGED <<call, enc, dec, phase, drain, dropped, recorded, pc, err, mirror,
                         radarDir, published>>
          /\ frames' = frames + 1 /\ pc \in {"radio", "observe", "capture"}
      BY <1>2 DEF RadarFrame
    <2>2. Finished' /\ Stages'
      BY <2>1 DEF Inv, Finished, Stages
    <2> QED
      BY <2>1, <2>2, MainQuiet DEF Inv, TypeInv, Exclusion
  <1>3. CASE MirrorFails \/ (mirror.state = "on" /\ RadarOutcome(FALSE)
                             /\ UNCHANGED <<outVars, restVars>>)
    <2>1. /\ UNCHANGED <<call, enc, dec, phase, drain, dropped, recorded, pc, err, frames,
                         radarDir, published>>
          /\ mirror.state = "on" /\ mirror' = [mirror EXCEPT !.state = "failed"]
      BY <1>3 DEF MirrorFails, RadarOutcome
    <2>2. /\ mirror' \in [state : {"on", "failed", "aborted", "sealed"}, delivered : Nat]
          /\ mirror'.state = "failed" /\ mirror'.delivered = mirror.delivered
      BY <2>1 DEF Inv, TypeInv
    <2>3. Finished' /\ Stages'
      BY <2>1, <2>2 DEF Inv, Finished, Stages
    <2> QED
      BY <2>1, <2>2, <2>3, MainQuiet DEF Inv, TypeInv
  <1>4. CASE mirror.state = "on" /\ Enter(Radar)
    BY <1>4, EnterInv, Names
  <1> QED
    BY <1>1, <1>2, <1>3, <1>4 DEF RadarDelivers

-----------------------------------------------------------------------------
(* Theorems.                                                               *)

LEMMA InitInv == Init => Inv
  <1> SUFFICES ASSUME Init PROVE Inv
    OBVIOUS
  <1>1. TypeInv
    <2>1. NewProgress \in Progress
      BY DEF NewProgress, Progress
    <2>2. [state |-> "on", delivered |-> 0]
            \in [state : {"on", "failed", "aborted", "sealed"}, delivered : Nat]
      OBVIOUS
    <2>3. /\ pc \in Writes /\ frames \in Nat
          /\ call \in [Threads -> {"idle", "lock", "emit"}]
          /\ drain \in [Sources -> {"none", "on", "over", "lost"}]
          /\ dropped \in [Sources -> BOOLEAN]
          /\ recorded \in [Sources -> Nat]
      BY DEF Init, PartInit, Writes
    <2> QED
      BY <2>1, <2>2, <2>3 DEF Init, TypeInv
  <1>2. Exclusion /\ Emitting
    BY Names DEF Init, PartInit, Exclusion, Emitting
  <1>3. Agreement /\ Endings /\ Finished
    BY Names DEF Init, PartInit, NewProgress, Agreement, Endings, Finished
  <1>4. Counted
    BY Names DEF Init, PartInit, NewProgress, Counted
  <1>5. Stages /\ TerminalIsTruthful
    BY DEF Init, PartInit, NewProgress, Stages, TerminalIsTruthful
  <1> QED
    BY <1>1, <1>2, <1>3, <1>4, <1>5 DEF Inv

LEMMA NextInv == Inv /\ [Next]_vars => Inv'
  <1> SUFFICES ASSUME Inv, [Next]_vars PROVE Inv'
    OBVIOUS
  <1>1. CASE MainStep
    BY <1>1, MainInv
  <1>2. CASE \E c \in Threads : StreamStep(c)
    BY <1>2, StreamInv
  <1>3. CASE \E s \in Sources : SourceStep(s)
    BY <1>3, SourceInv
  <1>4. CASE \/ TerminalDeadline \/ Interrupted \/ ReaderStops \/ RadarFrame
             \/ RadarDelivers \/ MirrorFails \/ UNCHANGED vars
    BY <1>4, RestInv
  <1> QED
    BY <1>1, <1>2, <1>3, <1>4 DEF Next

LEMMA Invariance == Spec => []Inv
  BY InitInv, NextInv, PTL DEF Spec

\* The decoder accepts every record the program manages to write, whichever
\* thread gets the mutex, fails or is cancelled (operation, Encoder, Decoder).
THEOREM ReaderAccepts == Spec => []ReaderNeverRejects
  <1>1. Inv => ReaderNeverRejects
    BY DEF Inv, Agreement, ReaderNeverRejects
  <1> QED
    BY <1>1, Invariance, PTL

\* COMMIT on the stream is a published capture whose payload files hold what
\* the reader was given, ABORT one that was not published (finish, abortStream).
THEOREM TerminalTruthful == Spec => []TerminalIsTruthful
  <1>1. Inv => TerminalIsTruthful
    BY DEF Inv
  <1> QED
    BY <1>1, Invariance, PTL
=============================================================================
