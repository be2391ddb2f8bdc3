------------------------------ MODULE AudioHandler ------------------------------
(***************************************************************************)
(* Sound (handlers/audio.py).  A file is [size, reachable, probed,         *)
(* duration, streams, track, cues]: whether it can be had on disk and      *)
(* probed, its length in ticks and how many streams of sound it has,       *)
(* whether a track can be extracted, and the words that are spoken in it,  *)
(* cues [start, end, text].  A cue may start after the end that the probe  *)
(* gives.                                                                  *)
(*                                                                         *)
(* has: a subset of {"transcriber"}; said: "words" (the cues), "blank" (no *)
(* cue) or "fails".                                                        *)
(***************************************************************************)
EXTENDS HandlerAnswers

CONSTANT MinCueSpan  (* the ticks every cue is given                       *)

CueBounds(cues, duration) ==
  Tile([i \in DOMAIN cues |-> cues[i].start], duration, MinCueSpan)

Affordances(has) == When("transcriber" \in has, {"read_span"})

(* What an affordance needs the deployment to be capable of.               *)
Requires(name) == When(name = "read_span", {"ffmpeg", "asr"})

Degraded(file) == Excused(WholeFile(file.size))

(* Either cues or a failure, which is the only difference from silence.    *)
Cues(file, said) ==
  [failed |-> ~file.track \/ said = "fails",
   cues |-> IF said = "words" THEN file.cues ELSE <<>>]

(* Mutant of ReadSpan: a window that ends before it starts is not refused. *)
ReadSpanBackwards(file, ask, said) ==
  LET window == SelectSeq(Cues(file, said).cues, LAMBDA cue :
                  cue.start < ask.end /\ ask.start < cue.end /\ ~IsBlank(cue.text))
      lines == [i \in DOMAIN window |-> <<Written>> \o window[i].text]
  IN  IF ~file.reachable THEN Degraded(file)
      ELSE IF Cues(file, said).failed \/ window = <<>> THEN Degraded(file)
      ELSE Located(TimeSpan(ask.start, ask.end), Joined(lines))

(* The place of the answer is the window that was asked for.               *)
ReadSpan(file, ask, said) ==
  LET window == SelectSeq(Cues(file, said).cues, LAMBDA cue :
                  cue.start < ask.end /\ ask.start < cue.end /\ ~IsBlank(cue.text))
      lines == [i \in DOMAIN window |-> <<Written>> \o window[i].text]
  IN  IF ask.end <= ask.start \/ ~file.reachable THEN Degraded(file)
      ELSE IF Cues(file, said).failed \/ window = <<>> THEN Degraded(file)
      ELSE Located(TimeSpan(ask.start, ask.end), Joined(lines))

Invoke(file, ask, has, said) ==
  IF ask.name \in Affordances(has) THEN ReadSpan(file, ask, said)
  ELSE Raised("UnknownAffordance")

Facts(file) == file.reachable /\ file.probed

Describe(file, has) == Card(Facts(file), <<>>, Affordances(has))

(* One line for each cue, in the span of time that falls to it.            *)
Flatten(cues, duration) ==
  LET chunks == [i \in DOMAIN cues |-> <<Written>> \o cues[i].text \o <<Glue>>]
      bounds == CueBounds(cues, duration)
  IN  [text |-> Text(chunks),
       segments |-> Mapped(chunks, [i \in DOMAIN cues |->
                                     TimeSpan(bounds[i].start, bounds[i].end)])]

Fitted(text, segments, budget, degradations) ==
  Built(Fit(text, segments, <<>>, budget, degradations))

NothingToRead(place, budget, what) ==
  Fitted(Summary, Mapped(<<Summary>>, <<place>>), budget, <<Degradation(what)>>)

(* Silence, no transcriber, no track and a failure are told apart.         *)
Transcript(file, budget, has, said) ==
  LET kept == Clamped(Cues(file, said).cues, file.duration)
      dropped == Dropped(Cues(file, said).cues, file.duration)
      flat == Flatten(kept, file.duration)
      nothing(what) == NothingToRead(TimeSpan(0, file.duration), budget, what)
  IN  IF "transcriber" \notin has THEN nothing("transcription unavailable")
      ELSE IF ~file.track THEN nothing("audio track unavailable")
      ELSE IF said = "fails" THEN nothing("transcription failed")
      ELSE IF kept = <<>> /\ dropped > 0 THEN nothing("transcript outside the file")
      ELSE IF kept = <<>> THEN nothing("no speech detected")
      ELSE Fitted(flat.text, flat.segments, budget,
                  IF dropped = 0 THEN <<>>
                  ELSE <<[what |-> "cues outside the file", of |-> {dropped}]>>)

Represent(file, budget, has, said) ==
  IF ~Facts(file) THEN NothingToRead(WholeFile(file.size), budget, "audio unprobeable")
  ELSE IF file.duration <= 0 \/ file.streams = 0
  THEN NothingToRead(WholeFile(file.size), budget, "no audio timeline")
  ELSE Transcript(file, budget, has, said)

=============================================================================
