---------------------------- MODULE VideoHandler ----------------------------
(***************************************************************************)
(* VideoHandler (handlers/video.py): a video read into one timeline of     *)
(* what was seen and what was said, and beside it the affordances that     *)
(* look at one frame or watch one stretch.                                 *)
(*                                                                         *)
(* A read finds the file, probes it, gets its words from the captions or   *)
(* from a transcriber, fetches the sampled moments concurrently - each a   *)
(* frame decoded with a slot of FFMPEG and described with one of VISION -  *)
(* looks for scene cuts, and puts the timeline together.  Its caller sees  *)
(* events go by, and may cancel it.                                        *)
(*                                                                         *)
(* A port (ffprobe, ffmpeg, a model) is an action for each way it answers. *)
(***************************************************************************)
EXTENDS Rendered

CONSTANTS
  Handlers,       (* ports wired: [vision, captions, transcriber, audio,   *)
                  (*   watcher : BOOLEAN]                                  *)
  Videos,         (* what a probe tells: [duration, moving, subtitles]     *)
  CueLists,       (* what captions or a transcriber give: [start, end]s    *)
  CutSets,        (* what scene detection gives                            *)
  Budgets,
  Interval,       (* sample_interval_s                                     *)
  FrameDuration,  (* of one frame: the least width of a span               *)
  ChunkLength,    (* ChunkLength[says]: the characters of an entry         *)
  MaxEntries,     (* the most entries of a timeline                        *)
  FfmpegSlots, VisionSlots,
  Raised,         (* the result of a read that raises                       *)
  None

ASSUME VideoAssumption ==
  /\ Interval \in Nat \ {0} /\ FrameDuration \in Nat \ {0}
  /\ FfmpegSlots \in Nat \ {0} /\ VisionSlots \in Nat \ {0}
  /\ \A v \in Videos : v.duration \in Nat
  /\ CueLists \subseteq Seq([start : Nat, end : Nat])
  /\ \A l \in CueLists : \A i \in DOMAIN l : l[i].start < l[i].end
  /\ ChunkLength \in [{"described", "undescribed", "missing", "failed", "captioned", "said",
                       "summary"} -> Nat \ {0}]
  /\ Budgets \subseteq Nat \cup {Unlimited}
  /\ None \notin [of : Nat, free : Nat]

(* A frame is wider than the epsilons its video has entries for.           *)
ASSUME EntriesFit ==
  \A v \in Videos : \A l \in CueLists \cup {<<>>} :
    Len(SampleTimes(v.duration, Interval)) + Len(l) <= FrameDuration

VARIABLES
  handler,          (* the ports of this handler                           *)
  ffmpeg, vision,   (* the semaphores of the two capabilities              *)
  pc, budget,       (* the read: where it is, and for what budget          *)
  facts, cues,      (* what it has learned of the file and of its words    *)
  entries, bounds,  (* the two merged, and the span of each entry          *)
  reports,          (* the degradations on the way to the words            *)
  moment,           (* moment[i]: what became of the i-th entry, sampled   *)
  cancelled,        (* the caller cancelled the read                       *)
  events,           (* what its observer was told                          *)
  result,           (* the Rendered, Raised, or None                       *)
  failures,         (* what went wrong for the read (history)              *)
  asking            (* the affordance under way                            *)

Loop == "loop"
Ffmpeg == INSTANCE SemaphoreLimiter
  WITH Loops <- {Loop}, Slots <- FfmpegSlots, MaxLoops <- 0,
       running <- [l \in {Loop} |-> 0], semaphores <- ffmpeg
Vision == INSTANCE SemaphoreLimiter
  WITH Loops <- {Loop}, Slots <- VisionSlots, MaxLoops <- 0,
       running <- [l \in {Loop} |-> 0], semaphores <- vision

limiter == <<ffmpeg, vision>>
words == <<facts, cues, entries, bounds, reports, failures>>
laidOut == <<cues, entries, bounds>>
read == <<pc, budget, words, moment, cancelled, events, result>>
vars == <<handler, limiter, read, asking>>

Started == [kind |-> "started", done |-> 0, total |-> 0]
Finished == [kind |-> "finished", done |-> 0, total |-> 0]
Progressed(done, total) == [kind |-> "progressed", done |-> done, total |-> total]

Report(what) == [what |-> what, of |-> {}]
WholeFile == [start |-> 0, end |-> 0]

Outcomes == {"described", "undescribed", "missing", "failed"}

Init ==
  /\ handler \in Handlers
  /\ Ffmpeg!Init /\ Vision!Init
  /\ pc = "idle" /\ budget = Unlimited
  /\ facts = None /\ cues = <<>> /\ reports = <<>>
  /\ entries = <<>> /\ bounds = <<>>
  /\ moment = <<>> /\ cancelled = FALSE
  /\ events = <<>> /\ result = None
  /\ failures = {}
  /\ asking = "idle"

Represent(b) ==
  /\ pc = "idle"
  /\ pc' = "locating" /\ budget' = b
  /\ facts' = None /\ cues' = <<>> /\ reports' = <<>>
  /\ entries' = <<>> /\ bounds' = <<>>
  /\ moment' = <<>> /\ cancelled' = FALSE
  /\ events' = <<Started>> /\ result' = None
  /\ failures' = {}
  /\ UNCHANGED <<handler, limiter, asking>>

(* The read returns or raises; its finally tells the observer.             *)
Over(r) ==
  /\ pc' = "idle"
  /\ result' = r
  /\ events' = Append(events, Finished)

GoOn(to) ==
  /\ pc' = to
  /\ UNCHANGED <<result, events>>

----------------------------------------------------------------------------
(* The file                                                                *)

(* A summary, of the bytes of the file: no timeline was observed.          *)
NothingToRead(what) ==
  LET text == [k \in 1 .. ChunkLength["summary"] |-> [at |-> 0, cue |-> 0, says |-> "summary"]]
  IN  Fit(text, <<[start |-> 0, end |-> Len(text), locator |-> WholeFile]>>, <<>>,
          budget, <<Report(what)>>)

Locate ==
  /\ pc = "locating"
  /\ GoOn("probing")
  /\ UNCHANGED <<handler, limiter, budget, words, moment, cancelled, asking>>

Unreadable ==
  /\ pc \in {"locating", "probing"}
  /\ Over(NothingToRead("video unprobeable"))
  /\ failures' = {"video unprobeable"}
  /\ UNCHANGED <<handler, limiter, budget, facts, laidOut, reports, moment,
                 cancelled, asking>>

HasTimeline(video) == video.duration > 0 /\ video.moving

(* The words are there: the timeline is laid out, and its moments fetched. *)
Fetch(video, said) ==
  /\ GoOn("fetching")
  /\ cues' = said
  /\ entries' = Merge(SampleTimes(video.duration, Interval), said)
  /\ bounds' = Tile([i \in DOMAIN entries' |-> entries'[i].at], video.duration, FrameDuration)
  /\ moment' = [i \in {j \in DOMAIN entries' : entries'[j].cue = 0} |-> "decode"]

(* _transcribed_cues, to its first await: the transcriber hears the audio  *)
(* track of the video.  failed is what went wrong before.                  *)
Listen(video, told, failed) ==
  \/ /\ handler.transcriber /\ handler.audio
     /\ GoOn("extracting")
     /\ reports' = told
     /\ failures' = failed
     /\ UNCHANGED <<laidOut, moment>>
  \/ /\ handler.transcriber /\ ~handler.audio
     /\ Fetch(video, <<>>)
     /\ reports' = Append(told, Report("audio track unavailable"))
     /\ failures' = failed \cup {"audio track unavailable"}
  \/ /\ ~handler.transcriber
     /\ Fetch(video, <<>>)
     /\ reports' = told
     /\ failures' = failed

ProbeTimeline(video) ==
  /\ pc = "probing" /\ HasTimeline(video)
  /\ facts' = video
  /\ \/ /\ video.subtitles /\ handler.captions
        /\ GoOn("captioning")
        /\ UNCHANGED <<laidOut, reports, failures, moment>>
     \/ /\ video.subtitles /\ ~handler.captions
        /\ Listen(video, <<Report("captions not read")>>, {"captions not read"})
     \/ /\ ~video.subtitles
        /\ Listen(video, <<>>, {})
  /\ UNCHANGED <<handler, limiter, budget, cancelled, asking>>

ProbeNoTimeline(video) ==
  /\ pc = "probing" /\ ~HasTimeline(video)
  /\ facts' = video
  /\ Over(NothingToRead("no timeline"))
  /\ failures' = {"no timeline"}
  /\ UNCHANGED <<handler, limiter, budget, laidOut, reports, moment, cancelled, asking>>

----------------------------------------------------------------------------
(* The words                                                               *)

(* Cues of a source that begin when the file is over.                      *)
Outside(source) ==
  IF source = "captioned" THEN "caption cues outside the file"
  ELSE "spoken cues outside the file"

Lost(given, source) ==
  IF Dropped(given, facts.duration) > 0 THEN {Outside(source)} ELSE {}

DroppedReport(given, source) ==
  IF Dropped(given, facts.duration) > 0 THEN <<Report(Outside(source))>> ELSE <<>>

Heard(given, source) ==
  LET kept == Clamped(given, facts.duration)
  IN  [i \in DOMAIN kept |-> [start |-> kept[i].start, end |-> kept[i].end, source |-> source]]

Fail(what) == failures' = failures \cup {what}

(* The track gave nothing, or nothing that lies in the file, which is the  *)
(* case the transcriber is there for.                                      *)
NoCaptions(given) == IF given = <<>> THEN "no captions" ELSE "captions outside the file"

(* The track gave cues, and some of them lie in the file, or none.         *)
Captions(given) ==
  LET said == Heard(given, "captioned")
  IN  /\ pc = "captioning"
      /\ \/ /\ said # <<>>
            /\ Fetch(facts, said)
            /\ reports' = DroppedReport(given, "captioned")
            /\ failures' = failures \cup Lost(given, "captioned")
         \/ /\ said = <<>>
            /\ Listen(facts, <<>>, failures \cup {NoCaptions(given)})
      /\ UNCHANGED <<handler, limiter, budget, facts, cancelled, asking>>

(* Mutant of CaptionsFail: what the fallback has to tell replaces it.      *)
CaptionsFailUntold ==
  /\ pc = "captioning"
  /\ Listen(facts, <<>>, failures \cup {"caption extraction failed"})
  /\ UNCHANGED <<handler, limiter, budget, facts, cancelled, asking>>

CaptionsFail ==
  /\ pc = "captioning"
  /\ Listen(facts, <<Report("caption extraction failed")>>,
            failures \cup {"caption extraction failed"})
  /\ UNCHANGED <<handler, limiter, budget, facts, cancelled, asking>>

ExtractAudio ==
  /\ pc = "extracting"
  /\ GoOn("transcribing")
  /\ UNCHANGED <<handler, limiter, budget, words, moment, cancelled, asking>>

(* No audio track, or a transcriber that raises.                           *)
NoSpeech(at, what) ==
  /\ pc = at
  /\ Fetch(facts, <<>>)
  /\ reports' = Append(reports, Report(what))
  /\ Fail(what)
  /\ UNCHANGED <<handler, limiter, budget, facts, cancelled, asking>>

Transcribe(given) ==
  LET said == Heard(given, "said")
      silent == IF said = <<>> THEN {"no speech detected"} ELSE {}
  IN  /\ pc = "transcribing"
      /\ Fetch(facts, said)
      /\ reports' = reports \o DroppedReport(given, "said")
                      \o (IF silent = {} THEN <<>> ELSE <<Report("no speech detected")>>)
      /\ failures' = failures \cup Lost(given, "said") \cup silent
      /\ UNCHANGED <<handler, limiter, budget, facts, cancelled, asking>>

----------------------------------------------------------------------------
(* The moments, each a task of its own                                     *)

Done(at) == Cardinality({i \in DOMAIN at : at[i] \in Outcomes})

(* Mutant of Advance: a moment tells its place in the timeline.            *)
AdvanceByPlace(i, from, to) ==
  /\ pc = "fetching" /\ ~cancelled
  /\ i \in DOMAIN moment /\ moment[i] = from
  /\ moment' = [moment EXCEPT ![i] = to]
  /\ events' = IF to \in Outcomes
               THEN Append(events, Progressed(Cardinality({j \in DOMAIN moment : j <= i}),
                                              Cardinality(DOMAIN moment)))
               ELSE events
  /\ UNCHANGED <<handler, pc, budget, words, cancelled, result, asking>>

(* A moment goes on; at its outcome it counts itself and tells how many of *)
(* all there are have one.                                                 *)
Advance(i, from, to) ==
  /\ pc = "fetching" /\ ~cancelled
  /\ i \in DOMAIN moment /\ moment[i] = from
  /\ moment' = [moment EXCEPT ![i] = to]
  /\ events' = IF to \in Outcomes
               THEN Append(events, Progressed(Done(moment'), Cardinality(DOMAIN moment)))
               ELSE events
  /\ UNCHANGED <<handler, pc, budget, words, cancelled, result, asking>>

AcquireFfmpeg(i) ==
  /\ Advance(i, "decode", "decoding")
  /\ Ffmpeg!Acquire(Loop)
  /\ UNCHANGED vision

Decoded(i) ==
  /\ Advance(i, "decoding", IF handler.vision THEN "describe" ELSE "undescribed")
  /\ Ffmpeg!Release(Loop)
  /\ UNCHANGED vision

(* Mutant of NoFrame: the slot is given back with the frame.               *)
NoFrameKeepsSlot(i) ==
  /\ Advance(i, "decoding", "missing")
  /\ UNCHANGED limiter

NoFrame(i) ==
  /\ Advance(i, "decoding", "missing")
  /\ Ffmpeg!Release(Loop)
  /\ UNCHANGED vision

AcquireVision(i) ==
  /\ Advance(i, "describe", "describing")
  /\ Vision!Acquire(Loop)
  /\ UNCHANGED ffmpeg

(* The model describes the frame, or raises or answers with nothing.       *)
Described(i) ==
  /\ \E outcome \in {"described", "failed"} : Advance(i, "describing", outcome)
  /\ Vision!Release(Loop)
  /\ UNCHANGED ffmpeg

(* Mutant of Released: the slots are given back only by a call that        *)
(* returns.                                                                *)
ReleasedOnReturn(i) == UNCHANGED limiter

(* A CancelledError leaves each `async with` it passes.                    *)
Released(i) ==
  /\ IF moment[i] = "decoding" THEN Ffmpeg!Release(Loop) ELSE UNCHANGED ffmpeg
  /\ IF moment[i] = "describing" THEN Vision!Release(Loop) ELSE UNCHANGED vision

(* ... and is not an Exception: the moment is not counted, nor told of.    *)
Stop(i) ==
  /\ moment[i] \notin Outcomes \cup {"stopped"}
  /\ moment' = [moment EXCEPT ![i] = "stopped"]
  /\ Released(i)
  /\ UNCHANGED <<handler, pc, budget, words, cancelled, events, result, asking>>

(* gather cancels its children and waits for them.                         *)
StopCancelled(i) == pc = "fetching" /\ cancelled /\ i \in DOMAIN moment /\ Stop(i)

(* A port raises CancelledError of its own.                                *)
StopItself(i) ==
  /\ pc = "fetching" /\ ~cancelled
  /\ i \in DOMAIN moment /\ moment[i] \in {"decoding", "describing"}
  /\ Stop(i)

Ended == \A i \in DOMAIN moment : moment[i] \in Outcomes \cup {"stopped"}

(* Mutant of Gather: whatever a child raised is a moment that failed.      *)
GatherAll ==
  /\ pc = "fetching" /\ Ended
  /\ IF cancelled THEN Over(Raised) ELSE GoOn("cutting")
  /\ moment' = [i \in DOMAIN moment |-> IF moment[i] = "stopped" THEN "failed" ELSE moment[i]]
  /\ UNCHANGED <<handler, limiter, budget, words, cancelled, asking>>

(* The moments are all there, or one of them was stopped, and so is the    *)
(* read.                                                                   *)
Gather ==
  /\ pc = "fetching" /\ Ended
  /\ IF cancelled \/ \E i \in DOMAIN moment : moment[i] = "stopped"
     THEN Over(Raised) ELSE GoOn("cutting")
  /\ UNCHANGED <<handler, limiter, budget, words, moment, cancelled, asking>>

Cancel ==
  /\ pc # "idle" /\ ~cancelled
  /\ cancelled' = TRUE
  /\ IF pc = "fetching" THEN GoOn("fetching") ELSE Over(Raised)
  /\ UNCHANGED <<handler, limiter, budget, words, moment, asking>>

----------------------------------------------------------------------------
(* The timeline                                                            *)

Says(i) == IF entries[i].cue = 0 THEN moment[i] ELSE cues[entries[i].cue].source

(* Where the characters of each entry begin, and where the last end.       *)
Offsets ==
  LET offset[i \in 1 .. Len(entries) + 1] ==
        IF i = 1 THEN 0 ELSE offset[i - 1] + ChunkLength[Says(i - 1)]
  IN  offset

Text ==
  FlattenSeq([i \in DOMAIN entries |->
    [k \in 1 .. ChunkLength[Says(i)] |->
      [at |-> entries[i].at, cue |-> entries[i].cue, says |-> Says(i)]]])

Segments ==
  [i \in DOMAIN entries |->
    [start |-> Offsets[i], end |-> Offsets[i + 1], locator |-> bounds[i]]]

(* The starts of the moments something happened to.                        *)
StartsOf(says) == {bounds[i].start : i \in {j \in DOMAIN moment : moment[j] = says}}

ReportIf(what, starts) ==
  IF starts = {} THEN <<>> ELSE <<[what |-> what, of |-> starts]>>

TimelineReports ==
  (IF handler.vision THEN <<>> ELSE <<Report("vision unavailable")>>)
    \o ReportIf("frames undecodable", StartsOf("missing"))
    \o ReportIf("frame descriptions failed", StartsOf("failed"))

(* A break before every entry but the first.                               *)
EntryBarriers == [i \in 1 .. Len(entries) - 1 |-> Offsets[i + 1]]

(* A break before every entry that a cut falls in, if there are any.       *)
Barriers(cuts) ==
  LET cutInto == {Bucket(cut, bounds) : cut \in cuts} \ {1}
  IN  IF cutInto = {} THEN EntryBarriers
      ELSE InOrder({Offsets[i] : i \in cutInto}, <)

Assembled(barriers, told) ==
  Fit(Text, Segments, barriers, budget, TimelineReports \o reports \o told)

Detect(cuts) ==
  /\ pc = "cutting"
  /\ Over(Assembled(Barriers(cuts), <<>>))
  /\ UNCHANGED <<handler, limiter, budget, words, moment, cancelled, asking>>

DetectFails ==
  /\ pc = "cutting"
  /\ Over(Assembled(EntryBarriers, <<Report("scene detection failed")>>))
  /\ Fail("scene detection failed")
  /\ UNCHANGED <<handler, limiter, budget, facts, laidOut, reports, moment,
                 cancelled, asking>>

----------------------------------------------------------------------------
(* The affordances                                                         *)

Asking(from, to) ==
  /\ asking = from
  /\ asking' = to
  /\ UNCHANGED <<handler, read>>

(* frame_at, describe_frame and ask_about_image decode without a slot.     *)
AskFrame == Asking("idle", "decoding") /\ UNCHANGED limiter

(* The frame is all that was wanted, or there is none, or the call is      *)
(* cancelled.                                                              *)
AnswerFrame == Asking("decoding", "idle") /\ UNCHANGED limiter

AskAbout == handler.vision /\ Asking("decoding", "wanting") /\ UNCHANGED limiter

(* watch_segment takes its slot before ffmpeg cuts the clip.               *)
AskWatch == handler.watcher /\ Asking("idle", "wanting") /\ UNCHANGED limiter

AcquireForAffordance ==
  /\ Asking("wanting", "at the model")
  /\ Vision!Acquire(Loop)
  /\ UNCHANGED ffmpeg

(* An answer, a failure, or a cancellation.                                *)
Answer ==
  /\ Asking("at the model", "idle")
  /\ Vision!Release(Loop)
  /\ UNCHANGED ffmpeg

GiveUpWaiting == Asking("wanting", "idle") /\ UNCHANGED limiter

----------------------------------------------------------------------------

Port ==
  \/ Locate \/ Unreadable
  \/ \E v \in Videos : ProbeTimeline(v) \/ ProbeNoTimeline(v)
  \/ \E l \in CueLists : Captions(l) \/ Transcribe(l)
  \/ CaptionsFail
  \/ ExtractAudio
  \/ NoSpeech("extracting", "audio track unavailable")
  \/ NoSpeech("transcribing", "transcription failed")
  \/ Gather
  \/ \E cuts \in CutSets : Detect(cuts)
  \/ DetectFails

Acquire(i) == AcquireFfmpeg(i) \/ AcquireVision(i)

Moment(i) == Decoded(i) \/ NoFrame(i) \/ Described(i) \/ StopCancelled(i)

Affordance ==
  AskFrame \/ AnswerFrame \/ AskAbout \/ AskWatch \/ GiveUpWaiting

Next ==
  \/ \E b \in Budgets : Represent(b)
  \/ Port
  \/ \E i \in DOMAIN moment : Acquire(i) \/ Moment(i) \/ StopItself(i)
  \/ Cancel
  \/ Affordance \/ AcquireForAffordance \/ Answer

Spec == Init /\ [][Next]_vars

(* Every port answers: ffmpeg and ffprobe have deadlines, the models their *)
(* clients'.  A semaphore is fair to those who wait for it.  Nobody need   *)
(* cancel anything.                                                        *)
FairSpec ==
  /\ Spec
  /\ WF_vars(Port)
  /\ \A i \in 1 .. MaxEntries : SF_vars(Acquire(i)) /\ WF_vars(Moment(i))
  /\ WF_vars(Answer)

----------------------------------------------------------------------------
(* Properties                                                              *)

(* Between them, the moments and the affordance that are at it and the     *)
(* free slots make up the limit of each capability: a read decodes no more *)
(* frames at once, and no more are described or watched, and no end of a   *)
(* moment, failed or cancelled, takes a slot with it.  Affordances decode  *)
(* without a slot (video.py:615, 633, 677), and are not counted there.     *)
SlotsCounted ==
  /\ Ffmpeg!Semaphore(Loop).free
       + Cardinality({i \in DOMAIN moment : moment[i] = "decoding"}) = FfmpegSlots
  /\ Vision!Semaphore(Loop).free
       + Cardinality({i \in DOMAIN moment : moment[i] = "describing"})
       + (IF asking = "at the model" THEN 1 ELSE 0) = VisionSlots

(* The observer is told of the start, of 1, 2, 3 ... moments in whatever   *)
(* order they came to an end, and of the finish, once, when no moment is   *)
(* under way any more: "progress that went 3, 7, 4 would tell a caller     *)
(* nothing" (video.py:1160-1162).                                          *)
NarratedInOrder ==
  LET n == Len(events)
  IN  /\ n > 0 => events[1] = Started
      /\ \A k \in 2 .. n :
           \/ events[k] = Progressed(k - 1, Cardinality(DOMAIN moment))
           \/ k = n /\ events[k] = Finished
      /\ n > 0 /\ events[n] = Finished => pc = "idle" /\ Ended
      /\ n > 0 /\ pc = "idle" => events[n] = Finished

Rendering == pc = "idle" /\ result \notin {None, Raised}
HasRead == Rendering /\ facts # None /\ HasTimeline(facts)

(* Where an entry belongs on a timeline on which every span has its width: *)
(* as late as those before it push it.                                     *)
Place(i) == LET pushed == {entries[j].at + (i - j) * FrameDuration : j \in 1 .. i}
            IN  CHOOSE p \in pushed : \A q \in pushed : q <= p

(* What a read renders is sound - the map is total and gapless over the    *)
(* kept text, the spans over the file and at most one frame longer - and a *)
(* character leads to the time its entry is of, or as soon after as those  *)
(* before it leave room, and never beyond the end while there is some; a   *)
(* barrier stands where an entry begins.                                   *)
TimelineLocated ==
  HasRead =>
    LET spans == [k \in DOMAIN result.segments |-> result.segments[k].locator]
        places == [k \in DOMAIN spans |-> Place(k)]
    IN  /\ IsRendered(result)
        /\ spans[1].start = 0
        /\ \A k \in DOMAIN spans :
             /\ spans[k].start < spans[k].end
             /\ spans[k].end <= facts.duration + FrameDuration
             /\ k < Len(spans) => spans[k].end = spans[k + 1].start
             /\ spans[k].start =
                  IF places[k] < facts.duration THEN places[k]
                  ELSE facts.duration
                         + Epsilon * Cardinality({j \in 1 .. k - 1 : places[j] >= facts.duration})
        /\ Len(result.text) = Offsets[Len(entries) + 1] =>
             spans[Len(spans)].end >= facts.duration
        /\ \A o \in DOMAIN result.text :
             LET entry == entries[SegmentAt(result.segments, o - 1)]
             IN  entry.at = result.text[o].at /\ entry.cue = result.text[o].cue
        /\ Range(result.barriers)
             \subseteq {result.segments[k].start : k \in 2 .. Len(spans)}

Told == {result.degradations[k].what : k \in DOMAIN result.degradations}

(* What the code says nothing of, against "Every other outcome degrades    *)
(* and reports" (video.py:960): a caption track that was given to be read  *)
(* and came to nothing, and one whose cues were all dropped                *)
(* (video.py:1018-1024, timeline.py:113-115).                              *)
Untold == {"no captions", "captions outside the file"}

(* What else went wrong on whichever way to the words, cues that were      *)
(* dropped and ports that are missing among it, and whatever else failed a *)
(* read, is named by what it rendered; and the moments it names as lost    *)
(* are those that were, also where the budget has cut them off.            *)
FailuresTold ==
  Rendering =>
    /\ failures \ Untold \subseteq Told
    /\ "scene detection failed" \in Told => "scene detection failed" \in failures
    /\ \A k \in DOMAIN result.degradations :
         LET d == result.degradations[k]
         IN  /\ d.what = "frames undecodable" => d.of = StartsOf("missing")
             /\ d.what = "frame descriptions failed" => d.of = StartsOf("failed")
    /\ "missing" \in Range(moment) => "frames undecodable" \in Told
    /\ "failed" \in Range(moment) => "frame descriptions failed" \in Told

Stopping ==
  pc # "idle" /\ (cancelled \/ \E i \in DOMAIN moment : moment[i] = "stopped")

(* A read that was cancelled, or whose moment was, raises: it makes no     *)
(* claim about the file, whatever else it had learned of it.               *)
StopsAreStops ==
  [][/\ Stopping => Stopping' \/ result' = Raised
     /\ cancelled' /\ pc' = "idle" => result' = Raised]_vars

(* Every read comes to an end.                                             *)
ReadsEnd == pc # "idle" ~> pc = "idle"

=============================================================================
