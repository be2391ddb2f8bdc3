-------------------------------- MODULE CachedWords --------------------------------
(* The words of a film: adapters/caching_words.py over the artifact store,  *)
(* the ffmpeg and ffprobe children that bring what is cached, and the order *)
(* in which handlers/video.py tries them: the caption track of the          *)
(* container, and else what a transcriber hears in its sound.  Calls run    *)
(* concurrently, may be cancelled at any await, and share the store with    *)
(* earlier processes; the film is edited, or taken away, at any moment.     *)
(* A child reads the film at one moment, may hang, and is killed and reaped *)
(* at its deadline.                                                         *)
EXTENDS Naturals, Sequences

CONSTANTS
  Calls,
  Films,        \* [exists, tracks, sound]; a track is "bitmap", "blank" or its words
  Heard,        \* what a transcriber hears in a sound: its words, or None
  Wirings,      \* subsets of {"captions", "cache", "audio", "transcriber"}
  OldKeys,      \* keys that an earlier version of the codec may have stored under
  MaxEdits, MaxFailures  \* bounds of a run

None == "none"

(* Tracks are numbered, the words of a track are never the absence of words,*)
(* and a film that is not there has neither tracks nor sound.               *)
ASSUME WordsAssumption ==
  /\ MaxEdits \in Nat /\ MaxFailures \in Nat
  /\ \A f \in Films :
       /\ DOMAIN f.tracks \subseteq Nat
       /\ \A i \in DOMAIN f.tracks : f.tracks[i] # None
       /\ ~f.exists => DOMAIN f.tracks = {} /\ f.sound = None

Unreadable == "unreadable"
NoKey == <<>>

VARIABLES
  wired,      \* what this deployment has
  film,       \* what the path holds
  stamp,      \* its size and mtime; no two editions share them
  store,      \* the artifact store, from keys to words
  call,       \* what each call is at, and knows
  child,      \* the child that each call started, until it is reaped
  failures    \* how much has failed

vars == <<wired, film, stamp, store, call, child, failures>>

NoChild == [state |-> "none", output |-> <<>>]

(* "calm" and "failed" are of the run, not of the code: whether the film is *)
(* still as the call found it, and whether anything failed in the call.     *)
Ready == [at |-> "ready", tool |-> "probe", track |-> 0, sound |-> None, key |-> NoKey,
          words |-> None, calm |-> TRUE, failed |-> FALSE]

Init ==
  /\ wired \in Wirings
  /\ film \in Films
  /\ stamp = 0
  /\ store \in {[key \in keys |-> Unreadable] : keys \in SUBSET OldKeys}
  /\ call = [c \in Calls |-> Ready]
  /\ child = [c \in Calls |-> NoChild]
  /\ failures = 0

Running(c) == call[c].at \notin {"ready", "answered", "cancelled"}

----------------------------------------------------------------------------
(* What follows on what, as the call that comes of it.                      *)
Answered(r, words) ==
  [Ready EXCEPT !.at = "answered", !.words = words, !.calm = r.calm, !.failed = r.failed]

TranscribedCues(r) ==
  IF {"audio", "transcriber"} \subseteq wired
  THEN [r EXCEPT !.at = "spawn", !.tool = "audio", !.track = 0, !.key = NoKey, !.words = None]
  ELSE Answered(r, None)

(* Captions that cannot be had are no answer; nothing is tried after speech.*)
WithoutCues(r) == IF r.tool = "captions" THEN TranscribedCues(r) ELSE Answered(r, None)

Cues(r, words) == IF words = None THEN WithoutCues(r) ELSE Answered(r, words)

IsText(track) == track # "bitmap"
TextTracks(tracks) == {i \in DOMAIN tracks : IsText(tracks[i])}
TextTrack(tracks) == CHOOSE i \in TextTracks(tracks) : \A j \in TextTracks(tracks) : i <= j

(* The stat comes at once after the probe, with no await between.  A film   *)
(* that has gone by then has no key, and is asked of ffmpeg all the same.   *)
CaptionKey(track) == <<"captions", stamp, track>>

CaptionedCues(r, tracks) ==
  LET track == TextTrack(tracks) IN
    IF "cache" \in wired /\ film.exists
    THEN [r EXCEPT !.at = "lookup", !.tool = "captions", !.track = track,
                   !.key = CaptionKey(track)]
    ELSE [r EXCEPT !.at = "spawn", !.tool = "captions", !.track = track, !.key = NoKey]

CuesOf(r, tracks) ==
  IF TextTracks(tracks) # {} /\ "captions" \in wired
  THEN CaptionedCues(r, tracks)
  ELSE TranscribedCues(r)

Transcribe(r, sound) ==
  IF "cache" \in wired
  THEN [r EXCEPT !.at = "lookup", !.tool = "transcriber", !.sound = sound,
                 !.key = <<"asr", sound>>]
  ELSE [r EXCEPT !.at = "transcribe", !.tool = "transcriber", !.sound = sound, !.key = NoKey]

(* What was produced is kept, unless it is nothing.                         *)
ProducedAny(r, words) ==
  IF r.key # NoKey THEN [r EXCEPT !.at = "keep", !.words = words] ELSE Cues(r, words)

Produced(r, words) ==
  IF r.key # NoKey /\ words # None
  THEN [r EXCEPT !.at = "keep", !.words = words]
  ELSE Cues(r, words)

----------------------------------------------------------------------------
Fail(c, r) ==
  /\ failures < MaxFailures
  /\ failures' = failures + 1
  /\ call' = [call EXCEPT ![c] = [r EXCEPT !.failed = TRUE]]

(* A child that a cancelled call left is followed no further.               *)
ReadTranscript(c) ==
  /\ ~Running(c)
  /\ call' = [call EXCEPT ![c] = [Ready EXCEPT !.at = "spawn"]]
  /\ child' = [child EXCEPT ![c] = NoChild]
  /\ UNCHANGED <<wired, film, stamp, store, failures>>

Spawn(c) ==
  /\ call[c].at = "spawn"
  /\ call' = [call EXCEPT ![c].at = "wait"]
  /\ child' = [child EXCEPT ![c].state = "running"]
  /\ UNCHANGED <<wired, film, stamp, store, failures>>

SpawnFails(c) ==
  /\ call[c].at = "spawn"
  /\ Fail(c, WithoutCues(call[c]))
  /\ UNCHANGED <<wired, film, stamp, store, child>>

(* What a child makes of the film: a probe lists the tracks, ffmpeg writes  *)
(* the words of a track or the sound; each exits badly when it has nothing. *)
Output(r) ==
  CASE r.tool = "probe" -> film.tracks
    [] r.tool = "captions" -> film.tracks[r.track]
    [] r.tool = "audio" -> film.sound

HasOutput(r) ==
  /\ film.exists
  /\ r.tool = "captions" => /\ r.track \in TextTracks(film.tracks)
                            /\ film.tracks[r.track] # "blank"
  /\ r.tool = "audio" => film.sound # None

Exit(c) ==
  /\ call[c].at = "wait" /\ child[c].state = "running"
  /\ child' = [child EXCEPT ![c] = IF HasOutput(call[c])
                                   THEN [state |-> "exited", output |-> <<Output(call[c])>>]
                                   ELSE [state |-> "failed", output |-> <<>>]]
  /\ UNCHANGED <<wired, film, stamp, store, call, failures>>

ExitBadly(c) ==
  /\ call[c].at = "wait" /\ child[c].state = "running"
  /\ child' = [child EXCEPT ![c].state = "failed"]
  /\ Fail(c, call[c])
  /\ UNCHANGED <<wired, film, stamp, store>>

Hear(c) ==
  /\ call[c].at = "wait"
  /\ \/ /\ child[c].state = "failed"
        /\ call' = [call EXCEPT ![c] = WithoutCues(@)]
     \/ /\ child[c].state = "exited"
        /\ call' = [call EXCEPT ![c] =
                      LET output == Head(child[c].output) IN
                        CASE @.tool = "probe" -> CuesOf(@, output)
                          [] @.tool = "captions" -> Produced(@, output)
                          [] @.tool = "audio" -> Transcribe(@, output)]
  /\ child' = [child EXCEPT ![c] = NoChild]
  /\ UNCHANGED <<wired, film, stamp, store, failures>>

TimeOutOfWait(c) ==
  /\ call[c].at = "wait"
  /\ call' = [call EXCEPT ![c] = [WithoutCues(@) EXCEPT !.failed = TRUE]]
  /\ UNCHANGED <<wired, film, stamp, store, child, failures>>

(* The deadline passes while the child runs, or in the gap after its end.   *)
TimeOut(c) ==
  /\ call[c].at = "wait"
  /\ call' = [call EXCEPT ![c].at = "reap", ![c].failed = TRUE]
  /\ child' = [child EXCEPT ![c] = [state |-> "killed", output |-> <<>>]]
  /\ UNCHANGED <<wired, film, stamp, store, failures>>

Reap(c) ==
  /\ call[c].at = "reap"
  /\ call' = [call EXCEPT ![c] = WithoutCues(@)]
  /\ child' = [child EXCEPT ![c] = NoChild]
  /\ UNCHANGED <<wired, film, stamp, store, failures>>

(* An entry that does not decode is a miss.                                 *)
Readable == {key \in DOMAIN store : store[key] # Unreadable}

LookUp(c) ==
  LET r == call[c] IN
    /\ r.at = "lookup"
    /\ call' = [call EXCEPT ![c] =
                  IF r.key \in Readable
                  THEN Cues(r, store[r.key])
                  ELSE [r EXCEPT !.at = IF r.tool = "captions" THEN "spawn" ELSE "transcribe"]]
    /\ UNCHANGED <<wired, film, stamp, store, child, failures>>

TranscribeSound(c) ==
  /\ call[c].at = "transcribe"
  /\ call' = [call EXCEPT ![c] = Produced(@, Heard[@.sound])]
  /\ UNCHANGED <<wired, film, stamp, store, child, failures>>

(* A transcriber that hears nothing this time, or raises.                   *)
TranscribeBadly(c) ==
  /\ call[c].at = "transcribe"
  /\ Fail(c, Produced(call[c], None)) \/ Fail(c, WithoutCues(call[c]))
  /\ UNCHANGED <<wired, film, stamp, store, child>>

Put(key, words) ==
  [k \in DOMAIN store \cup {key} |-> IF k \in DOMAIN store THEN store[k] ELSE words]

Keep(c) ==
  /\ call[c].at = "keep"
  /\ store' = Put(call[c].key, call[c].words)
  /\ call' = [call EXCEPT ![c] = Cues(@, @.words)]
  /\ UNCHANGED <<wired, film, stamp, child, failures>>

(* A store that raises takes the words with it, already read or not.        *)
StoreFails(c) ==
  /\ call[c].at \in {"lookup", "keep"}
  /\ Fail(c, WithoutCues(call[c]))
  /\ UNCHANGED <<wired, film, stamp, store, child>>

(* A child is left to itself, and so is a thread that writes the entry.     *)
Cancel(c) ==
  /\ Running(c)
  /\ call' = [call EXCEPT ![c] = [Ready EXCEPT !.at = "cancelled"]]
  /\ \/ UNCHANGED store
     \/ call[c].at = "keep" /\ store' = Put(call[c].key, call[c].words)
  /\ UNCHANGED <<wired, film, stamp, child, failures>>

Edit ==
  /\ stamp < MaxEdits
  /\ film' \in Films \ {film}
  /\ stamp' = stamp + 1
  /\ call' = [c \in Calls |->
               [call[c] EXCEPT !.calm = @ /\ call[c].at \in {"ready", "cancelled"}]]
  /\ UNCHANGED <<wired, store, child, failures>>

----------------------------------------------------------------------------
Proceed(c) ==
  \/ Spawn(c) \/ Hear(c) \/ TimeOut(c) \/ Reap(c)
  \/ LookUp(c) \/ TranscribeSound(c) \/ Keep(c)

GoWrong(c) == SpawnFails(c) \/ ExitBadly(c) \/ TranscribeBadly(c) \/ StoreFails(c)

Next == Edit \/ \E c \in Calls : ReadTranscript(c) \/ Proceed(c) \/ Exit(c) \/ GoWrong(c) \/ Cancel(c)

(* A task is resumed, a deadline passes, a killed child dies, a store and a *)
(* transcriber answer; a child need not end by itself.                      *)
Spec == Init /\ [][Next]_vars /\ \A c \in Calls : WF_vars(Proceed(c))

----------------------------------------------------------------------------
Captioned(f) ==
  IF "captions" \in wired /\ TextTracks(f.tracks) # {}
  THEN {f.tracks[TextTrack(f.tracks)]} \ {"blank"}
  ELSE {}

Spoken(f) ==
  IF {"audio", "transcriber"} \subseteq wired /\ f.sound # None THEN {Heard[f.sound]} \ {None} ELSE {}

(* An answer is the words of the film as it is, by the best way there is:   *)
(* whatever other calls, of this process or an earlier one, left in the     *)
(* store, the only failures that an answer may show are those of its own    *)
(* call.  Of a film that is edited during the call nothing is said.         *)
AnswersAreOwn ==
  \A c \in Calls :
    LET r == call[c]
        Words(f) == IF Captioned(f) # {} THEN Captioned(f) ELSE Spoken(f)
    IN (r.at = "answered" /\ r.calm) =>
         IF r.failed
         THEN r.words \in Captioned(film) \cup Spoken(film) \cup {None}
         ELSE IF Words(film) = {} THEN r.words = None ELSE r.words \in Words(film)

(* A call ends although its children may hang, and leaves none behind,      *)
(* unless it is cancelled: a cancelled call abandons its child.             *)
CallsEnd ==
  \A c \in Calls :
    Running(c) ~> \/ call[c].at = "cancelled"
                  \/ call[c].at = "answered" /\ child[c] = NoChild

=============================================================================
