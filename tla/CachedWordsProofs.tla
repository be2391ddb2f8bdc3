------------------------- MODULE CachedWordsProofs -------------------------
(***************************************************************************)
(* That the words a call answers are those of its film, whatever the store *)
(* held and whatever other calls put there, for any number of calls, any   *)
(* films and any number of edits and failures.                             *)
(*                                                                         *)
(* A call is told from what it knows: a film that was edited since the     *)
(* call began says nothing of it, but what it keeps under the key of the   *)
(* film as it is now must be of that film, since calm calls look there.    *)
(***************************************************************************)
EXTENDS CachedWords, SequenceLemmas

Fields == {"at", "tool", "track", "sound", "key", "words", "calm", "failed"}

(* The words are those of text track t of the film as it is.               *)
OwnTrack(t, words) ==
  /\ t \in TextTracks(film.tracks)
  /\ film.tracks[t] # "blank"
  /\ words = film.tracks[t]

OwnSpeech(sound, words) == words = Heard[sound] /\ words # None

(* What the store answers is what would be produced again.                 *)
StoreIsOwn ==
  \A key \in Readable :
    /\ \A st \in Nat : \A t : key = <<"captions", st, t>> =>
         st <= stamp /\ (st = stamp => OwnTrack(t, store[key]))
    /\ \A sound : key = <<"asr", sound>> => OwnSpeech(sound, store[key])

(* No edit lies between the film as it is and what r writes or reads.      *)
Fresh(r) == r.calm \/ r.key = CaptionKey(r.track)

(* By which way a call has come to the tool it uses.                       *)
CaptionsTried(r) ==
  /\ {"audio", "transcriber"} \subseteq wired
  /\ r.calm /\ ~r.failed => Captioned(film) = {}

Led(r) ==
  /\ r.tool \in {"probe", "captions", "audio", "transcriber"}
  /\ r.tool = "captions" =>
       /\ r.key # NoKey => \E st \in Nat : st <= stamp /\ r.key = <<"captions", st, r.track>>
       /\ r.calm =>
            /\ r.key \in {NoKey, CaptionKey(r.track)}
            /\ TextTracks(film.tracks) # {} /\ "captions" \in wired
            /\ r.track = TextTrack(film.tracks)
  /\ r.tool = "audio" => r.key = NoKey /\ CaptionsTried(r)
  /\ r.tool = "transcriber" =>
       /\ r.key \in {NoKey, <<"asr", r.sound>>}
       /\ CaptionsTried(r)
       /\ r.calm => r.sound = film.sound /\ film.sound # None

At(r) ==
  CASE r.at \in {"ready", "cancelled", "answered"} -> TRUE
    [] r.at \in {"spawn", "wait"} -> r.tool \in {"probe", "captions", "audio"}
    [] r.at = "reap" -> r.tool \in {"probe", "captions", "audio"} /\ r.failed
    [] r.at = "transcribe" -> r.tool = "transcriber"
    [] r.at \in {"lookup", "keep"} -> r.tool \in {"captions", "transcriber"} /\ r.key # NoKey
    [] OTHER -> FALSE

(* What a child has written is of the film it read.                        *)
ChildIsOwn(r, ch) ==
  r.at = "wait" =>
    /\ ch.state \in {"running", "exited", "failed"}
    /\ ch.state = "exited" =>
         LET output == Head(ch.output) IN
           CASE r.tool = "probe" -> r.calm => output = film.tracks
             [] r.tool = "captions" -> Fresh(r) => OwnTrack(r.track, output)
             [] r.tool = "audio" -> r.calm => output = film.sound /\ film.sound # None
    /\ ch.state = "failed" /\ r.calm /\ ~r.failed => ~HasOutput(r)

KeptIsOwn(r) ==
  r.at = "keep" =>
    /\ r.tool = "captions" /\ Fresh(r) => OwnTrack(r.track, r.words)
    /\ r.tool = "transcriber" => OwnSpeech(r.sound, r.words)

Words(f) == IF Captioned(f) # {} THEN Captioned(f) ELSE Spoken(f)

AnswerIsOwn(r) ==
  r.at = "answered" /\ r.calm =>
    IF r.failed
    THEN r.words \in Captioned(film) \cup Spoken(film) \cup {None}
    ELSE IF Words(film) = {} THEN r.words = None ELSE r.words \in Words(film)

IsCall(r) == DOMAIN r = Fields /\ r.calm \in BOOLEAN /\ r.failed \in BOOLEAN

CallIsOwn(r, ch) ==
  /\ IsCall(r) /\ At(r)
  /\ r.at \notin {"ready", "answered", "cancelled"} => Led(r)
  /\ ChildIsOwn(r, ch) /\ KeptIsOwn(r) /\ AnswerIsOwn(r)

Types ==
  /\ film \in Films /\ stamp \in Nat
  /\ call = [c \in Calls |-> call[c]] /\ child = [c \in Calls |-> child[c]]
  /\ \A c \in Calls : DOMAIN child[c] = {"state", "output"}

IInv == Types /\ StoreIsOwn /\ \A c \in Calls : CallIsOwn(call[c], child[c])

----------------------------------------------------------------------------
(* What each way of going on leads to                                      *)

LEMMA TextTrackIsText ==
  ASSUME film \in Films, TextTracks(film.tracks) # {}
  PROVE  TextTrack(film.tracks) \in TextTracks(film.tracks)
<1>1. TextTracks(film.tracks) \in SUBSET Nat
  BY WordsAssumption DEF TextTracks
<1>2. PICK i \in TextTracks(film.tracks) : \A j \in TextTracks(film.tracks) : i <= j
  BY <1>1, Least
<1>3. QED
  BY <1>2 DEF TextTrack

(* The best there is to answer, of the film as it is.                      *)
LEMMA AnsweredOwn ==
  ASSUME NEW r, IsCall(r), NEW words, NEW ch,
         r.calm /\ r.failed => words \in Captioned(film) \cup Spoken(film) \cup {None},
         r.calm /\ ~r.failed =>
           IF Words(film) = {} THEN words = None ELSE words \in Words(film)
  PROVE  CallIsOwn(Answered(r, words), ch)
<1> DEFINE q == Answered(r, words)
<1>1. /\ DOMAIN q = Fields /\ q.at = "answered" /\ q.words = words
      /\ q.calm = r.calm /\ q.failed = r.failed
  BY DEF Answered, Ready, Fields
<1> HIDE DEF q
<1>2. IsCall(q) /\ At(q) /\ ChildIsOwn(q, ch) /\ KeptIsOwn(q) /\ AnswerIsOwn(q)
  BY <1>1 DEF IsCall, At, ChildIsOwn, KeptIsOwn, AnswerIsOwn
<1>3. QED
  BY <1>1, <1>2 DEF CallIsOwn, q

LEMMA TranscribedCuesOwn ==
  ASSUME NEW r, IsCall(r), NEW ch, r.calm /\ ~r.failed => Captioned(film) = {}
  PROVE  CallIsOwn(TranscribedCues(r), ch)
<1>1. CASE {"audio", "transcriber"} \subseteq wired
  <2> DEFINE q == TranscribedCues(r)
  <2>1. /\ DOMAIN q = Fields /\ q.at = "spawn" /\ q.tool = "audio" /\ q.key = NoKey
        /\ q.calm = r.calm /\ q.failed = r.failed
    BY <1>1 DEF TranscribedCues, IsCall, Fields
  <2> HIDE DEF q
  <2>2. IsCall(q) /\ At(q) /\ Led(q)
    BY <1>1, <2>1 DEF IsCall, At, Led, CaptionsTried
  <2>3. ChildIsOwn(q, ch) /\ KeptIsOwn(q) /\ AnswerIsOwn(q)
    BY <2>1 DEF ChildIsOwn, KeptIsOwn, AnswerIsOwn
  <2>4. QED
    BY <2>2, <2>3 DEF CallIsOwn, q
<1>2. CASE ~({"audio", "transcriber"} \subseteq wired)
  <2>1. TranscribedCues(r) = Answered(r, None) /\ Spoken(film) = {}
    BY <1>2 DEF TranscribedCues, Spoken
  <2>2. QED
    BY <2>1, AnsweredOwn DEF Words
<1>3. QED
  BY <1>1, <1>2

(* Nothing is to be had by the tool that r uses.                           *)
Nothing(r) ==
  /\ r.tool \in {"probe", "captions"} => Captioned(film) = {}
  /\ r.tool # "captions" => Spoken(film) = {}

LEMMA WithoutCuesOwn ==
  ASSUME NEW r, IsCall(r), NEW ch, Led(r),
         r.calm /\ ~r.failed => Nothing(r)
  PROVE  CallIsOwn(WithoutCues(r), ch)
<1>1. CASE r.tool = "captions"
  BY <1>1, TranscribedCuesOwn DEF WithoutCues, Nothing
<1>2. CASE r.tool # "captions"
  <2>1. WithoutCues(r) = Answered(r, None)
    BY <1>2 DEF WithoutCues
  <2>2. r.calm /\ ~r.failed => Words(film) = {}
    BY <1>2 DEF Words, Nothing, Led, CaptionsTried
  <2>3. QED
    BY <2>1, <2>2, AnsweredOwn
<1>3. QED
  BY <1>1, <1>2

(* A failure excuses an answer.                                            *)
LEMMA FailedOwn ==
  ASSUME NEW r, NEW ch, CallIsOwn(r, ch)
  PROVE  CallIsOwn([r EXCEPT !.failed = TRUE], ch)
<1> DEFINE q == [r EXCEPT !.failed = TRUE]
<1>1. /\ DOMAIN q = Fields /\ q.failed = TRUE
      /\ \A field \in Fields \ {"failed"} : q[field] = r[field]
  BY DEF CallIsOwn, IsCall, Fields
<1> HIDE DEF q
<1>2. /\ q.at = r.at /\ q.tool = r.tool /\ q.track = r.track /\ q.sound = r.sound
      /\ q.key = r.key /\ q.words = r.words /\ q.calm = r.calm
  BY <1>1 DEF Fields
<1>3. IsCall(q) /\ At(q)
  BY <1>1, <1>2 DEF CallIsOwn, IsCall, At
<1>4. Led(r) => Led(q)
  BY <1>1, <1>2 DEF Led, CaptionsTried
<1>5. ChildIsOwn(q, ch)
  BY <1>1, <1>2 DEF CallIsOwn, ChildIsOwn, Fresh
<1>6. KeptIsOwn(q)
  BY <1>1, <1>2 DEF CallIsOwn, KeptIsOwn, Fresh
<1>7. AnswerIsOwn(q)
  BY <1>1, <1>2 DEF CallIsOwn, AnswerIsOwn, Words
<1>8. QED
  BY <1>2, <1>3, <1>4, <1>5, <1>6, <1>7 DEF CallIsOwn, q

LEMMA FailedWithoutCuesOwn ==
  ASSUME NEW r, IsCall(r), NEW ch, Led(r)
  PROVE  CallIsOwn([WithoutCues(r) EXCEPT !.failed = TRUE], ch)
<1> DEFINE f == [r EXCEPT !.failed = TRUE]
<1>1. /\ DOMAIN f = Fields /\ f.failed = TRUE
      /\ \A field \in Fields \ {"failed"} : f[field] = r[field]
  BY DEF IsCall, Fields
<1>2. /\ f.tool = r.tool /\ f.track = r.track /\ f.sound = r.sound
      /\ f.key = r.key /\ f.calm = r.calm
  BY <1>1 DEF Fields
<1>3. [WithoutCues(r) EXCEPT !.failed = TRUE] = WithoutCues(f)
  BY DEF WithoutCues, TranscribedCues, Answered, Ready, IsCall, Fields
<1> HIDE DEF f
<1>4. IsCall(f) /\ Led(f)
  BY <1>1, <1>2 DEF IsCall, Led, CaptionsTried
<1>5. QED
  BY <1>1, <1>2, <1>3, <1>4, WithoutCuesOwn

LEMMA CuesOwn ==
  ASSUME film \in Films, NEW r, IsCall(r), NEW words, NEW ch, Led(r),
         r.tool \in {"captions", "transcriber"},
         r.tool = "captions" /\ r.calm => OwnTrack(r.track, words),
         r.tool = "transcriber" => words = Heard[r.sound]
  PROVE  CallIsOwn(Cues(r, words), ch)
<1>1. CASE r.tool = "captions" /\ r.calm
  <2>1. /\ TextTracks(film.tracks) # {} /\ "captions" \in wired
        /\ r.track = TextTrack(film.tracks) /\ r.track \in DOMAIN film.tracks
        /\ words = film.tracks[r.track] /\ words # "blank"
    BY <1>1 DEF Led, OwnTrack, TextTracks
  <2>2. words # None
    BY <2>1, WordsAssumption
  <2>3. Captioned(film) = {words}
    BY <2>1 DEF Captioned
  <2>4. QED
    BY <2>2, <2>3, AnsweredOwn DEF Cues, Words
<1>2. CASE r.tool = "captions" /\ ~r.calm
  BY <1>2, AnsweredOwn, WithoutCuesOwn DEF Cues
<1>3. CASE r.tool = "transcriber"
  <2>1. r.calm => Spoken(film) = {words} \ {None}
    BY <1>3 DEF Led, Spoken, CaptionsTried
  <2>2. CASE words = None
    BY <1>3, <2>1, <2>2, WithoutCuesOwn DEF Cues, Nothing
  <2>3. CASE words # None
    BY <1>3, <2>1, <2>3, AnsweredOwn DEF Cues, Words, Led, CaptionsTried
  <2>4. QED
    BY <2>2, <2>3
<1>4. QED
  BY <1>1, <1>2, <1>3

LEMMA ProducedOwn ==
  ASSUME film \in Films, NEW r, IsCall(r), NEW words, NEW ch, Led(r),
         r.tool \in {"captions", "transcriber"},
         r.tool = "captions" /\ Fresh(r) => OwnTrack(r.track, words),
         r.tool = "transcriber" => words = Heard[r.sound]
  PROVE  CallIsOwn(Produced(r, words), ch)
<1>1. CASE r.key # NoKey /\ words # None
  <2> DEFINE q == [r EXCEPT !.at = "keep", !.words = words]
  <2>1. /\ DOMAIN q = Fields /\ q.at = "keep" /\ q.tool = r.tool /\ q.track = r.track
        /\ q.sound = r.sound /\ q.key = r.key /\ q.words = words
        /\ q.calm = r.calm /\ q.failed = r.failed
    BY DEF IsCall, Fields
  <2>2. Produced(r, words) = q
    BY <1>1 DEF Produced
  <2> HIDE DEF q
  <2>3. IsCall(q) /\ At(q)
    BY <1>1, <2>1 DEF IsCall, At
  <2>4. Led(q)
    BY <2>1 DEF Led, CaptionsTried
  <2>5. ChildIsOwn(q, ch) /\ KeptIsOwn(q) /\ AnswerIsOwn(q)
    BY <1>1, <2>1 DEF ChildIsOwn, KeptIsOwn, AnswerIsOwn, Fresh, OwnSpeech
  <2>6. QED
    BY <2>2, <2>3, <2>4, <2>5 DEF CallIsOwn
<1>2. CASE ~(r.key # NoKey /\ words # None)
  BY <1>2, CuesOwn DEF Produced, Fresh
<1>3. QED
  BY <1>1, <1>2

(* A transcriber that hears nothing this time.                             *)
LEMMA ProducedNothingOwn ==
  ASSUME NEW r, IsCall(r), NEW ch, Led(r)
  PROVE  CallIsOwn([Produced(r, None) EXCEPT !.failed = TRUE], ch)
  BY FailedWithoutCuesOwn DEF Produced, Cues

LEMMA CuesOfOwn ==
  ASSUME film \in Films, stamp \in Nat, NEW r, IsCall(r), NEW tracks, NEW ch,
         r.calm => tracks = film.tracks
  PROVE  CallIsOwn(CuesOf(r, tracks), ch)
<1>1. CASE TextTracks(tracks) # {} /\ "captions" \in wired
  <2> DEFINE q == CaptionedCues(r, tracks)
  <2>1. /\ DOMAIN q = Fields /\ q.at \in {"lookup", "spawn"} /\ q.tool = "captions"
        /\ q.track = TextTrack(tracks)
        /\ q.key = IF q.at = "lookup" THEN CaptionKey(q.track) ELSE NoKey
        /\ q.calm = r.calm /\ q.failed = r.failed
    BY DEF CaptionedCues, IsCall, Fields
  <2>2. CuesOf(r, tracks) = q
    BY <1>1 DEF CuesOf
  <2> HIDE DEF q
  <2>3. q.at = "lookup" => q.key # NoKey
    BY <2>1 DEF CaptionKey, NoKey
  <2>4. IsCall(q) /\ At(q)
    BY <2>1, <2>3 DEF IsCall, At
  <2>5. Led(q)
    BY <1>1, <2>1 DEF Led, CaptionKey
  <2>6. ChildIsOwn(q, ch) /\ KeptIsOwn(q) /\ AnswerIsOwn(q)
    BY <2>1 DEF ChildIsOwn, KeptIsOwn, AnswerIsOwn
  <2>7. QED
    BY <2>2, <2>4, <2>5, <2>6 DEF CallIsOwn
<1>2. CASE ~(TextTracks(tracks) # {} /\ "captions" \in wired)
  <2>1. r.calm => Captioned(film) = {}
    BY <1>2 DEF Captioned
  <2>2. QED
    BY <1>2, <2>1, TranscribedCuesOwn DEF CuesOf
<1>3. QED
  BY <1>1, <1>2

LEMMA TranscribeOwn ==
  ASSUME NEW r, IsCall(r), NEW sound, NEW ch, Led(r), r.tool = "audio",
         r.calm => sound = film.sound /\ film.sound # None
  PROVE  CallIsOwn(Transcribe(r, sound), ch)
<1> DEFINE q == Transcribe(r, sound)
<1>1. /\ DOMAIN q = Fields /\ q.at \in {"lookup", "transcribe"} /\ q.tool = "transcriber"
      /\ q.sound = sound
      /\ q.key = IF q.at = "lookup" THEN <<"asr", sound>> ELSE NoKey
      /\ q.calm = r.calm /\ q.failed = r.failed
  BY DEF Transcribe, IsCall, Fields
<1> HIDE DEF q
<1>2. <<"asr", sound>> # NoKey
  BY DEF NoKey
<1>3. IsCall(q) /\ At(q)
  BY <1>1, <1>2 DEF IsCall, At
<1>4. Led(q)
  BY <1>1 DEF Led, CaptionsTried
<1>5. ChildIsOwn(q, ch) /\ KeptIsOwn(q) /\ AnswerIsOwn(q)
  BY <1>1 DEF ChildIsOwn, KeptIsOwn, AnswerIsOwn
<1>6. QED
  BY <1>3, <1>4, <1>5 DEF CallIsOwn, q

(* The same call, at another place of the same way.                        *)
LEMMA ElsewhereOwn ==
  ASSUME NEW r, IsCall(r), NEW at, NEW failed \in BOOLEAN, NEW ch, Led(r),
         failed \/ ~r.failed,
         \/ at = "spawn" /\ r.tool \in {"probe", "captions", "audio"}
         \/ at = "reap" /\ failed /\ r.tool \in {"probe", "captions", "audio"}
         \/ at = "transcribe" /\ r.tool = "transcriber"
         \/ at = "wait" /\ ch.state = "running" /\ r.tool \in {"probe", "captions", "audio"}
  PROVE  CallIsOwn([r EXCEPT !.at = at, !.failed = failed], ch)
<1> DEFINE q == [r EXCEPT !.at = at, !.failed = failed]
<1>1. /\ DOMAIN q = Fields /\ q.at = at /\ q.tool = r.tool /\ q.track = r.track
      /\ q.sound = r.sound /\ q.key = r.key /\ q.calm = r.calm /\ q.failed = failed
  BY DEF IsCall, Fields
<1> HIDE DEF q
<1>2. IsCall(q) /\ At(q)
  BY <1>1 DEF IsCall, At
<1>3. Led(q)
  BY <1>1 DEF Led, CaptionsTried
<1>4. ChildIsOwn(q, ch) /\ KeptIsOwn(q) /\ AnswerIsOwn(q)
  BY <1>1 DEF ChildIsOwn, KeptIsOwn, AnswerIsOwn
<1>5. QED
  BY <1>2, <1>3, <1>4 DEF CallIsOwn, q

----------------------------------------------------------------------------
(* The steps                                                               *)

LEMMA InitIInv == Init => IInv
<1> SUFFICES ASSUME Init PROVE IInv
  OBVIOUS
<1>1. Types
  BY DEF Init, Types, NoChild
<1>2. StoreIsOwn
  BY DEF Init, StoreIsOwn, Readable
<1>3. CallIsOwn(Ready, NoChild)
  BY DEF CallIsOwn, IsCall, At, ChildIsOwn, KeptIsOwn, AnswerIsOwn, Ready, Fields
<1>4. QED
  BY <1>1, <1>2, <1>3 DEF Init, IInv

(* While the film, its stamp and the wiring stand, so does what is told of *)
(* a call by them.                                                         *)
LEMMA EnvironmentStands ==
  ASSUME UNCHANGED <<wired, film, stamp>>,
         \A c \in Calls : CallIsOwn(call'[c], child'[c])
  PROVE  \A c \in Calls : CallIsOwn(call[c], child[c])'
<1> SUFFICES ASSUME NEW c \in Calls PROVE CallIsOwn(call[c], child[c])'
  OBVIOUS
<1>1. CallIsOwn(call'[c], child'[c])
  OBVIOUS
<1>2. IsCall(call[c])' /\ At(call[c])'
  BY <1>1 DEF CallIsOwn, IsCall, At
<1>3. Led(call'[c]) => Led(call[c])'
  BY DEF Led, CaptionsTried, Captioned, CaptionKey
<1>4. ChildIsOwn(call[c], child[c])'
  BY <1>1 DEF CallIsOwn, ChildIsOwn, Fresh, CaptionKey, OwnTrack, HasOutput
<1>5. KeptIsOwn(call[c])'
  BY <1>1 DEF CallIsOwn, KeptIsOwn, Fresh, CaptionKey, OwnTrack, OwnSpeech
<1>6. AnswerIsOwn(call[c])'
  BY <1>1 DEF CallIsOwn, AnswerIsOwn, Words, Captioned, Spoken
<1>7. QED
  BY <1>1, <1>2, <1>3, <1>4, <1>5, <1>6 DEF CallIsOwn

(* A step of call c that leaves the film alone.                            *)
LEMMA CallStep ==
  ASSUME IInv, NEW c \in Calls, NEW q, NEW ch,
         call' = [call EXCEPT ![c] = q],
         child' = [child EXCEPT ![c] = ch],
         DOMAIN ch = {"state", "output"},
         CallIsOwn(q, ch),
         UNCHANGED <<wired, film, stamp>>,
         StoreIsOwn'
  PROVE  IInv'
<1>1. Types'
  BY DEF IInv, Types
<1>2. \A d \in Calls : CallIsOwn(call'[d], child'[d])
  BY DEF IInv, Types
<1>3. \A d \in Calls : CallIsOwn(call[d], child[d])'
  BY <1>2, EnvironmentStands
<1>4. QED
  BY <1>1, <1>3 DEF IInv

LEMMA StoreStands ==
  ASSUME StoreIsOwn, UNCHANGED <<film, stamp, store>>
  PROVE  StoreIsOwn'
  BY DEF StoreIsOwn, Readable, OwnTrack, OwnSpeech

(* A call that leaves its child to itself.                                 *)
LEMMA CallAlone ==
  ASSUME IInv, NEW c \in Calls, NEW q,
         call' = [call EXCEPT ![c] = q], UNCHANGED <<wired, film, stamp, store, child>>,
         CallIsOwn(q, child[c])
  PROVE  IInv'
<1>1. child' = [child EXCEPT ![c] = child[c]] /\ DOMAIN child[c] = {"state", "output"}
  BY DEF IInv, Types
<1>2. StoreIsOwn'
  BY StoreStands DEF IInv
<1>3. QED
  BY <1>1, <1>2, CallStep

LEMMA PutOwn ==
  ASSUME IInv, NEW c \in Calls, call[c].at = "keep",
         store' = Put(call[c].key, call[c].words), UNCHANGED <<film, stamp>>
  PROVE  StoreIsOwn'
<1> DEFINE r == call[c]
<1>1. CallIsOwn(r, child[c]) /\ r.at = "keep"
  BY DEF IInv
<1>2. Led(r) /\ KeptIsOwn(r) /\ r.tool \in {"captions", "transcriber"} /\ r.key # NoKey
  BY <1>1 DEF CallIsOwn, At
<1>3. ASSUME NEW key \in Readable'
      PROVE  \/ key \in Readable /\ store'[key] = store[key]
             \/ key = r.key /\ store'[key] = r.words
  BY <1>3 DEF Put, Readable
<1> HIDE DEF r
<1>4. ASSUME NEW st \in Nat, NEW t, r.key = <<"captions", st, t>>
      PROVE  st <= stamp /\ (st = stamp => OwnTrack(t, r.words))
  <2>1. r.tool = "captions"
    BY <1>2, <1>4 DEF Led
  <2>2. PICK s \in Nat : s <= stamp /\ r.key = <<"captions", s, r.track>>
    BY <1>2, <2>1 DEF Led
  <2>3. s = st /\ r.track = t
    BY <1>4, <2>2
  <2>4. st = stamp => Fresh(r)
    BY <2>2, <2>3 DEF Fresh, CaptionKey
  <2>5. QED
    BY <1>1, <1>2, <2>1, <2>2, <2>3, <2>4 DEF KeptIsOwn
<1>5. ASSUME NEW sound, r.key = <<"asr", sound>> PROVE OwnSpeech(sound, r.words)
  <2>1. r.tool = "transcriber"
    BY <1>2, <1>5 DEF Led
  <2>2. r.key = <<"asr", r.sound>>
    BY <1>2, <2>1 DEF Led
  <2>3. r.sound = sound
    BY <1>5, <2>2
  <2>4. QED
    BY <1>1, <1>2, <2>1, <2>3 DEF KeptIsOwn
<1>6. SUFFICES ASSUME NEW key \in Readable'
               PROVE  /\ \A st \in Nat : \A t : key = <<"captions", st, t>> =>
                           st <= stamp /\ (st = stamp => OwnTrack(t, store'[key]))
                      /\ \A sound : key = <<"asr", sound>> => OwnSpeech(sound, store'[key])
  BY DEF StoreIsOwn, OwnTrack, OwnSpeech
<1>7. CASE key \in Readable /\ store'[key] = store[key]
  BY <1>7 DEF IInv, StoreIsOwn
<1>8. CASE key = r.key /\ store'[key] = r.words
  BY <1>4, <1>5, <1>8
<1>9. QED
  BY <1>3, <1>6, <1>7, <1>8

LEMMA ReadTranscriptStep ==
  ASSUME IInv, NEW c \in Calls, ReadTranscript(c)
  PROVE  IInv'
<1> DEFINE q == [Ready EXCEPT !.at = "spawn"]
<1>1. CallIsOwn(q, NoChild)
  BY DEF CallIsOwn, IsCall, At, Led, ChildIsOwn, KeptIsOwn, AnswerIsOwn, Ready, Fields
<1>2. DOMAIN NoChild = {"state", "output"}
  BY DEF NoChild
<1>3. StoreIsOwn'
  BY StoreStands DEF IInv, ReadTranscript
<1>4. QED
  BY <1>1, <1>2, <1>3, CallStep DEF ReadTranscript

LEMMA SpawnStep ==
  ASSUME IInv, NEW c \in Calls, Spawn(c)
  PROVE  IInv'
<1> DEFINE r == call[c]
           ch == [child[c] EXCEPT !.state = "running"]
           q == [r EXCEPT !.at = "wait", !.failed = r.failed]
<1>1. /\ IsCall(r) /\ At(r) /\ Led(r) /\ r.at = "spawn"
      /\ DOMAIN child[c] = {"state", "output"}
  BY DEF IInv, Types, CallIsOwn, Spawn
<1>2. ch.state = "running" /\ DOMAIN ch = {"state", "output"}
  BY <1>1
<1>3. r.tool \in {"probe", "captions", "audio"} /\ r.failed \in BOOLEAN
  BY <1>1 DEF At, IsCall
<1>4. q = [r EXCEPT !.at = "wait"]
  BY <1>1 DEF IsCall, Fields
<1>5. call' = [call EXCEPT ![c] = q] /\ child' = [child EXCEPT ![c] = ch]
  BY <1>4 DEF Spawn
<1>6. CallIsOwn(q, ch)
  <2> HIDE DEF r, ch
  <2>1. QED
    BY <1>1, <1>2, <1>3, ElsewhereOwn
<1>7. StoreIsOwn'
  BY StoreStands DEF IInv, Spawn
<1> HIDE DEF q, ch
<1>8. QED
  BY <1>2, <1>5, <1>6, <1>7, CallStep DEF Spawn

LEMMA SpawnFailsStep ==
  ASSUME IInv, NEW c \in Calls, SpawnFails(c)
  PROVE  IInv'
<1>1. IsCall(call[c]) /\ Led(call[c])
  BY DEF IInv, CallIsOwn, SpawnFails
<1>2. CallIsOwn([WithoutCues(call[c]) EXCEPT !.failed = TRUE], child[c])
  BY <1>1, FailedWithoutCuesOwn
<1>3. QED
  BY <1>2, CallAlone DEF SpawnFails, Fail

LEMMA ExitStep ==
  ASSUME IInv, NEW c \in Calls, Exit(c)
  PROVE  IInv'
<1> DEFINE r == call[c]
           ch == IF HasOutput(r)
                 THEN [state |-> "exited", output |-> <<Output(r)>>]
                 ELSE [state |-> "failed", output |-> <<>>]
<1>1. CallIsOwn(r, child[c]) /\ IsCall(r) /\ At(r) /\ Led(r) /\ r.at = "wait"
  BY DEF IInv, CallIsOwn, Exit
<1>2. r.tool \in {"probe", "captions", "audio"}
  BY <1>1 DEF At
<1>3. DOMAIN ch = {"state", "output"}
  OBVIOUS
<1>4. ChildIsOwn(r, ch)
  <2>1. CASE HasOutput(r)
    <3>1. ch.state = "exited" /\ Head(ch.output) = Output(r)
      BY <2>1
    <3> HIDE DEF r, ch
    <3>2. QED
      BY <1>1, <1>2, <2>1, <3>1 DEF ChildIsOwn, HasOutput, Output, OwnTrack
  <2>2. CASE ~HasOutput(r)
    BY <2>2 DEF ChildIsOwn
  <2>3. QED
    BY <2>1, <2>2
<1>5. CallIsOwn(r, ch)
  BY <1>1, <1>4 DEF CallIsOwn
<1>6. call' = [call EXCEPT ![c] = r] /\ child' = [child EXCEPT ![c] = ch]
  BY DEF IInv, Types, Exit
<1>7. StoreIsOwn'
  BY StoreStands DEF IInv, Exit
<1> HIDE DEF ch
<1>8. QED
  BY <1>3, <1>5, <1>6, <1>7, CallStep DEF Exit

LEMMA ExitBadlyStep ==
  ASSUME IInv, NEW c \in Calls, ExitBadly(c)
  PROVE  IInv'
<1> DEFINE r == call[c]
           ch == [child[c] EXCEPT !.state = "failed"]
           q == [r EXCEPT !.failed = TRUE]
<1>1. /\ IsCall(r) /\ At(r) /\ Led(r) /\ r.at = "wait"
      /\ DOMAIN child[c] = {"state", "output"}
  BY DEF IInv, Types, CallIsOwn, ExitBadly
<1>2. ch.state = "failed" /\ DOMAIN ch = {"state", "output"}
  BY <1>1
<1>3. /\ DOMAIN q = Fields /\ q.at = "wait" /\ q.tool = r.tool /\ q.track = r.track
      /\ q.sound = r.sound /\ q.key = r.key /\ q.calm = r.calm /\ q.failed = TRUE
  BY <1>1 DEF IsCall, Fields
<1>4. call' = [call EXCEPT ![c] = q] /\ child' = [child EXCEPT ![c] = ch]
  BY DEF ExitBadly, Fail
<1>5. StoreIsOwn'
  BY StoreStands DEF IInv, ExitBadly
<1> HIDE DEF q, ch, r
<1>6. IsCall(q) /\ At(q)
  BY <1>1, <1>3 DEF IsCall, At
<1>7. Led(q)
  BY <1>1, <1>3 DEF Led, CaptionsTried
<1>8. ChildIsOwn(q, ch) /\ KeptIsOwn(q) /\ AnswerIsOwn(q)
  BY <1>2, <1>3 DEF ChildIsOwn, KeptIsOwn, AnswerIsOwn
<1>9. CallIsOwn(q, ch)
  BY <1>6, <1>7, <1>8 DEF CallIsOwn
<1>10. QED
  BY <1>2, <1>4, <1>5, <1>9, CallStep DEF ExitBadly

LEMMA HearStep ==
  ASSUME IInv, NEW c \in Calls, Hear(c)
  PROVE  IInv'
<1> DEFINE r == call[c]
           output == Head(child[c].output)
           q == IF child[c].state = "failed" THEN WithoutCues(r)
                ELSE CASE r.tool = "probe" -> CuesOf(r, output)
                       [] r.tool = "captions" -> Produced(r, output)
                       [] r.tool = "audio" -> Transcribe(r, output)
<1>1. /\ IsCall(r) /\ At(r) /\ Led(r) /\ r.at = "wait" /\ ChildIsOwn(r, child[c])
      /\ film \in Films /\ stamp \in Nat
  BY DEF IInv, Types, CallIsOwn, Hear
<1>2. r.tool \in {"probe", "captions", "audio"}
  BY <1>1 DEF At
<1>3. call' = [call EXCEPT ![c] = q] /\ child' = [child EXCEPT ![c] = NoChild]
  BY DEF Hear
<1>4. ASSUME child[c].state = "failed" PROVE CallIsOwn(q, NoChild)
  <2>1. r.calm /\ ~r.failed => ~HasOutput(r)
    BY <1>1, <1>4 DEF ChildIsOwn
  <2>2. r.calm /\ ~r.failed => Nothing(r)
    <3> HIDE DEF r
    <3>1. SUFFICES ASSUME r.calm, ~r.failed PROVE Nothing(r)
      OBVIOUS
    <3>2. CASE r.tool = "probe"
      <4>1. DOMAIN film.tracks = {} /\ film.sound = None
        BY <1>1, <2>1, <3>1, <3>2, WordsAssumption DEF HasOutput
      <4>2. QED
        BY <3>2, <4>1 DEF Nothing, Captioned, Spoken, TextTracks
    <3>3. CASE r.tool = "captions"
      <4>1. /\ TextTracks(film.tracks) # {} /\ r.track = TextTrack(film.tracks)
            /\ "captions" \in wired
        BY <1>1, <3>1, <3>3 DEF Led
      <4>2. film.exists
        BY <1>1, <4>1, WordsAssumption DEF TextTracks
      <4>3. film.tracks[r.track] = "blank"
        BY <1>1, <2>1, <3>1, <3>3, <4>1, <4>2, TextTrackIsText DEF HasOutput
      <4>4. QED
        BY <3>3, <4>1, <4>3 DEF Nothing, Captioned
    <3>4. CASE r.tool = "audio"
      <4>1. film.sound = None
        BY <1>1, <2>1, <3>1, <3>4, WordsAssumption DEF HasOutput
      <4>2. QED
        BY <3>4, <4>1 DEF Nothing, Spoken
    <3>5. QED
      BY <1>2, <3>2, <3>3, <3>4
  <2>3. QED
    BY <1>1, <1>4, <2>2, WithoutCuesOwn
<1>5. ASSUME child[c].state # "failed" PROVE CallIsOwn(q, NoChild)
  <2>1. child[c].state = "exited"
    BY <1>5 DEF Hear
  <2>2. CASE r.tool = "probe"
    <3>1. r.calm => output = film.tracks
      BY <1>1, <2>1, <2>2 DEF ChildIsOwn
    <3>2. q = CuesOf(r, output)
      BY <1>5, <2>2
    <3> HIDE DEF q, r, output
    <3>3. QED
      BY <1>1, <3>1, <3>2, CuesOfOwn
  <2>3. CASE r.tool = "captions"
    <3>1. Fresh(r) => OwnTrack(r.track, output)
      BY <1>1, <2>1, <2>3 DEF ChildIsOwn
    <3>2. q = Produced(r, output)
      BY <1>5, <2>3
    <3> HIDE DEF q, r, output
    <3>3. QED
      BY <1>1, <2>3, <3>1, <3>2, ProducedOwn
  <2>4. CASE r.tool = "audio"
    <3>1. r.calm => output = film.sound /\ film.sound # None
      BY <1>1, <2>1, <2>4 DEF ChildIsOwn
    <3>2. q = Transcribe(r, output)
      BY <1>5, <2>4
    <3> HIDE DEF q, r, output
    <3>3. QED
      BY <1>1, <2>4, <3>1, <3>2, TranscribeOwn
  <2>5. QED
    BY <1>2, <2>2, <2>3, <2>4
<1>6. DOMAIN NoChild = {"state", "output"}
  BY DEF NoChild
<1>7. StoreIsOwn'
  BY StoreStands DEF IInv, Hear
<1> HIDE DEF q
<1>8. QED
  BY <1>3, <1>4, <1>5, <1>6, <1>7, CallStep DEF Hear

LEMMA TimeOutStep ==
  ASSUME IInv, NEW c \in Calls, TimeOut(c)
  PROVE  IInv'
<1> DEFINE r == call[c]
           ch == [state |-> "killed", output |-> <<>>]
           q == [r EXCEPT !.at = "reap", !.failed = TRUE]
<1>1. IsCall(r) /\ At(r) /\ Led(r) /\ r.at = "wait"
  BY DEF IInv, CallIsOwn, TimeOut
<1>2. r.tool \in {"probe", "captions", "audio"}
  BY <1>1 DEF At
<1>3. call' = [call EXCEPT ![c] = q] /\ child' = [child EXCEPT ![c] = ch]
  BY DEF TimeOut
<1>4. CallIsOwn(q, ch)
  BY <1>1, <1>2, ElsewhereOwn
<1>5. StoreIsOwn'
  BY StoreStands DEF IInv, TimeOut
<1>6. DOMAIN ch = {"state", "output"}
  OBVIOUS
<1> HIDE DEF q, ch
<1>7. QED
  BY <1>3, <1>4, <1>5, <1>6, CallStep DEF TimeOut

LEMMA ReapStep ==
  ASSUME IInv, NEW c \in Calls, Reap(c)
  PROVE  IInv'
<1> DEFINE r == call[c]
<1>1. IsCall(r) /\ At(r) /\ Led(r) /\ r.at = "reap"
  BY DEF IInv, CallIsOwn, Reap
<1>2. r.failed
  BY <1>1 DEF At
<1>3. CallIsOwn(WithoutCues(r), NoChild)
  BY <1>1, <1>2, WithoutCuesOwn
<1>4. StoreIsOwn'
  BY StoreStands DEF IInv, Reap
<1>5. DOMAIN NoChild = {"state", "output"}
  BY DEF NoChild
<1>6. QED
  BY <1>3, <1>4, <1>5, CallStep DEF Reap

LEMMA LookUpStep ==
  ASSUME IInv, NEW c \in Calls, LookUp(c)
  PROVE  IInv'
<1> DEFINE r == call[c]
           next == IF r.tool = "captions" THEN "spawn" ELSE "transcribe"
           q == IF r.key \in Readable THEN Cues(r, store[r.key]) ELSE [r EXCEPT !.at = next]
<1>1. IsCall(r) /\ At(r) /\ Led(r) /\ r.at = "lookup" /\ film \in Films /\ stamp \in Nat
  BY DEF IInv, Types, CallIsOwn, LookUp
<1>2. r.tool \in {"captions", "transcriber"} /\ r.key # NoKey
  BY <1>1 DEF At
<1>3. call' = [call EXCEPT ![c] = q]
  BY DEF LookUp
<1>4. CASE r.key \in Readable
  <2>1. r.tool = "captions" /\ r.calm => OwnTrack(r.track, store[r.key])
    <3>1. r.tool = "captions" /\ r.calm => r.key = <<"captions", stamp, r.track>>
      BY <1>1, <1>2 DEF Led, CaptionKey
    <3>2. QED
      BY <1>1, <1>4, <3>1 DEF IInv, StoreIsOwn
  <2>2. r.tool = "transcriber" => store[r.key] = Heard[r.sound]
    <3>1. r.tool = "transcriber" => r.key = <<"asr", r.sound>>
      BY <1>1, <1>2 DEF Led
    <3>2. QED
      BY <1>4, <3>1 DEF IInv, StoreIsOwn, OwnSpeech
  <2>3. CallIsOwn(Cues(r, store[r.key]), child[c])
    <3> HIDE DEF r
    <3>1. QED
      BY <1>1, <1>2, <2>1, <2>2, CuesOwn
  <2>4. QED
    BY <1>3, <1>4, <2>3, CallAlone DEF LookUp
<1>5. CASE r.key \notin Readable
  <2>1. \/ next = "spawn" /\ r.tool \in {"probe", "captions", "audio"}
        \/ next = "transcribe" /\ r.tool = "transcriber"
    BY <1>2
  <2>2. r.failed \in BOOLEAN /\ [r EXCEPT !.at = next] = [r EXCEPT !.at = next, !.failed = r.failed]
    BY <1>1 DEF IsCall, Fields
  <2>3. CallIsOwn([r EXCEPT !.at = next], child[c])
    <3> HIDE DEF r, next
    <3>1. CallIsOwn([r EXCEPT !.at = next, !.failed = r.failed], child[c])
      BY <1>1, <2>1, <2>2, ElsewhereOwn
    <3>2. QED
      BY <2>2, <3>1
  <2>4. QED
    BY <1>3, <1>5, <2>3, CallAlone DEF LookUp
<1>6. QED
  BY <1>4, <1>5

LEMMA TranscribeSoundStep ==
  ASSUME IInv, NEW c \in Calls, TranscribeSound(c)
  PROVE  IInv'
<1> DEFINE r == call[c]
<1>1. IsCall(r) /\ At(r) /\ Led(r) /\ r.at = "transcribe" /\ film \in Films
  BY DEF IInv, Types, CallIsOwn, TranscribeSound
<1>2. r.tool = "transcriber"
  BY <1>1 DEF At
<1>3. CallIsOwn(Produced(r, Heard[r.sound]), child[c])
  BY <1>1, <1>2, ProducedOwn
<1>4. QED
  BY <1>3, CallAlone DEF TranscribeSound

LEMMA TranscribeBadlyStep ==
  ASSUME IInv, NEW c \in Calls, TranscribeBadly(c)
  PROVE  IInv'
<1> DEFINE r == call[c]
<1>1. IsCall(r) /\ Led(r)
  BY DEF IInv, CallIsOwn, TranscribeBadly
<1>2. /\ CallIsOwn([Produced(r, None) EXCEPT !.failed = TRUE], child[c])
      /\ CallIsOwn([WithoutCues(r) EXCEPT !.failed = TRUE], child[c])
  BY <1>1, ProducedNothingOwn, FailedWithoutCuesOwn
<1>3. QED
  BY <1>2, CallAlone DEF TranscribeBadly, Fail

LEMMA KeepStep ==
  ASSUME IInv, NEW c \in Calls, Keep(c)
  PROVE  IInv'
<1> DEFINE r == call[c]
<1>1. /\ IsCall(r) /\ At(r) /\ Led(r) /\ KeptIsOwn(r) /\ r.at = "keep" /\ film \in Films
      /\ child = [child EXCEPT ![c] = child[c]] /\ DOMAIN child[c] = {"state", "output"}
  BY DEF IInv, Types, CallIsOwn, Keep
<1>2. r.tool \in {"captions", "transcriber"}
  BY <1>1 DEF At
<1>3. /\ r.tool = "captions" /\ r.calm => OwnTrack(r.track, r.words)
      /\ r.tool = "transcriber" => r.words = Heard[r.sound]
  BY <1>1, <1>2 DEF KeptIsOwn, Fresh, OwnSpeech
<1>4. CallIsOwn(Cues(r, r.words), child[c])
  <2> HIDE DEF r
  <2>1. QED
    BY <1>1, <1>2, <1>3, CuesOwn
<1>5. StoreIsOwn'
  BY PutOwn DEF Keep
<1>6. QED
  BY <1>1, <1>4, <1>5, CallStep DEF Keep

LEMMA StoreFailsStep ==
  ASSUME IInv, NEW c \in Calls, StoreFails(c)
  PROVE  IInv'
<1>1. IsCall(call[c]) /\ Led(call[c])
  BY DEF IInv, CallIsOwn, StoreFails
<1>2. CallIsOwn([WithoutCues(call[c]) EXCEPT !.failed = TRUE], child[c])
  BY <1>1, FailedWithoutCuesOwn
<1>3. QED
  BY <1>2, CallAlone DEF StoreFails, Fail

LEMMA CancelStep ==
  ASSUME IInv, NEW c \in Calls, Cancel(c)
  PROVE  IInv'
<1> DEFINE q == [Ready EXCEPT !.at = "cancelled"]
<1>1. CallIsOwn(q, child[c])
  BY DEF CallIsOwn, IsCall, At, ChildIsOwn, KeptIsOwn, AnswerIsOwn, Ready, Fields
<1>2. child = [child EXCEPT ![c] = child[c]] /\ DOMAIN child[c] = {"state", "output"}
  BY DEF IInv, Types
<1>3. StoreIsOwn'
  BY StoreStands, PutOwn DEF IInv, Cancel
<1>4. QED
  BY <1>1, <1>2, <1>3, CallStep DEF Cancel

(* An edit leaves no call calm that has begun, and no key that is fresh.   *)
LEMMA EditStep ==
  ASSUME IInv, Edit
  PROVE  IInv'
<1>1. Types'
  BY DEF IInv, Types, Edit
<1>2. stamp \in Nat /\ stamp' = stamp + 1 /\ store' = store
  BY DEF IInv, Types, Edit
<1>3. StoreIsOwn'
  <2>1. Readable' = Readable
    BY <1>2 DEF Readable
  <2>2. ASSUME NEW key \in Readable, NEW st \in Nat, NEW t, key = <<"captions", st, t>>
        PROVE  st <= stamp' /\ st # stamp'
    BY <1>2, <2>2 DEF IInv, StoreIsOwn
  <2>3. ASSUME NEW key \in Readable, NEW sound, key = <<"asr", sound>>
        PROVE  OwnSpeech(sound, store[key])'
    BY <1>2, <2>3 DEF IInv, StoreIsOwn, OwnSpeech
  <2>4. QED
    BY <1>2, <2>1, <2>2, <2>3 DEF StoreIsOwn, OwnSpeech
<1>4. ASSUME NEW c \in Calls PROVE CallIsOwn(call[c], child[c])'
  <2> DEFINE r == call[c]
             q == [r EXCEPT !.calm = r.calm /\ r.at \in {"ready", "cancelled"}]
  <2>1. call'[c] = q /\ child'[c] = child[c] /\ wired' = wired
    BY <1>4 DEF Edit
  <2>2. CallIsOwn(r, child[c]) /\ IsCall(r)
    BY <1>4 DEF IInv, CallIsOwn
  <2>3. /\ DOMAIN q = Fields /\ q.at = r.at /\ q.tool = r.tool /\ q.track = r.track
        /\ q.sound = r.sound /\ q.key = r.key /\ q.words = r.words /\ q.failed = r.failed
        /\ q.calm \in BOOLEAN /\ (q.at \notin {"ready", "cancelled"} => ~q.calm)
    BY <2>2 DEF IsCall, Fields
  <2> HIDE DEF q, r
  <2>4. IsCall(q) /\ At(q)
    BY <2>2, <2>3 DEF CallIsOwn, IsCall, At
  <2>5. IsCall(call[c])' /\ At(call[c])'
    BY <2>1, <2>4 DEF IsCall, At
  <2>6. CASE r.at \in {"ready", "cancelled", "answered"}
    <3>1. ChildIsOwn(call[c], child[c])' /\ KeptIsOwn(call[c])' /\ AnswerIsOwn(call[c])'
      BY <2>1, <2>3, <2>6 DEF ChildIsOwn, KeptIsOwn, AnswerIsOwn
    <3>2. QED
      BY <2>1, <2>3, <2>5, <2>6, <3>1 DEF CallIsOwn
  <2>7. CASE r.at \notin {"ready", "cancelled", "answered"}
    <3>1. Led(r) /\ ~q.calm /\ q.at \notin {"ready", "cancelled", "answered"}
      BY <2>2, <2>3, <2>7 DEF CallIsOwn
    <3>2. r.tool = "captions" => r.key # <<"captions", stamp', r.track>>
      BY <1>2, <3>1 DEF Led, NoKey
    <3>3. Led(call[c])'
      <4>1. r.tool = "captions" /\ r.key # NoKey =>
              \E st \in Nat : st <= stamp' /\ r.key = <<"captions", st, r.track>>
        BY <1>2, <3>1 DEF Led
      <4>2. QED
        BY <2>1, <2>3, <3>1, <4>1 DEF Led, CaptionsTried
    <3>4. /\ call'[c].at = r.at /\ call'[c].tool = r.tool /\ ~call'[c].calm
          /\ r.tool = "captions" => call'[c].key # <<"captions", stamp', call'[c].track>>
      BY <2>1, <2>3, <3>1, <3>2
    <3>5. ChildIsOwn(call[c], child[c])'
      <4>1. r.at = "wait" => child'[c].state \in {"running", "exited", "failed"}
        BY <2>1, <2>2 DEF CallIsOwn, ChildIsOwn
      <4>2. r.at = "wait" => r.tool \in {"probe", "captions", "audio"}
        BY <2>2 DEF CallIsOwn, At
      <4>3. QED
        BY <3>4, <4>1, <4>2 DEF ChildIsOwn, Fresh, CaptionKey
    <3>6. KeptIsOwn(call[c])' /\ AnswerIsOwn(call[c])'
      <4>1. r.at = "keep" /\ r.tool = "transcriber" =>
              call'[c].words = Heard[call'[c].sound] /\ call'[c].words # None
        BY <2>1, <2>2, <2>3 DEF CallIsOwn, KeptIsOwn, OwnSpeech
      <4>2. QED
        BY <3>4, <4>1 DEF KeptIsOwn, AnswerIsOwn, Fresh, CaptionKey, OwnSpeech
    <3>7. QED
      BY <2>5, <3>3, <3>5, <3>6 DEF CallIsOwn
  <2>8. QED
    BY <2>6, <2>7
<1>5. QED
  BY <1>1, <1>3, <1>4 DEF IInv

LEMMA NextIInv == IInv /\ [Next]_vars => IInv'
<1> SUFFICES ASSUME IInv, [Next]_vars PROVE IInv'
  OBVIOUS
<1>1. CASE UNCHANGED vars
  <2>1. Types' /\ StoreIsOwn'
    BY <1>1, StoreStands DEF IInv, Types, vars
  <2>2. \A c \in Calls : CallIsOwn(call'[c], child'[c])
    BY <1>1 DEF IInv, vars
  <2>3. QED
    BY <1>1, <2>1, <2>2, EnvironmentStands DEF IInv, vars
<1>2. ASSUME NEW c \in Calls, Proceed(c) PROVE IInv'
  BY <1>2, SpawnStep, HearStep, TimeOutStep, ReapStep, LookUpStep, TranscribeSoundStep,
     KeepStep DEF Proceed
<1>3. ASSUME NEW c \in Calls, GoWrong(c) PROVE IInv'
  BY <1>3, SpawnFailsStep, ExitBadlyStep, TranscribeBadlyStep, StoreFailsStep DEF GoWrong
<1>4. QED
  BY <1>1, <1>2, <1>3, EditStep, ReadTranscriptStep, ExitStep, CancelStep DEF Next

----------------------------------------------------------------------------
(* Theorems                                                                *)

LEMMA Invariance == Spec => []IInv
<1>1. Spec => Init /\ [][Next]_vars
  BY PTL DEF Spec
<1>2. QED
  BY <1>1, InitIInv, NextIInv, PTL

(* The only failures that an answer shows are those of its own call, and   *)
(* never an entry that another call, another process or another edition of *)
(* the film left in the store.                                             *)
THEOREM WordsAreOwn == Spec => []AnswersAreOwn
<1>1. IInv => AnswersAreOwn
  BY DEF IInv, CallIsOwn, AnswerIsOwn, Words, AnswersAreOwn
<1>2. QED
  BY <1>1, Invariance, PTL

(* Calls meet in the store alone: what it answers under the key of the     *)
(* film as it is now are the words of a text track of that film, and under *)
(* the key of a sound what a transcriber hears in that sound.              *)
THEOREM KeptWordsAreOwn == Spec => []StoreIsOwn
<1>1. IInv => StoreIsOwn
  BY DEF IInv
<1>2. QED
  BY <1>1, Invariance, PTL

=============================================================================
