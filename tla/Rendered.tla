------------------------------ MODULE Rendered ------------------------------
(***************************************************************************)
(* A file flattened to text, with the map from each character back to the  *)
(* place it came from (domain/locator_map.py, domain/rendition.py), and    *)
(* the cut of both to a budget (the _fit of the handlers).                 *)
(*                                                                         *)
(* A segment is [start, end, locator], of the characters start .. end - 1  *)
(* counted from 0; a text is a sequence of anything.                       *)
(***************************************************************************)
EXTENDS Integers, Sequences, SequencesExt, FiniteSets

CONSTANT Unlimited  (* the budget without max_chars                        *)

(* The members of a finite set, each behind those that come before it.     *)
InOrder(S, Before(_, _)) ==
  [k \in 1 .. Cardinality(S) |->
    CHOOSE x \in S : Cardinality({y \in S : Before(y, x)}) = k - 1]

(* What seq has at these places.                                           *)
Those(seq, places) ==
  LET place == InOrder(places, <)
  IN  [k \in DOMAIN place |-> seq[place[k]]]

(* What LocatorMap.build accepts.                                          *)
IsMap(segments) ==
  /\ segments # <<>>
  /\ segments[1].start = 0
  /\ \A i \in DOMAIN segments : segments[i].start < segments[i].end
  /\ \A i \in 1 .. Len(segments) - 1 : segments[i].end = segments[i + 1].start

MapLength(segments) == segments[Len(segments)].end

(* The segment of a character: bisect_right of the starts, less one.       *)
SegmentAt(segments, offset) ==
  SelectLastInSeq(segments, LAMBDA s : s.start <= offset)

(* What Rendered accepts: the map is of this text, and the barriers are    *)
(* inside it and in order.                                                 *)
IsRendered(r) ==
  /\ IsMap(r.segments)
  /\ MapLength(r.segments) = Len(r.text)
  /\ \A i \in DOMAIN r.barriers : r.barriers[i] \in 0 .. Len(r.text)
  /\ \A i \in 1 .. Len(r.barriers) - 1 : r.barriers[i] < r.barriers[i + 1]

Whole(text, segments, barriers, degradations) ==
  [text |-> text, segments |-> segments, barriers |-> barriers,
   degradations |-> degradations]

(* Mutant of Pruned: the segment that the cut falls before is kept.        *)
PrunedLate(segments, keep) ==
  LET kept == Those(segments, {i \in DOMAIN segments : segments[i].start <= keep})
  IN  [k \in DOMAIN kept |-> [kept[k] EXCEPT !.end = IF @ < keep THEN @ ELSE keep]]

(* The characters kept of each segment that has any.                       *)
Pruned(segments, keep) ==
  LET kept == Those(segments, {i \in DOMAIN segments : segments[i].start < keep})
  IN  [k \in DOMAIN kept |-> [kept[k] EXCEPT !.end = IF @ < keep THEN @ ELSE keep]]

(* Cut to a budget, of which one character is always kept.                 *)
Fit(text, segments, barriers, budget, degradations) ==
  IF budget = Unlimited \/ Len(text) <= budget
  THEN Whole(text, segments, barriers, degradations)
  ELSE LET keep == IF budget < 1 THEN 1 ELSE budget
       IN  Whole(SubSeq(text, 1, keep), Pruned(segments, keep),
                 Those(barriers, {i \in DOMAIN barriers : barriers[i] < keep}),
                 Append(degradations, [what |-> "text truncated", of |-> {}]))

----------------------------------------------------------------------------
(* What happens when, in a media file: the moments sampled of it, the cues *)
(* of its words, and the spans of time both are given (domain/timeline.py, *)
(* and the helpers of handlers/video.py).                                  *)
(*                                                                         *)
(* Time is counted in ticks of _OVERFLOW_EPSILON_S, so the width of a span *)
(* is a good many of them.  A cue is a record with at least the fields     *)
(* start and end.                                                          *)

Epsilon == 1

Lesser(a, b) == IF a < b THEN a ELSE b
Greater(a, b) == IF a < b THEN b ELSE a

(* The first moment, and then one every interval inside the file.          *)
SampleTimes(duration, interval) ==
  [i \in 1 .. Greater(1, (duration + interval - 1) \div interval) |-> (i - 1) * interval]

(* The cues that start inside the file, cut to its end.  Those it has no   *)
(* room for are dropped.                                                   *)
Clamped(cues, duration) ==
  LET kept == Those(cues, {i \in DOMAIN cues : cues[i].start < duration})
  IN  [k \in DOMAIN kept |-> [kept[k] EXCEPT !.end = Lesser(@, duration)]]

Dropped(cues, duration) == Cardinality({i \in DOMAIN cues : duration <= cues[i].start})

(* Moments and cues in the order of their times: a moment before the cues  *)
(* of its instant, and those as they were given.  cue is 0 for a moment.   *)
Merge(times, cues) ==
  InOrder(
    {[at |-> times[i], cue |-> 0] : i \in DOMAIN times}
      \cup {[at |-> cues[j].start, cue |-> j] : j \in DOMAIN cues},
    LAMBDA a, b : a.at < b.at \/ (a.at = b.at /\ a.cue < b.cue))

(* Mutant of Forced: the starts go on past the end by whole widths.        *)
ForcedPastEnd(starts, duration, width) ==
  LET forced[i \in DOMAIN starts] ==
        IF i = 1 THEN 0 ELSE Greater(starts[i], forced[i - 1] + width)
  IN  forced

(* The starts, forced apart by width, or by Epsilon where the file ends.   *)
Forced(starts, duration, width) ==
  LET forced[i \in DOMAIN starts] ==
        IF i = 1 THEN 0
        ELSE LET wanted == Lesser(Greater(starts[i], forced[i - 1] + width), duration)
             IN  IF wanted > forced[i - 1] THEN wanted ELSE forced[i - 1] + Epsilon
  IN  forced

(* One span for each start, from there to the next: without a gap, and     *)
(* from 0 to the end of the file, or as near to it as a last width allows. *)
Tile(starts, duration, width) ==
  LET forced == Forced(starts, duration, width)
  IN  [i \in DOMAIN starts |->
        [start |-> forced[i],
         end |-> IF i < Len(starts) THEN forced[i + 1]
                 ELSE Lesser(Greater(duration, forced[i] + width), duration + width)]]

(* The span a time falls in: the last to start at or before it.            *)
Bucket(time, spans) ==
  Greater(1, SelectLastInSeq(spans, LAMBDA span : span.start <= time))

=============================================================================
