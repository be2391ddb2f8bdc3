------------------------------ MODULE MCCachedWords ------------------------------
(* Bounds for CachedWords: films with captions behind a bitmap track, with  *)
(* a caption track that says nothing, without captions, with and without    *)
(* speech, and one that is not there.                                       *)
EXTENDS CachedWords

Film(tracks, sound) == [exists |-> TRUE, tracks |-> tracks, sound |-> sound]

SomeFilms ==
  {Film(<<"bitmap", "written">>, "speech"), Film(<<"blank">>, "speech"),
   Film(<<>>, "music"), [exists |-> FALSE, tracks |-> <<>>, sound |-> None]}

SomeHeard == [sound \in {"speech", "music"} |-> IF sound = "speech" THEN "spoken" ELSE None]

SomeWirings ==
  {{"captions", "cache", "audio", "transcriber"}, {"captions"}, {"captions", "audio", "transcriber"}}

SomeOldKeys == {<<"asr", "speech">>}

=============================================================================
