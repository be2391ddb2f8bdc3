------------------------------ MODULE ImageHandler ------------------------------
(***************************************************************************)
(* Pictures (handlers/image.py and handlers/regions.py).  A picture is     *)
(* [size, decodable].  has: a subset of {"vision"}; said: how it answers.  *)
(***************************************************************************)
EXTENDS HandlerAnswers

WholeImage == BBox(0, Frame)

(* A region that leaves the picture is refused before it gets here.        *)
IsWholeFrame(region) == region = Frame
RegionBbox(region) == BBox(0, region)

Affordances(has) ==
  {"crop_region"} \cup When("vision" \in has, {"describe_image", "ocr", "ask_about_image"})

(* What an affordance needs the deployment to be capable of.               *)
Requires(name) == When(name # "crop_region", {"vision"})

Describe(image, has) ==
  Card(image.decodable, IF image.decodable THEN <<WholeImage>> ELSE <<>>, Affordances(has))

(* What the model says of the file, which it is given as it is: no answer  *)
(* is a failure.                                                           *)
See(said, place) ==
  IF said = "words" THEN Located(place, Words) ELSE Raised("InfrastructureError")

CropRegion(image, ask) ==
  IF image.decodable THEN Located(RegionBbox(ask.region), Words)
  ELSE Raised("DomainError")

AskAboutImage(image, ask, said) ==
  IF ~IsWholeFrame(ask.region) /\ ~image.decodable THEN Raised("DomainError")
  ELSE See(said, RegionBbox(ask.region))

Invoke(image, ask, has, said) ==
  CASE ask.name \notin Affordances(has) -> Raised("UnknownAffordance")
    [] ask.name = "crop_region" -> CropRegion(image, ask)
    [] ask.name \in {"describe_image", "ocr"} /\ "vision" \in has -> See(said, WholeImage)
    [] ask.name = "ask_about_image" /\ "vision" \in has -> AskAboutImage(image, ask, said)

(* All of the text is of the whole picture.                                *)
Rendition(full, budget, degradations) ==
  Built(Fit(full, Mapped(<<full>>, <<WholeImage>>), <<>>, budget, degradations))

(* A picture that does not decode is not shown to the model.               *)
Represent(image, budget, has, said) ==
  LET seen == "vision" \in has /\ said = "words"
  IN  CASE ~image.decodable ->
             Rendition(Summary, budget, <<Degradation("image undecodable")>>)
        [] image.decodable /\ ~seen ->
             Rendition(Summary, budget, <<Degradation("vision unavailable")>>)
        [] image.decodable /\ seen ->
             Rendition(Summary \o <<Glue>> \o Words, budget, <<>>)

=============================================================================
