------------------------------ MODULE Composition ------------------------------
(***************************************************************************)
(* What type a file is of (adapters/detection.py, adapters/ooxml.py),      *)
(* which handlers a deployment has and which of them reads a file          *)
(* (composition.py, registry/, adapters/probing.py, adapters/model_probe). *)
(* A deployment is                                                         *)
(*   [packages, vision, transcriber, renderer, binaries, probed, given]:   *)
(* the Python packages and the binaries that are installed; whether there  *)
(* is a vision model and a transcriber; the renderer asked for, "default", *)
(* "null" or "own"; whether binaries are probed for; and the capabilities  *)
(* that the caller gives, or Discover for none given.                      *)
(***************************************************************************)
EXTENDS HandlerAnswers

CONSTANTS AlphabetSize, ListedCells, ListedPages, MinCueSpan

Pdf == INSTANCE PdfHandler
Slides == INSTANCE SlidesHandler
Sheets == INSTANCE SheetsHandler
Word == INSTANCE WordHandler
Legacy == INSTANCE LegacyHandler
Html == INSTANCE HtmlHandler
Book == INSTANCE EpubHandler
Image == INSTANCE ImageHandler
Audio == INSTANCE AudioHandler
Archive == INSTANCE ArchiveHandler
Plain == INSTANCE PlainHandlers

(* What type a file is of (adapters/detection.py, adapters/ooxml.py), from *)
(* the evidence in its first bytes and its name:                           *)
(*   empty, ftyp      no bytes at all; the box of the mp4 family           *)
(*   parts            the names of the entries of a zip, in order, of the  *)
(*                    kinds "mimetype", "word/", "ppt/", "xl/" or "other"  *)
(*   declared         what a stored first entry "mimetype" holds           *)
(*   signatures       what the bytes match: [type, sure], best first       *)
(*   guess            the type of the name's extension, None for no guess  *)
(*   utf8, control    the bytes decode; they hold control characters       *)

None == "none"
OctetStream == "application/octet-stream"

AudioTypes == {"audio/mp4", "audio/wav"}
Mp4Family == {"video/mp4", "audio/mp4"}

OdfTypes == {"odt", "odp", "ods"}
OoxmlPrefixes == [p \in {"word/", "ppt/", "xl/"} |->
  CASE p = "word/" -> "docx" [] p = "ppt/" -> "pptx" [] p = "xl/" -> "xlsx"]

(* Mutant of OfficeMimetype: the last entry of a known kind decides.       *)
OfficeMimetypeLast(e) ==
  LET known == SelectSeq(e.parts, LAMBDA p : p \in DOMAIN OoxmlPrefixes)
  IN  CASE e.parts = <<>> -> None
        [] e.parts # <<>> /\ Head(e.parts) = "mimetype" /\ e.declared \in OdfTypes ->
             e.declared
        [] e.parts # <<>> /\ ~(Head(e.parts) = "mimetype" /\ e.declared \in OdfTypes) ->
             IF known = <<>> THEN None ELSE OoxmlPrefixes[Last(known)]

(* What a zip declares in its first entry, or what its first entry of a    *)
(* known kind says.                                                        *)
OfficeMimetype(e) ==
  LET known == SelectSeq(e.parts, LAMBDA p : p \in DOMAIN OoxmlPrefixes)
  IN  CASE e.parts = <<>> -> None
        [] e.parts # <<>> /\ Head(e.parts) = "mimetype" /\ e.declared \in OdfTypes ->
             e.declared
        [] e.parts # <<>> /\ ~(Head(e.parts) = "mimetype" /\ e.declared \in OdfTypes) ->
             IF known = <<>> THEN None ELSE OoxmlPrefixes[Head(known)]

(* Of one family of signatures the extension alone can tell sound from     *)
(* pictures.                                                               *)
Signature(e) ==
  LET sure == SelectSeq(e.signatures, LAMBDA s : s.sure)
  IN  CASE sure = <<>> -> None
        [] sure # <<>> /\ Head(sure).type \in Mp4Family /\ e.guess \in AudioTypes -> e.guess
        [] sure # <<>> /\ ~(Head(sure).type \in Mp4Family /\ e.guess \in AudioTypes) ->
             Head(sure).type

(* Mutant of Detect: the name is believed before the signature.            *)
DetectByName(e) ==
  CASE e.empty -> OctetStream
    [] ~e.empty /\ e.ftyp -> IF e.guess \in AudioTypes THEN e.guess ELSE "video/mp4"
    [] ~e.empty /\ ~e.ftyp ->
         LET said == SelectSeq(<<OfficeMimetype(e), e.guess, Signature(e)>>,
                               LAMBDA type : type # None)
         IN  CASE said # <<>> -> Head(said)
               [] said = <<>> /\ e.utf8 /\ ~e.control -> "text/plain"
               [] said = <<>> /\ ~(e.utf8 /\ ~e.control) -> OctetStream

(* The first of the kinds of evidence that says anything.                  *)
Detect(e) ==
  CASE e.empty -> OctetStream
    [] ~e.empty /\ e.ftyp -> IF e.guess \in AudioTypes THEN e.guess ELSE "video/mp4"
    [] ~e.empty /\ ~e.ftyp ->
         LET said == SelectSeq(<<OfficeMimetype(e), Signature(e), e.guess>>,
                               LAMBDA type : type # None)
         IN  CASE said # <<>> -> Head(said)
               [] said = <<>> /\ e.utf8 /\ ~e.control -> "text/plain"
               [] said = <<>> /\ ~(e.utf8 /\ ~e.control) -> OctetStream

----------------------------------------------------------------------------
Discover == {"discover"}

Exact(type) == [form |-> "exact", of |-> type]
Kind(kind) == [form |-> "kind", of |-> kind]
Fallback == [form |-> "*", of |-> "*"]

KindOf(type) ==
  CASE type \in {"text/plain", "text/html"} -> "text"
    [] type \in {"image/png"} -> "image"
    [] type \in {"video/mp4"} -> "video"
    [] type \in AudioTypes -> "audio"
    [] OTHER -> "binary"

(* A smaller rank is a closer match, and Unmatched is none.                *)
Unmatched == 5

MatchPattern(pattern, type) ==
  CASE pattern.form = "exact" /\ pattern.of = type -> 0
    [] pattern.form = "kind" /\ pattern.of = KindOf(type) -> 3
    [] pattern.form = "*" -> 4
    [] OTHER -> Unmatched

(* Off, the caller's own, or the one that is there if soffice is.          *)
RendererToWire(d) == d.renderer \in {"default", "own"}

(* What the handlers are given by the deployment.                          *)
Has(d) ==
  When(d.vision, {"vision", "recognizer"}) \cup When(d.transcriber, {"transcriber"})
    \cup When(RendererToWire(d), {"renderer"}) \cup (d.packages \cap {"pillow"})

(* A handler: its types, what it needs, and the needs of what it declares. *)
Handler(id, patterns, requires, names, needs(_)) ==
  [id |-> id, patterns |-> patterns, requires |-> requires,
   declares |-> [name \in names |-> needs(name)]]

Free(name) == {}

OptionalImageHandler(d) ==
  IF "pillow" \notin d.packages THEN <<>>
  ELSE <<Handler("image", {Kind("image")}, {}, Image!Affordances(Has(d)), Image!Requires)>>

OptionalPdfHandler(d) ==
  IF "pdfium" \notin d.packages THEN <<>>
  ELSE <<Handler("pdf", {Exact("application/pdf")}, {}, Pdf!Affordances(Has(d)),
                 Pdf!Requires)>>

(* Each of the three comes with its own package.                           *)
OptionalOfficeHandlers(d) ==
  LET word == Handler("office_word", {Exact("docx"), Exact("odt")}, {},
                      Word!Affordances(Has(d)), Word!PageImageRequires)
      slides == Handler("office_slides", {Exact("pptx"), Exact("odp")}, {},
                        Slides!Affordances(Has(d)), Slides!Requires)
      sheets == Handler("office_sheets", {Exact("xlsx"), Exact("ods")}, {},
                        Sheets!Affordances(Has(d)), Sheets!PageImageRequires)
      installed(package, handler) == IF package \in d.packages THEN <<handler>> ELSE <<>>
  IN  installed("docx", word) \o installed("pptx", slides) \o installed("openpyxl", sheets)

LegacyHandlers(d) ==
  IF ~RendererToWire(d) THEN <<>>
  ELSE <<Handler("office_legacy", {Exact("doc")}, {"document_render"},
                 Legacy!Affordances, Legacy!Requires)>>

(* No watcher is given: of the video handler what else it declares.        *)
VideoHandlers(d) ==
  <<Handler("video", {Kind("video")}, {"ffmpeg"},
            {"frame_at", "read_transcript"}
              \cup When(d.vision, {"describe_frame", "ask_about_image"}),
            LAMBDA name : {"ffmpeg"}
              \cup When(name \in {"describe_frame", "ask_about_image"}, {"vision"}))>>

AudioHandlers(d) ==
  <<Handler("audio", {Kind("audio")}, {"ffmpeg"}, Audio!Affordances(Has(d)),
            Audio!Requires)>>

AllHandlers(d) ==
  <<Handler("text", {Kind("text")}, {}, Plain!Affordances, Free),
    Handler("html", {Exact("text/html")}, {}, Html!Affordances, Free),
    Handler("epub", {Exact("epub")}, {}, Book!Affordances, Free)>>
  \o OptionalImageHandler(d) \o OptionalPdfHandler(d) \o OptionalOfficeHandlers(d)
  \o LegacyHandlers(d) \o VideoHandlers(d) \o AudioHandlers(d)
  \o <<Handler("archive", {Exact("zip")}, {}, Archive!Affordances, Free),
       Handler("binary", {Fallback}, {}, Plain!BinaryAffordances, Free)>>

(* What any of the handlers could use, and so is looked for.               *)
CapabilitiesHandlersCanUse(handlers) ==
  UNION {handlers[i].requires : i \in DOMAIN handlers}
    \cup UNION {UNION {handlers[i].declares[n] : n \in DOMAIN handlers[i].declares} :
                 i \in DOMAIN handlers}

(* The models that were injected, and then the binaries that are there.    *)
ModelProbe(d) == When(d.vision, {"vision"}) \cup When(d.transcriber, {"asr"})
BinaryProbe(d) ==
  When("ffmpeg" \in d.binaries, {"ffmpeg"})
    \cup When("soffice" \in d.binaries, {"document_render"})

Discovered(d, wanted) ==
  wanted \cap (ModelProbe(d) \cup (IF d.probed THEN BinaryProbe(d) ELSE {}))

(* A renderer of the caller's own is declared: no probe would find it.     *)
Capabilities(d) ==
  IF d.given # Discover THEN d.given
  ELSE Discovered(d, CapabilitiesHandlersCanUse(AllHandlers(d)))
         \cup When(d.renderer = "own", {"document_render"})

(* The handlers whose needs are met.                                       *)
Handlers(d) ==
  LET capabilities == Capabilities(d)
  IN  SelectSeq(AllHandlers(d), LAMBDA h : h.requires \subseteq capabilities)

(* The closest match, and of those the first: all priorities are alike.    *)
Closest(handlers, type) ==
  LET rank(i) == Min({MatchPattern(p, type) : p \in handlers[i].patterns})
      claims == {i \in DOMAIN handlers : rank(i) # Unmatched}
      best == {i \in claims : \A j \in claims : rank(i) <= rank(j)}
  IN  handlers[Min(best)]

Resolve(d, type) == Closest(Handlers(d), type)

AvailableAffordances(d, handler) ==
  LET capabilities == Capabilities(d)
  IN  {name \in DOMAIN handler.declares : handler.declares[name] \subseteq capabilities}

=============================================================================
