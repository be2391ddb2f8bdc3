-------------------------------- MODULE MCReading --------------------------------
(* Bounds for Reading: files of every kind, some with every flaw that their *)
(* readers know of, in deployments that have all, little, or a mixture.     *)
EXTENDS Reading, TLC

Page(n, mark) == Char(PageRef(n), mark)
Of(place) == <<Char(place, 1)>>

(* What a file is detected from: nothing says anything, and then something.*)
Silent == [empty |-> FALSE, ftyp |-> FALSE, parts |-> <<>>, declared |-> None,
           signatures |-> <<>>, guess |-> None, utf8 |-> FALSE, control |-> FALSE]
Sure(type) == [type |-> type, sure |-> TRUE]
Unsure(type) == [type |-> type, sure |-> FALSE]

Signed(type) == [Silent EXCEPT !.signatures = <<Unsure("zip"), Sure(type)>>]
Zipped(parts, declared) ==
  [Silent EXCEPT !.parts = parts, !.declared = declared, !.signatures = <<Sure("zip")>>]
Named(type) == [Silent EXCEPT !.guess = type, !.utf8 = TRUE]
Misnamed(evidence, type) == [evidence EXCEPT !.guess = type]

Bytes == [i \in 1 .. 3 |-> Char(ByteRange(i - 1, i), 1)]

File(of, evidence, doc) ==
  [of |-> of, evidence |-> evidence, doc |-> doc, bytes |-> Bytes]

----------------------------------------------------------------------------
(* A page in two rows; more pages that are scanned than a report names.     *)
PdfPages ==
  <<[text |-> <<Page(1, 1), Page(1, 2)>>, objects |-> TRUE],
    [text |-> <<Space(PageRef(2))>>, objects |-> TRUE],
    [text |-> <<>>, objects |-> FALSE],
    [text |-> <<Page(4, 1)>>, objects |-> TRUE],
    [text |-> <<>>, objects |-> TRUE],
    [text |-> <<>>, objects |-> TRUE]>>

PdfFiles ==
  {File("pdf", Misnamed(Signed("application/pdf"), "text/plain"), doc) :
     doc \in {[opens |-> TRUE, size |-> 3, pages |-> PdfPages],
              [opens |-> TRUE, size |-> 3, pages |-> <<>>],
              [opens |-> FALSE, size |-> 3, pages |-> <<>>]}}

Slide(n, body, notes, pictures) ==
  [title |-> Of(PageRef(n)), body |-> body, notes |-> notes, pictures |-> pictures]

Deck(odf, opens, slides) ==
  [odf |-> odf, opens |-> opens, size |-> 3, converted |-> Len(slides), slides |-> slides]

SomeSlides ==
  <<Slide(1, <<<<Page(1, 2)>>, <<>>>>, <<>>, <<"embedded">>),
    [title |-> <<>>, body |-> <<>>, notes |-> <<>>, pictures |-> <<>>],
    Slide(3, <<>>, <<Page(3, 2)>>, <<"linked", "embedded">>)>>

SlidesFiles ==
  {File("pptx", Zipped(<<"other", "ppt/">>, None), Deck(FALSE, TRUE, SomeSlides)),
   File("pptx", Zipped(<<"ppt/">>, None), Deck(FALSE, TRUE, <<>>)),
   File("odp", Zipped(<<"mimetype", "other">>, "odp"), Deck(TRUE, TRUE, SomeSlides)),
   File("odp", Zipped(<<"mimetype", "ppt/">>, "odp"), Deck(TRUE, FALSE, <<>>))}

Held(sheet, r, c) == [value |-> <<Char(CellRange(sheet, r, c, 1, 1), r + c + 1)>>,
                      formula |-> <<>>]
Uncomputed(sheet, r, c) == [value |-> <<>>, formula |-> Held(sheet, r, c).value]
Empty == [value |-> <<>>, formula |-> <<>>]

(* Four columns, so that the last has a name of two letters.                *)
SomeSheets ==
  <<[name |-> "s", stated |-> [rows |-> 2, cols |-> 4],
     rows |-> <<<<Held("s", 0, 0), Empty, Uncomputed("s", 0, 2), Held("s", 0, 3)>>,
                <<Empty, Empty, Held("s", 1, 2), Uncomputed("s", 1, 3)>>>>],
    [name |-> "t", stated |-> [rows |-> 0, cols |-> 0], rows |-> <<>>],
    [name |-> "u", stated |-> [rows |-> 1, cols |-> 1], rows |-> <<<<Uncomputed("u", 0, 0)>>>>]>>

Book1(odf, opens, sheets) ==
  [odf |-> odf, opens |-> opens, size |-> 3, converted |-> 1, sheets |-> sheets]

SheetsFiles ==
  {File("xlsx", Misnamed(Zipped(<<"xl/", "word/">>, None), "docx"),
        Book1(FALSE, TRUE, SomeSheets)),
   File("xlsx", Zipped(<<"xl/">>, None), Book1(FALSE, TRUE, <<>>)),
   File("xlsx", Zipped(<<"xl/">>, None), Book1(FALSE, FALSE, <<>>)),
   File("ods", Zipped(<<"mimetype">>, "ods"), Book1(TRUE, TRUE, SomeSheets))}

Block(kind, start, end) ==
  [kind |-> kind, text |-> [i \in 1 .. end - start |-> Char(CharSpan(start + i - 1, start + i), 1)]]

Document(odf, opens, blocks, comments) ==
  [odf |-> odf, opens |-> opens, size |-> 3, converted |-> 2, blocks |-> blocks,
   comments |-> comments]

(* Text before the first heading, and a section with a table.  The places   *)
(* are those in the text: a line break in a section, and two after it.      *)
Blocks ==
  <<Block("text", 0, 1), Block("heading", 3, 4), Block("text", 5, 7),
    Block("table", 8, 9), Block("heading", 11, 12)>>

WordFiles ==
  {File("docx", Zipped(<<"other", "word/", "xl/">>, None),
        Document(FALSE, TRUE, Blocks, <<"a comment">>)),
   File("docx", Zipped(<<"word/">>, None), Document(FALSE, TRUE, <<>>, <<>>)),
   File("odt", Zipped(<<"mimetype">>, "odt"), Document(TRUE, TRUE, Blocks, <<>>)),
   File("odt", Zipped(<<"mimetype">>, "odt"), Document(TRUE, TRUE, <<>>, <<>>))}

LegacyFiles ==
  {File("doc", Named("doc"), [size |-> 3, converted |-> 2, broken |-> FALSE,
                              pages |-> <<Of(PageRef(1)), <<>>>>]),
   File("doc", Signed("doc"), [size |-> 3, converted |-> 0, broken |-> TRUE, pages |-> <<>>])}

----------------------------------------------------------------------------
Tag(kind, tag) == [kind |-> kind, tag |-> tag, chars |-> <<>>, width |-> 2]
Data(marks) == [kind |-> "text", tag |-> "", width |-> Len(marks),
                chars |-> [i \in DOMAIN marks |-> [mark |-> marks[i], width |-> 1]]]
Entity == [kind |-> "text", tag |-> "", width |-> 3, chars |-> <<[mark |-> 1, width |-> 3]>>]

(* Text before any tag, a script between two blocks, an entity, a heading, *)
(* a word in bold.                                                          *)
Prose1 ==
  <<Data(<<1, 0, 0, 1>>), Tag("start", "p"), Data(<<0, 1, 0>>), Tag("start", "script"),
    Data(<<1, 1>>), Tag("end", "script"), Data(<<0>>), Tag("start", "h1"), Entity,
    Tag("end", "h1"), Tag("start", "p"), Data(<<1, 0>>), Tag("start", "b"), Data(<<1>>),
    Tag("end", "b"), Tag("end", "p")>>
Prose2 == <<Tag("start", "title"), Data(<<1>>), Tag("end", "title"), Tag("start", "p"),
            Data(<<1, 1>>), Tag("start", "p"), Entity>>
Prose3 == <<Tag("start", "script"), Data(<<1>>), Tag("end", "script")>>

HtmlFiles ==
  {File("page", Named("text/html"), [size |-> 3, source |-> source]) :
     source \in {Prose1, Prose3}}

Volume(flaw, spine, ncx) ==
  [flaw |-> flaw, size |-> 3, spine |-> spine,
   manifest |-> [id \in {"1", "2", "3"} |->
                  CASE id = "1" -> "a" [] id = "2" -> "b" [] id = "3" -> "c"],
   parts |-> [name \in {"a", "b", "c"} |->
               CASE name = "a" -> Prose3 [] name = "b" -> Prose2 [] name = "c" -> Prose1],
   ncx |-> ncx, nav |-> [broken |-> TRUE, entries |-> <<>>]]

Contents == [broken |-> FALSE, entries |-> << <<"b", "x">>, <<"b", "y">> >>]

(* A part without text first, or last; in a reading order with a stranger.  *)
EpubFiles ==
  {File("book", Signed("epub"), Volume("none", spine, Contents)) :
     spine \in {<<"1", "2", "4", "3">>, <<"3", "2", "1">>, <<"1">>}}
    \cup {File("book", Signed("epub"), Volume("encrypted", <<"1", "2">>, Contents))}

(* A part without text between two others.                                  *)
PlateInTheMiddle ==
  {File("book", Signed("epub"), Volume("none", <<"2", "1", "3">>, Contents))}

----------------------------------------------------------------------------
ImageFiles ==
  {File("picture", Misnamed(Signed("image/png"), name),
        [size |-> 3, decodable |-> decodable]) :
     name \in {"text/plain", "image/png"}, decodable \in BOOLEAN}

Entry(offset, compressed) == [offset |-> offset, compressed |-> compressed]

ArchiveFiles ==
  {File("archive", evidence, [size |-> 9, listable |-> listable, entries |-> entries]) :
     evidence \in {Misnamed(Zipped(<<"other">>, None), "docx")},
     listable \in BOOLEAN,
     entries \in {<<>>, <<Entry(0, 4), Entry(4, 0)>>, <<Entry(-1, 4), Entry(-1, 2)>>}}

Cue(start, end, mark) ==
  [start |-> start, end |-> end, text |-> <<Char(TimeSpan(start, end), mark)>>]

(* Words at one instant, words that run past the end, and words beyond it.  *)
SomeCues ==
  {<<>>, <<Cue(0, 5, 1), Cue(6, 9, 1), Cue(6, 12, 1), Cue(11, 14, 1)>>, <<Cue(11, 14, 1)>>}

Sound(reachable, probed, duration, streams, track, cues) ==
  [size |-> 3, reachable |-> reachable, probed |-> probed, duration |-> duration,
   streams |-> streams, track |-> track, cues |-> cues]

AudioFiles ==
  {File("sound", [Silent EXCEPT !.ftyp = TRUE, !.guess = "audio/mp4"],
        Sound(TRUE, TRUE, 10, 1, TRUE, cues)) : cues \in SomeCues}
    \cup {File("sound", Signed("audio/wav"), doc) :
            doc \in {Sound(TRUE, TRUE, 10, 1, FALSE, <<>>), Sound(TRUE, TRUE, 10, 0, FALSE, <<>>),
                     Sound(TRUE, FALSE, 0, 0, FALSE, <<>>), Sound(FALSE, FALSE, 0, 0, FALSE, <<>>)}}

TextFiles ==
  {File("text", Named(None), [text |-> [i \in 1 .. 3 |-> Char(CharSpan(i - 1, i), 1)]]),
   File("text", Named("text/plain"), [text |-> <<>>])}

DataFiles ==
  {File("data", Silent, [bytes |-> Bytes]),
   File("data", [Silent EXCEPT !.empty = TRUE, !.guess = "application/pdf"], [bytes |-> <<>>])}

(* Text that is called a document, and an archive with a folder "word".     *)
DisguisedFiles ==
  {File("text", Named("application/pdf"), [opens |-> FALSE, size |-> 3, pages |-> <<>>]),
   File("archive", Zipped(<<"word/">>, None), Document(FALSE, FALSE, <<>>, <<>>))}

SomeFiles ==
  UNION {PdfFiles, SlidesFiles, SheetsFiles, WordFiles, LegacyFiles, HtmlFiles, EpubFiles,
         ImageFiles, ArchiveFiles, AudioFiles, TextFiles, DataFiles, DisguisedFiles}

----------------------------------------------------------------------------
AllPackages == {"pillow", "pdfium", "docx", "pptx", "openpyxl"}

Deployment(packages, models, renderer, binaries, probed, given) ==
  [packages |-> packages, vision |-> models, transcriber |-> models, renderer |-> renderer,
   binaries |-> binaries, probed |-> probed, given |-> given]

(* All; packages but no models and no converter; a converter of one's own   *)
(* that no probe finds; none; capabilities promised without the models, and *)
(* models without the capabilities.                                         *)
SomeDeployments ==
  {Deployment(AllPackages, TRUE, "default", {"ffmpeg", "soffice"}, TRUE, Discover),
   Deployment(AllPackages \ {"pillow"}, FALSE, "null", {"ffmpeg", "soffice"}, TRUE, Discover),
   Deployment(AllPackages, TRUE, "own", {}, FALSE, Discover),
   Deployment({}, FALSE, "default", {}, TRUE, Discover),
   Deployment(AllPackages, FALSE, "default", {}, FALSE,
              {"vision", "asr", "ffmpeg", "document_render"}),
   Deployment(AllPackages, TRUE, "own", {"soffice"}, TRUE, {"asr", "ffmpeg"})}

OneDeployment ==
  {Deployment(AllPackages, TRUE, "default", {"ffmpeg", "soffice"}, TRUE, Discover)}

Half == [x |-> 0, y |-> 0, w |-> 2, h |-> 1]

A1(letters, number) == [letters |-> letters, number |-> number]

SomeAsks ==
  {[name |-> name, page |-> page] :
     name \in {"read_page", "ocr_page", "read_slide", "page_image"}, page \in {1, 3, 9}}
  \cup {[name |-> name, page |-> 1, region |-> region] :
          name \in {"page_region", "ask_about_image", "crop_region"}, region \in {Half, Frame}}
  \cup {[name |-> name] : name \in {"list_media", "list_sheets", "list_comments",
                                    "describe_image", "ocr", "frame_at"}}
  \cup {[name |-> "describe_slide_image", page |-> 3, index |-> index] : index \in {0, 1}}
  \cup {[name |-> "describe_slide", page |-> page] : page \in {1, 9}}
  \cup {[name |-> "read_sheet", sheet |-> sheet, offset |-> offset, limit |-> 1] :
          sheet \in {"", "t", "none"}, offset \in {0, 1}}
  \cup {[name |-> "read_cells", sheet |-> "s", a1 |-> a1, formulas |-> formulas] :
          a1 \in {<<A1(<<1>>, 1)>>, <<A1(<<2, 1>>, 2), A1(<<2>>, 1)>>, <<A1(<<>>, 1)>>},
          formulas \in BOOLEAN}
  \cup {[name |-> name, index |-> index] :
          name \in {"read_section", "read_table", "read_chapter"}, index \in {0, 1, 9}}
  \cup {[name |-> name, start |-> start, end |-> end] :
          name \in {"read_range", "read_span"}, start \in {0, 4}, end \in {2, 7, 99}}
  \cup {[name |-> "hexdump", start |-> start, length |-> 2] : start \in {0, 2}}
  \cup {[name |-> "list_entries", offset |-> offset, limit |-> 1] : offset \in {0, 1, 9}}

=============================================================================
