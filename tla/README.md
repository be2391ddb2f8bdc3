# readeverything: models, model checking and proofs

`readeverything` is an asyncio library through which an agent perceives a file
system: it asks what a file is (`inspect`), flattens it to text with a map back
into the file (`represent`), or invokes one of the things its type affords
(`invoke`: a page, a frame, a transcript, a translation). This directory holds
TLA+ models of it with the TLC configurations that check them and the TLAPS
proofs of what matters most: its caches and the locks around them as state
machines, its readers of files as operators that one small state machine, a
client, calls in every order. Every definition follows the source; the paths
below are relative to `src/readeverything/` of the repository, and
`PROJECT.json` gives the lines of every definition.

## The system

| component | state it keeps | operations | what is hard | what makes it correct | where |
|---|---|---|---|---|---|
| artifact store (`adapters/artifact_store.py`) | a directory of entries, written by threads and processes that share it | `get`, `put` | a crash or failing write half-way; two puts of one key; a get in between | a hit is whole; an entry appears at once, is never withdrawn, and replaced by a rival put at most | `ArtifactStore`, `FsArtifactStore` |
| perception pipeline (`pipeline/`, `adapters/hashing.py`, `cache_key.py`, `rendition_codec.py`) | `ResolutionMemo`, `StatMemo`; the store | `inspect`, `represent`, `invoke` | a file that changes while it is read; caches with three rules of invalidation; a store that outlives models and versions | what is answered is of the file, by the present models; what a memo lets through is current | `Perception` |
| nested source (`adapters/nested_source.py`) | `_materialised`, a lock per uri, temporary files | `local_path`, reads, `walk`, `aclose` | tasks at once, locks within locks, cancellation while a thread writes | a path leads to its member, is stable, is written once; a walk lists what can be read; nobody waits forever | `NestedSource` |
| container uris (`domain/container_uri.py`) | none | `split_uri`, `join_uri`, `container_of` | names that hold the separator or the escape | what is joined comes apart the same | `NestedSource` |
| tar opener (`adapters/tar_archive.py`) | decompressed copies in LRU order, `_held`, one lock | `open_member`, `entries`, `aclose` | a bound that evicts what others are about to read; failures under the lock; threads that cancelled reads leave | the bound holds, the count is the disk's, LRU order, one decompression | `TarArchive` |
| zip opener (`adapters/zip_archive.py`) | none | `open_member`, `entries` | - | - | not modelled |
| document renderer and limiter (`adapters/soffice_renderer.py`, `semaphore_limiter.py`) | a profile, a child process, PDFs in the store; semaphores per event loop | `page_count`, `render_page`, `page_text`; `limit` | timeouts, cancellation with a child left over, several loops | one call at a time converts; a PDF is of the document it is stored for | `SofficeRenderer`, `SemaphoreLimiter` |
| video handler (`handlers/video.py`, `domain/timeline.py`) | none beyond the call; concurrent moments under a limiter | `represent`, `invoke` | completion in any order, partial failure, cancellation, progress events | the timeline is in order and tiles; every start has an end; what failed is told | `VideoHandler`, `Rendered` |
| cached words (`adapters/caching_words.py`, with `ffprobe_streams.py`, `ffmpeg_captions.py`, `ffmpeg_audio.py`) | cues in the store; a child per call | `transcribe`, `extract` | children that hang, entries of other versions, what must not be remembered (silence) | a failure is never permanent; no child is left | `CachedWords` |
| handlers of documents (`handlers/` but video) | none | `describe`, `represent`, `invoke` | flawed files, guesses of an agent at pages and ranges, missing packages and models | every character leads to its place, what was indexed can be read back, losses are told | `HandlerAnswers`, a module for each handler |
| rendering to a budget (`domain/locators.py`, `locator_map.py`, `rendition.py`, the handlers' `_fit`) | none | `Rendered`, `LocatorMap.build`, `_fit` | boundaries of the cut | the map covers the text exactly, barriers lie within | `Rendered`, `HandlerAnswers` |
| detection and registry (`adapters/detection.py`, `ooxml.py`, `registry/`) | the handlers that survive the filter | `detect`, `resolve`, `available_affordances` | evidence that disagrees; ties | a file is read by the handler of its kind | `Composition` |
| composition and capabilities (`composition.py`, `domain/capability.py`, the probes) | none after start | `build_perception` | what is installed, promised, injected and probed may disagree | what a card publishes can be called | `Composition` |
| reading as an agent (`agent/tools.py`, `pipeline/perception.py`) | the card it was given | the tools | calls in any order | the card keeps its word; a hint names what can be done | `Reading` |
| format readers (`adapters/html_text.py`, `epub_book.py`, `odf.py`, `pdfium_render.py`) | none | one read each | places in a source that the text no longer shows | offsets lead to the source | `HtmlReader`, `EpubHandler`, as input of others |
| media and model adapters (`ffmpeg_clip.py`, `ffmpeg_frames.py`, `*whisper*`, `*langchain*`) | a child or a model per call | one each | timeouts | an answer or a failure | outcomes only |

How they interact: an `invoke` asks the pipeline, which asks the source (nested
around local) for a stat, a head, a stream and a size, keeps two memos beside
it, and asks the store before and after the handler. The nested source asks the
openers for bytes, and the tar opener keeps a cache of its own below. Handlers
of office documents ask the renderer, which goes to the *same* store and through
the limiter; the video and audio handlers go through the limiter and the cached
words. All of it runs in one process on one event loop or more, with threads for
blocking calls; only the store's directory is shared between processes.

## The modules

Extension and instantiation: `FsArtifactStore`, `Perception` and
`SofficeRenderer` instantiate `ArtifactStore`; `SofficeRenderer` and
`VideoHandler` instantiate `SemaphoreLimiter`; `VideoHandler` and `HandlerAnswers`
extend `Rendered`; `Reading` extends `Composition`, which extends `HandlerAnswers`
and instantiates the modules of the twelve handlers. `MC...` modules hold the
values of constants, nothing else (that of `NestedSource` has TLC check the
hypotheses of theorems, too). `...Proofs` modules
hold theorems, and `SequenceLemmas` what they need to know of numbers, sequences
and orders.

**`ArtifactStore`** is what the store promises: a dictionary with
`dict.setdefault`. It is the in-memory adapter, and the abstract specification
of the other.

**`FsArtifactStore`** is the directory: a `put` in the steps exists - create -
write - rename, a `get` in the steps open - read, each by any worker at any time.
Files are inodes: `link` is the directory, `bytes` the files, and a handle keeps
what it opened. `Crash(dead)` kills any set of workers (the threads of a process)
at any point and leaves the directory. `Candidates[k]` says which values the
derivation named `k` may yield: one, or several, as a model's words may come out.
`met[w]` is history, the entry there was when the put of `w` began; `FirstStays`
says by it that only a put which began when there was none can replace an entry.
`Stored` maps the directory to the dictionary, and `ImplementsStore` is the
refinement, which holds while `Agreeing` does: no two puts past their test bring
different values for one key.

**`Perception`** is `pipeline/perception.py` with its memos. A task's call is
split where the code awaits: stat and `ResolutionMemo.get` (`Begin`), head and
detection, `StatMemo.get`, the stream that is hashed, `StatMemo.put` (with its
second stat), size and `ResolutionMemo.put` (`Resolve`); then `inspect` and
`represent` (`Describe`), or `invoke` as look-up, derivation and put. The stream
is read in `Chunks` chunks with an await before each, so a hash is a sequence: the
content that each chunk was of. A file that is replaced or taken away is read
to its end by who has it open (`handle`). A stat is the number of edits of the
file. `Restart` is a new process on the same store, maybe with other models
(`revision`, the capability fingerprint). The store is an instance of
`ArtifactStore`; it may start with an entry that does not decode. `Fail` is an
exception. `Cancel` is a cancellation: a put that a thread has been given, to the
memo or to the store, goes on without its call (`latePuts`, `lateEntries`) and is
done later or never. `during[t]` is history: what the file of `t` has held since
`t` began; and so is `disturbed`, the hashes that the memo was given by calls
during which the file held more than one thing.

**`NestedSource`** is the materialisation of container members, and walks.
`stack[t]` is the chain of members a task is busy with: the one it was asked for,
the container around it, and so on outward, each with its lock held while the
next is awaited (`_materialise` calls `_member_bytes` calls `_resolve` calls
`_container_path` calls `_materialise`). `writes` are the writes in threads,
which go on when their task is cancelled. A write is two steps: `Empty` opens the
file and with that empties it, `Write` puts the bytes there; in between the file
is `Torn`, as it is after a failure half-way (`FailWrite`, and `FailLate` where no
task hears of it). Two threads at one file write each at its own place, so what
the one wrote may be cut off by the other, or mixed with it (`Mixed`). `spoiled`
is history, the files that a cancelled task's write failed in. `Refuse` stands for
every check of `_member_bytes`, `_entries` and `_drain` that raises, `FailWrite` for a disk that
does. A walk is a list `todo` of entries: `List` yields the next one and asks for
its path by the uri that it yields, `Enter` puts what is in it before the rest,
and a refusal goes on behind it (`skipped`). Uris are sequences of characters,
split and joined as `domain/container_uri.py` does, so that what a walk yields, what a read
takes apart and what a file is named after are computed as the code does. The
constants `Parent`, `Name` and `Address` are a tree of members and the uris of
its members *written by hand*: the model does not get them by joining.

**`TarArchive`** is the cache of decompressed copies: `cached` is the order of
the `OrderedDict`, `held` the count, `lock` the one asyncio lock, which is held
through decompression and every unlink of the eviction loop and released before
`open_member` opens its copy. A file is on the `disk` from when the thread opens it
(`Begin`), `Torn` until it is written. A cancelled read gives the lock back, and its
thread goes on: it writes its copy to the end, or raises (`making`), or unlinks its
victim (`removing`), now or later or, when it had not begun, never; `left` is
history, the names that failed and cancelled calls have left. `used` and
`curtailed` are history. `Copies` are the names there may be files of, and `Room`
keeps one for each that needs one.

**`SemaphoreLimiter`** is the limiter for one capability: a semaphore for each
event loop, found by the loop's id and told from a dead loop's by whose it is.
It is instantiated by the modules whose tasks go through it.

**`SofficeRenderer`** is `_pdf` and what it calls: hash, look-up, slot, profile,
child, collection, put, page. The store is an instance of `ArtifactStore`, the
slot one of `SemaphoreLimiter`. `Convert` is the soffice child exiting with a
PDF, `Fail` every other way it or a file operation may end, `Timeout` and `Reap`
the deadline. `Cancel` leaves the child running (`orphans`), as does `LoopEnds`,
the end of an event loop with its tasks.

**`CachedWords`** is a call for the words of a film: probe, caption track through
its cache, else sound through the other cache to the transcriber. `tool` names
the child or model at work and `at` the await. Children are a variable of their own: they
run, exit, are killed at the deadline, and are reaped. `Hear` is what follows an
exit, up to the next await. Keys are as the code forms them (the stat of the
film for captions, the sound itself for speech), the store starts with entries
that an earlier codec wrote, and `calm` and `failed` are history: whether the
film stood still, and whether anything failed in this very call. The order of
the sources of words is that of `handlers/video.py` (`_cues`).

**`Rendered`** is what `domain/` makes of a text, a cut and a timeline, and the
places are in **`HandlerAnswers`** (`domain/locators.py`). A
character of a text is `[place, mark]`: it *carries* the finest locator that
leads to it in the file, or `Nowhere` when a handler wrote it, and properties
compare what a handler says of a character with what the character knows. A mark
of 0 is white space. `IsLocator` is every `__post_init__`; a locator that is none
makes the call raise `ValueError`, as the code would.

`HandlerAnswers` has, besides, the three things that a handler gives back (a card, a
rendered text, an answer), the way from chunks to segments that the handlers
share, and `handlers/page_images.py`. Then one module a handler:
**`PdfHandler`**, **`SlidesHandler`**, **`SheetsHandler`**, **`WordHandler`**,
**`LegacyHandler`**, **`HtmlHandler`**, **`EpubHandler`**, **`PlainHandlers`** (text,
and bytes of any kind), **`ImageHandler`**, **`ArchiveHandler`**, **`AudioHandler`**,
each with `Affordances`, `Describe`, `Represent`, `Invoke` and the helpers between
them, by the names they have in the code where these are fit for TLA+. They are
operators on a document, which is a record of what the reader of its format
finds, with the flaws that it knows of: pages without text, a workbook without
computed values, a book with an empty part, a sound without a track.
**`HtmlReader`** goes one level further down, from the tokens of a page to prose
whose characters know their offsets in the source: white space collapses,
entities are wider than what they mean, scripts are gone. Books use it for each
part.

**`Composition`** is the type of a file from its evidence, and what
`build_perception` wires in a deployment (packages, models, renderer, binaries,
capabilities given or probed), which capabilities result, which handlers and
affordances remain, and which handler a type goes to.

**`Reading`** is a client: `Inspect`, `Represent(budget, said)` and
`InvokeAffordance(ask, said)` on a file in a deployment, where `said` is how models
answer. It keeps the card and the last outcome. `IsFresh` keeps `Represent` and
`InvokeAffordance` to the first call and to calls right after an inspection; as
a call leaves nothing that the next would meet (what is stored is in
`Perception`), every other sequence gives the same outcomes.

`Rendered` also has sampling, clamping, merging and tiling of moments and cues, in
ticks of `_OVERFLOW_EPSILON_S`; a recursive function does what the loop of `tile`
does. What Python sorts or filters is stated without a loop: `InOrder` puts the
members of a finite set behind those that come before them, and `Those` is what a
sequence has at some of its places.

**`VideoHandler`** is one handler with one read and one affordance under way. A
read (`represent`) goes through `pc`: locating and probing the file, the captions,
the audio and the transcriber, the moments, the scene cuts; each answer of a
port is an action, also the one that raises. `Listen` is `_transcribed_cues` up
to its first await and is part of the action that falls back on it. While `pc`
is `"fetching"` each sampled entry `i` has a task of its own, `moment[i]`, that
waits for a slot of FFMPEG, decodes, waits for one of VISION, describes;
`Advance` emits the progress event in the step of the outcome, as the code does.
`gather` with `return_exceptions=True` is `Stop` and `Gather`: a cancelled read
waits for its children, and a child stopped by a CancelledError of its own makes
the read raise. `entries` and `bounds` are the locals of `_timeline`; the text,
its segments and barriers are put together in the step of the scene cuts, which
is the last await. `failures` is history: what went wrong, in every action in which
something does, also where the code reports nothing of it (`Untold`).

The definitions named in `PROJECT.json` as mutants (`OpenInPlace`,
`ResolveUnderLaterStat`, `PrunedLate`, ...) stand beside the ones they replace.
They are not part of any specification: each is a plausible mistake that the
property named there must notice.

## The runs

| run | configuration | shows |
|---|---|---|
| `fs_store` | 3 workers, 2 keys, one of which may come out in two values, 4 files | `WholeHits`, `FirstStays` |
| `perception_quiet` | 2 tasks, 1 file, 2 contents of different mimetypes, 2 revisions, 2 edits between calls, 1 late put | `ResolutionsCurrent`, `EntriesAreOfTheirKey`, `AnswersCurrent` |
| `perception_edits` | 2 tasks, both memos, 2 edits at any time, files of 2 chunks, 1 late put | `UndisturbedHashes`, `HashFromThisCall`, `UndisturbedRef` |
| `nested` | 2 tasks of which one may walk; members one to three containers deep, `max_depth` 2, names with separators and escapes; 1 late write or spoiled file | `FilesHoldTheirMember`, `LocksLeadOut`, `WalksAreTrue`, `StablePaths`, `CallsEnd` |
| `nested_collision` | 2 members with one base name, no walker | `FilesHoldTheirMember` fails (finding) |
| `tar` | 2 readers, a plain archive and solid ones of sizes 1, 2, 3 and 4 with a bound of 3 | `CacheOnDisk`, `WithinBound`, `DecompressedOnce`, `EvictsLeastRecentlyUsed`, `ReadsEnd` |
| `tar_evicted` | the same | `CopyStillThere` fails (finding) |
| `renderer` | 2 tasks, 2 documents, 2 contents, 1 slot, a loop that may die once, 1 edit between calls, 1 orphan | `SlotsCounted`, `ChildrenClaimed`, `PdfsCurrent`, `StoredIsEnough`, `CallsEnd` |
| `words` | 2 calls, 4 films, 3 wirings, 1 edit, 1 failure beside deadlines and cancellations, an entry that does not decode | `AnswersAreOwn`, `CallsEnd` |
| `video` | 3 configurations of ports, 3 videos of 2, 3 and no moments, 4 lists of cues, 3 sets of cuts, 2 budgets, 1 slot of each capability | `SlotsCounted`, `NarratedInOrder`, `TimelineLocated`, `FailuresTold`, `StopsAreStops`, `ReadsEnd` |
| `documents` | 6 deployments, files of 15 kinds, sound and flawed, 3 budgets, 3 ways models answer, 66 calls of affordances | `LedToItsPlace`, `SegmentsReadBack`, `UnitsApart`, `LossesTold`, `CardsKeepTheirWord`, `PublishedIsAnswered`, `ReadByItsOwn`, `RangesReadBack`, `Represented` |
| `documents_epub` | one book with a part without text between two others | `Represented` fails (finding) |

What the properties of `documents` say: every character that comes from the file
lies where its segment's locator leads (`LedToItsPlace`), the call that a segment
suggests answers with all its characters and the same locator
(`SegmentsReadBack`), barriers are where units change (`UnitsApart`), a cut,
a page without text, a cue that fell out is told, and only then (`LossesTold`),
the outline of a card is made of places of the text and an unreadable file's text
is degraded (`CardsKeepTheirWord`), exactly the published affordances are
callable and an agent's wrong guess is answered (`PublishedIsAnswered`), the
reader is that of the file's kind whatever its name (`ReadByItsOwn`, against a
table of its own), A1 names lead back to the cells they name (`RangesReadBack`),
and no file makes a reader trip over its own output (`Represented`).

Why the bounds are enough. The races are between two calls and one disturbance:
a second put, an edit, an eviction, a cancellation. Two tasks and two edits
leave room for the memo to be filled before, between and after them; with one
file the calls are as close as they can be, and memo and key separate files by
uri. The store has a third worker so that two writers race under a reader. Two
chunks are enough for a hash of two contents. In the nested source the note and the
leaf lie in a container, so that two tasks can wait for a lock each at once, one
within what it has, and write at once; one
member is there to be too deep; and two names are, unescaped, the uri of that
member and an escape at the end of a uri. In the tar cache the size-3 archive evicts both smaller ones
in two steps of the loop, and the size-4 one is over the bound alone; with three
names for files, one stays for what a cancelled read leaves. The symmetry of
`perception_edits` also swaps the contents, which no constant tells apart there. Files,
names and late writes (`Files`, `Copies`, `MaxLate`, `MaxEdits`, `MaxOrphans`, `MaxFailures`)
are bounds of the models, not of the code; each is in a guard where it bites.

In the renderer the second task waits for the one slot of the first; a third
would wait behind it. The loop that dies once leaves a semaphore to be mistaken
for the new loop's. The second call for words finds what the first stored, or
races it. A child may hang however often; `MaxFailures` counts what else fails,
and an answer shows one failure or several in the same way.

In the video three moments share a slot of each capability with an affordance,
so two wait while one is at it. The cues are none, two at the instant of a
moment, two crowded at the end of the file (one outside the shorter video), and
one outside both; a frame lasts 6 ticks, so that a crowd of two is pushed past
the end and the last starts are an epsilon apart. The budget of 5 characters
cuts the second entry. `TimelineLocated` compares `tile` with a closed form (the
furthest that any earlier entry pushes) instead of repeating its loop.

In the documents the budgets are none, one character, and five, which falls
inside a chunk, at the end of one and between two, for some file each. An alphabet of
three letters makes the fourth column the first with a name of two; a report
names two cells of the three that have no value, and two pages of three, where the
code names ten (`ListedCells`, `ListedPages`).
What the files do *not* have, for the code answers otherwise
there (see the next section): a page region on a deployment without pdfium's
checks of it, a sheet whose stated size is not its own, an `.ods` with repeated
cells, cues shorter than the shortest the timeline gives.

Fairness is assumed in `nested`, `tar`, `renderer`, `video` and `words` only. A
thread ends, an await of I/O ends, so these steps are weakly fair. `asyncio.Lock`
wakes its waiters in the order they came, so a task that finds the lock free
again and again gets it: strong fairness of taking the lock. `asyncio.Semaphore`
likewise. A soffice need not end: `Convert` has no fairness, and the calls end by
their deadline. In `words` a task is resumed, a deadline passes (`asyncio.wait_for`),
a killed child dies, the store and the transcriber answer; that a child ends by itself
(`Exit`) has no fairness. In the video every port answers: ffprobe and ffmpeg are
run with deadlines by their adapters, the model clients have timeouts of their
own, and a local transcriber is a computation that ends. Cancellation, edits and
new calls are never required. `CHECK_DEADLOCK FALSE` is not used by any run: a
task can always begin another call.

## What the code does otherwise than it says

Three runs end in a counterexample to a sentence of the repository
(`PROJECT.json` quotes it):

1. two members of one base name can be written to one temporary file
   (`nested_collision`);
2. the tar cache can evict a copy between the moment a reader is given it and
   the moment the reader opens it (`tar_evicted`);
3. a book with a part that has no text, say a plate, between two that have, is not
   represented at all: its handler states one barrier twice, and `Rendered`
   refuses barriers that are not unique (`documents_epub`).

More were met while modelling and have no run of their own. The models do as the
code does, except where a line says that they leave the case out.

Caches and children:

- `StatMemo.put` takes its stat after the read (`hashing.py:44`), which awaits each
  chunk (`64-65`), so an edit meanwhile leaves the hash of the old file, or of a
  mixture that the file never held, under the new stat, against `hashing.py:8-9`
  ("a miss costs a rehash, never a wrong answer"). `UndisturbedHashes` says that
  nothing else does, and the theorem `MemosCurrent` has the hypothesis `Safe` for it.
- `encode_rendition` (`rendition_codec.py:136`) does not encode `degradations`:
  a rendition answered from the store no longer says that it is one, where
  `README.md:204` has "every rendered page carries a `Degradation` naming the
  converter".
- Two puts of different values for one key that both find no entry are both done,
  and the second replaces the first, which a `get` may have answered with already
  (`artifact_store.py:63` and `:71`): `testing/artifact_compliance.py:23` says that
  a second put "must not replace". `FirstStays` is what remains of it.
- A cancelled read of a member leaves its thread to write the file; the next task
  writes the same file, and registers it, and the thread then empties it and
  writes it again, or fails half-way (`nested_source.py:292`). `FilesHoldTheirMember`
  excepts the files at which this happens.
- The thread of a cancelled decompression writes its copy to the end
  (`tar_archive.py:154`), a file that no look-up finds and `_held` does not count; it
  stays until `aclose`. `CacheOnDisk` lists it with what is `Abandoned`.
- A materialised member is never looked at again when its archive is edited.
- A cancelled conversion gives its slot back while its soffice runs on, so
  another may start on the same profile, which `semaphore_limiter.py:29-33` rules
  out (`orphans` in `SofficeRenderer`): `SlotsCounted` is about calls, not about
  processes. A cancelled call for words leaves its
  ffmpeg running in the same way: `CallsEnd` of `CachedWords` excepts it.
- Two calls that miss one document at once convert it one after the other, where
  `soffice_renderer.py:17` has "a document is converted once per machine": the
  store is not asked again once the slot is there.
- A caption child that runs into its deadline is told nowhere
  (`video.py:1018-1019`, beside the reports of `970-975`), and a track whose cues
  all start past the end of the file is dropped without the count that
  `clamp_cues_to_duration` takes of them (`video.py:1020`, `timeline.py:110-112`),
  where `video.py:960` has "Every other outcome degrades and reports". These are
  the `Untold` that `FailuresTold` excepts.

Documents:

- `container_uri.py:73-76` warns that two spellings of one source are two
  provenance stories; yet an escape before an ordinary character is dropped, so
  `a\b` and `ab` split alike, and so do one escape at the end and two.
- `odf.py:123-135` reads a cell that stands for several once, so that the cells
  after it move to the left, and gives an unnamed table the empty name, which no
  `CellRange` takes. The workbooks of the models have neither.
- The text handler returns its line about an empty file whatever the budget
  (`text.py:146-155`, against `handler_compliance.py:141`).
- A cut binary file loses the report that its text is synthesised
  (`binary.py:161-167` beside `145-148`; `LossesTold` excepts the fallback), and a
  hexdump beyond the end cites a byte that is not there (`113-115`).
- `page_region` of a PDF trips over a region that is none (`pdf.py:394`, a
  `ValueError`) unless the caller validated it. The asks are of valid regions.
- `read_cells` cites ranges beyond the sheet, and the docstring of `describe` of
  sheets speaks of `calculate_dimension()`, which a stale file states wrongly.
- `html.py:243` calls the span of a range contiguous, which a script in between
  belies; the outline of a page is in characters of the text, its segments in
  those of the source.
- Plain text named `.pdf`, and a zip file with an entry under `word/`, are read as what
  they seem (`detection.py:10`; `ooxml.py:127-131` says so itself): `ReadByItsOwn`
  excepts them (`IsDisguised`) and asks that their text is degraded.
- A linked picture on a slide makes `list_media` say there is none, while
  `describe_slide_image` answers for it (`office_slides.py:325-326`, `299`).
- The reply to a picture says that no vision capability is configured when it is,
  but the handler at hand has no affordance for it (`agent/tools.py:117-136`).

## What is proved

The theorems hold for every value of the constants, on the assumptions the
modules name. Of the 40
properties that the passing runs check, 26 are theorems:

| module of proofs | theorem: property |
|---|---|
| `FsArtifactStoreProofs` | `WholeHitsAlways`: `WholeHits`; `FirstStaysAlways`: `FirstStays` |
| `PerceptionProofs` | `MemosCurrent`: `ResolutionsCurrent`; `HashesAreCurrent`: `UndisturbedHashes`; `HashesAreOfTheirCall`: `HashFromThisCall`; `RefsAreOfOneFile`: `UndisturbedRef`; `StoreOfItsKeys`: `EntriesAreOfTheirKey`; `AnswersAreCurrent`: `AnswersCurrent` |
| `NestedSourceProofs` | `PathsAreStable`: `StablePaths`; `FilesAreOwn`: `FilesHoldTheirMember`; `WalksTrue`: `WalksAreTrue`; `LocksAreInOrder`: `LocksLeadOut` |
| `TarArchiveProofs` | `CacheIsOnDisk`: `CacheOnDisk`; `CacheWithinBound`: `WithinBound`; `DecompressedOnlyOnce`: `DecompressedOnce`; `LeastRecentlyUsedIsEvicted`: `EvictsLeastRecentlyUsed` |
| `SofficeRendererProofs` | `SlotsAreCounted`: `SlotsCounted`; `ChildrenAreClaimed`: `ChildrenClaimed`; `PdfsAreCurrent`: `PdfsCurrent`; `StoredPdfsAreEnough`: `StoredIsEnough` |
| `CachedWordsProofs` | `WordsAreOwn`: `AnswersAreOwn` |
| `VideoHandlerProofs` | `SlotsAreCounted`: `SlotsCounted`; `ProgressIsInOrder`: `NarratedInOrder`; `FailuresAreTold`: `FailuresTold`; `CancellationsRaise`: `StopsAreStops`; `TimelineIsLocated`: `TimelineLocated` |

`Refinement` of the store, `Typing` of the pipeline, of the tar opener and of the renderer, `KeptWordsAreOwn`,
three theorems about uris (`RoundTrip`, `UrisTell`, `DepthsAgree`) and one about
`tile` (`SpansTileTheFile`) state facts that no run checks by themselves.

*`FsArtifactStoreProofs`.* The invariant is inductive with three more facts: a file
that a worker is writing is linked nowhere and is no other worker's; a worker about
to rename holds a file with its whole value; and the value of a `put` is one its key
may have. `FirstStaysAlways` adds `FirstInv`: a put past its test for an entry
met none when it began, for one that met an entry still finds one. `Refinement` says
that the directory is the dictionary as long as `Agreeing` holds, whatever other
values the keys may have at other times: the only step that shows in the dictionary
is `Replace`, and when an entry is there already a rival has put it there, so its
value is the same (`RivalsInv`).

*`PerceptionProofs`.* Three theorems speak of both memos and of edits at any moment,
with no hypothesis: `HashesAreCurrent`, `HashesAreOfTheirCall`, `RefsAreOfOneFile`.
`MemosCurrent` has the hypothesis `Safe` (no `StatMemo`, or files that stand
still during calls), for a wrong hash is remembered in a `SourceRef` too;
`StoreOfItsKeys` and `AnswersAreCurrent` that files stand still during calls. `Inv`
ties each piece of a ref to the history: every field a task has read, and each
chunk of a hash, is of something in `during[t]` (`RefInv`, `HandleInv`); while the stat
a task began with stands, `during[t]` is what the file holds (`HistoryInv`); so a memo
filled under that stat, if the stat still stands, was filled with the present
content (`ResolutionsInv`, `HashesInv`), by a thread that comes late as well. It is
needed because the properties alone say nothing of a call under way, whose ref
is put together in several steps. `StoreInv` says the same of entries, the rendition
in hand and late puts, and `SafeInv` that no hash is `disturbed` when `Safe` holds.
`Safe` is necessary: the second stat of `StatMemo.put` is what `disturbed` is about.

*`NestedSourceProofs`.* `StablePaths` says nothing of locks, yet rests on them
alone. `LocksInv` says which places of the chain `stack[t]` have their lock held by
`t` (all but the member it waits for and one it only reads), that no lock is held
twice in a chain, and that a member whose lock is held has no path yet; so the task
that registers a path is the only one that could, and finds none. The theorem needs
nothing of how uris are written. `FilesInv` adds that whatever is in a file, or on
its way there in a thread, has the base name that the file ends in; that the one
write of a task that waits for it goes to the file it is to register; and
that a file that is registered, or whose write has ended, is whole or torn by a
cancelled task's write, which is still open or has failed (`Explained`).
Then, if no two members have one base name (`BasesApart`), it is that member.
`BasesApart` is what the code does not ensure: the run `nested_collision` is the
counterexample without it. The other hypothesis is `UrisName`: the last segment of a
uri names the member whose uri it is, in the container the rest is the uri of.

That hypothesis is now a consequence (`UrisTell`) of `UrisJoined`, which only says
how uris come to be: the uri of an archive is one segment, that of a member is put
together as `_members_of` does. It rests on `RoundTrip`: `split_uri` gives back what
`join_uri` was given, for any words of any characters, separators and escapes
among them. `split_uri` is a scan, here a recursive function, so a proof needs
first that there is a function with the scan's equation (`Scan`), by induction on
length, as is the rest. TLC evaluates `UrisJoined` and `UrisName` as an assumption
of both runs of `NestedSource`.

`WalksTrue`: a walk counts the containers it has entered, a read the segments of a
uri, and by `DepthsAgree` both are the number of containers around the member.
`WalksInv` says what a walk has listed when it is not over: all that it has to list
(`Due`: not too deep, in nothing that could not be looked into) except what is on
`todo` or lies in one of its entries (`Covered`). So that no entry is counted twice
the entries on `todo` lie apart from each other (`Apart`), which is why the invariant
speaks of trees and not of one list. `Listed` is the same between the yield of an
entry and what is decided about it: looked into, too deep, or skipped.

`LocksAreInOrder` is why calls end, as far as it is safety: a task that waits for
a lock waits for one further out than those it has, so no chain of tasks that
wait for each other closes, however many there are. The order of the locks in
`stack[t]` alone does not give that: the lock in question is named by `holder`, and
`ClaimsInv` adds that whatever lock a task has is that of a member on its stack,
also after a failure or a cancellation has cut the stack.

*`TarArchiveProofs`.* None of the four properties is inductive: between the end of
a decompression and the last unlink, the cache, the count and the disk disagree. The
invariant says of the one reader with the lock (`Locked`) what it is in the midst of:
a copy that nobody finds yet (`Making`), or one that nobody finds any more
(`Evicting`). Neither is a file of an abandoned call, and what the cache has is
none either (`Stored`), so the late steps of threads pass all of them by (`LateStep`);
any other file is accounted for (`Found`). `_held` is a sum over the cached archives; that it grows and
shrinks by what is put in and taken out is `BytesOfAppend` and `BytesOfRemoveAt`, by
induction up to the length, as a set of numbers (`InductionUpTo`). `EvictToFitOutcome` is the
loop's condition and its choice, in terms of sets: one archive goes, which came before
all others but the one wanted, or all stay and are within the bound. `Ordered` ties
the order of the cache to the order of use, which is history.

*`SofficeRendererProofs`.* `SlotsInv` counts, for each loop, the tasks that have a
slot; it is inductive with the fact that no semaphore belongs to a loop yet
to be (`LimiterTypes`), for the limiter takes a semaphore by its loop's number.
`PdfsCurrent` and `StoredIsEnough` hold if no document is edited during a call
(`~EditsDuringCalls`): `_pdf` takes the hash and starts soffice on the path at two
moments, and the invariant `HashesInv` says that the hash is still the document's.

*`CachedWordsProofs`.* Two calls, or two processes, meet in the store. `StoreIsOwn`
says what an entry may be: under a caption key with the stamp the film has now,
the words of a text track of that film; under a sound, what is heard in it. `CallIsOwn`
says by which way a call has come to where it waits (`Led`: a caption key it holds was
formed under this stamp or an earlier one; it listens only where there is nothing to
read, or something failed) and what its child is about to put out. The lemmas
`AnsweredOwn`, `CuesOwn`, `ElsewhereOwn` ... take one way of going on each,
whichever step leads there.

*`VideoHandlerProofs`.* Four invariants on one set of lemmas that say what
a step does to a read whatever it finds in the file: it goes on, concludes, moves
one moment, gathers, is cancelled (`FindsOut`, `Concludes`, `Goes`, ...).
`ReadInv` is where the read and its moments are; `SlotsInv` that the moments at work
are finitely many and add up with what is free; `NarrationInv` gives the events
told as a function of how many moments have ended, from which `NarratedInOrder`
follows; `ReportsInv` says that a failure, unless it is one of the `Untold`, is among
the reports from the step it happens in, on any of the ways to the words, and that
`_fit` drops none.

`TimelineIsLocated` is about what such a read renders. `LayoutInv` says from phase
to phase what the read knows: of a file with a timeline, words with times inside it
(`Words`), and from the fetch on entries that start at 0 and are tiled, the moments
being those that are no cue (`LaidOut`). The rest are facts about the operators, for
all their arguments: the entries are the moments and the cues, each once, in order
(`MergeProperties`, over `SortedProperties`); the loop of `tile` puts each where the
furthest that any earlier entry pushes puts it, and an epsilon apart from where the
file ends (`SpansTileTheFile`, over a closed form without the loop); once all moments
have ended each entry has something to say, and its own characters (`TextOfEntries`);
a character is found in the segment it is in (`SegmentOfCharacter`); and a cut keeps
the segments it reaches, the last one shorter, and the breaks before them (`FitCuts`).
Cuts between scenes enter as any breaks between entries (`AssembledIsLocated`).

It has one hypothesis of its own, `EntriesFit`: a frame is wider than the epsilons
its video has entries for. `timeline.py:55-56` promises at most one `min_width_s` of
claimed time past the end, "never more, regardless of how many entries are given".
That is so up to as many entries as a width has epsilons of 1e-9 s, 33 million at 30
frames a second; with more, the starts pushed past the end overtake it.

The assumptions on constants are named in the modules (`TarAssumption`,
`RendererAssumption`, `VideoAssumption`, ...): numbers are numbers, a cue
ends after it starts, what a moment came to is told in some characters, sets of tasks
and of members are finite, `None` is none of the values it stands beside, a caption track or a model's
answer has the form its adapter gives it. TLC evaluates them in every run.

## What is only model-checked

- Liveness (`CallsEnd`, `ReadsEnd`): under fairness, out of the prover's reach, as is
  `ENABLED`.
- The nine properties of `Reading`. They are about what loops of the handlers over
  pages, cells and cues compute (folds, `SelectSeq`), which takes induction over data.

No module uses `RECURSIVE`.

## Not modelled

The wording of anything. The inside of formats and of media tools: what pdfium,
openpyxl, python-docx, puremagic, ffmpeg and soffice find in bytes is the input
of the models, and what the thin adapters over them add (an argument list, a
parse of their output) has neither state nor choice; of their children, the
three of `CachedWords` and that of `SofficeRenderer` are modelled and the others
(`ffmpeg_clip.py`, `ffmpeg_frames.py`) follow the same pattern, their outcomes
being those that `VideoHandler` takes. Models and transcribers answer, say
nothing, or fail. The zip opener opens its archive anew at each call.

A file system that loses what was written (power loss: `put` does not fsync); an
edit that leaves size and mtime as they were, which the stat rule cannot see by
its own account. Uris with an empty segment, which `split_uri` refuses with a `ValueError`. Of the
nested source and the tar opener, `aclose`, which nothing
in the library calls, edits of an archive under them, and directories and
symlinks, which are refused. Of the video handler, the card and what most
affordances answer: one call each, they take part in `VideoHandler` only for the
slots they hold. Of `CachedWords`, a film that is not local, and the cap on what a
probe says of duration. Of `build_perception`, the refusal of a vision model whose
revision is not the declared one (`composition.py:486-494`). Of the agent's
tools, the text they wrap around an answer, with the decorator that turns
exceptions into text. Of `domain/`, classes that hold data or declare a protocol.

## Plan

Done: every component that has state of its own, with theorems of its safety;
detection, composition and the handlers, as a client meets them. What is left is
proof:

1. `Reading`: what the time of a video is, `TimelineIsLocated` says; the same of the
   pages, cells and paragraphs of `LedToItsPlace` and `SegmentsReadBack` would rest on
   the lemmas about `Those`, `InOrder` and cuts, once the renderers are stated
   with them.
2. `Composition`: that what a card publishes is registered (`PublishedIsAnswered` for
   any deployment), where it is a matter of sets.
