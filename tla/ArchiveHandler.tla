----------------------------- MODULE ArchiveHandler -----------------------------
(***************************************************************************)
(* Containers (handlers/archive.py).  One is [size, listable, entries], an *)
(* entry [offset, compressed]: where its bytes start, -1 in a container    *)
(* that has no such place, and how many they are.                          *)
(***************************************************************************)
EXTENDS HandlerAnswers

Affordances == {"list_entries"}

(* An entry without bytes of its own is the one of its number.             *)
Locator(archive, i) ==
  LET entry == archive.entries[i]
  IN  IF entry.offset = -1 THEN CharSpan(i - 1, i)
      ELSE ByteRange(entry.offset, entry.offset + Max({1, entry.compressed}))

(* What cannot be opened, or not by any opener there is, lists nothing.    *)
Entries(archive) == IF archive.listable THEN archive.entries ELSE <<>>

(* The line of an entry: its path, from its place.                         *)
Line(archive, i) == <<Char(Locator(archive, i), 1)>>

Describe(archive) ==
  Card(archive.listable,
       [i \in DOMAIN Entries(archive) |-> Locator(archive, i)], Affordances)

Degraded(archive) == Excused(WholeFile(archive.size))

ListEntries(archive, ask) ==
  LET last == Min({ask.offset + ask.limit, Len(archive.entries)})
      page == [i \in 1 .. last - ask.offset |-> Line(archive, ask.offset + i)]
  IN  IF ~archive.listable \/ page = <<>> THEN Degraded(archive)
      ELSE Located(WholeFile(archive.size), Joined(<< <<Written>> >> \o page))

Invoke(archive, ask) ==
  IF ask.name \in Affordances THEN ListEntries(archive, ask)
  ELSE Raised("UnknownAffordance")

Fitted(text, segments, budget, degradations) ==
  Built(Fit(text, segments, <<>>, budget, degradations))

(* A line for each entry, located at it, and no barriers.                  *)
Represent(archive, budget) ==
  LET chunks == [i \in DOMAIN archive.entries |-> Append(Line(archive, i), Glue)]
      locators == [i \in DOMAIN archive.entries |-> Locator(archive, i)]
      nothing(what) == Fitted(Summary, Mapped(<<Summary>>, <<WholeFile(archive.size)>>),
                              budget, <<Degradation(what)>>)
  IN  IF ~archive.listable THEN nothing("archive unlistable")
      ELSE IF archive.entries = <<>> THEN nothing("archive is empty")
      ELSE Fitted(Text(chunks), Mapped(chunks, locators), budget, <<>>)

=============================================================================
