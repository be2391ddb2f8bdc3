---------------------------- MODULE ArtifactStore ----------------------------
(***************************************************************************)
(* What an artifact store promises (ports/artifacts.py), in the form of    *)
(* the adapter that keeps the promise trivially: InMemoryArtifactStore,    *)
(* a dictionary whose `put` is `dict.setdefault`.  An entry, once stored,  *)
(* is never replaced and never withdrawn.                                  *)
(***************************************************************************)
EXTENDS Naturals

CONSTANTS
  Keys,     (* artifact keys                                              *)
  Values,   (* encoded artifacts                                          *)
  NoEntry   (* what `get` answers on a miss (None): no member of Values   *)

VARIABLE entries   (* entries[k]: the artifact stored under k, or NoEntry *)

Init == entries = [k \in Keys |-> NoEntry]

(* dict.setdefault: the first value stays.                                *)
Put(k, v) == entries' = [entries EXCEPT ![k] = IF @ = NoEntry THEN v ELSE @]

Get(k) == entries[k]

Next == \E k \in Keys, v \in Values : Put(k, v)

Spec == Init /\ [][Next]_entries

=============================================================================
