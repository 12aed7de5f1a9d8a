--------------------------- MODULE PromotionLedger ---------------------------
(***************************************************************************)
(* The JSONL ledger as a file: what regression_guard.append_ledger writes, *)
(* what a crash leaves of a write, and what the viewer of ui/app.py makes  *)
(* of the lines it finds.                                                  *)
(*                                                                         *)
(* A ledger is the sequence of the writes to it.  Each is one entry, cut   *)
(* short by "nothing", by its "newline", or by more (the "end" of it).     *)
(***************************************************************************)
EXTENDS Naturals, Sequences

Cuts == {"nothing", "newline", "end"}

\* Mutant of AppendEntry: open("w"), which starts the file afresh.
OverwriteEntry(ledger, entry, cut) == <<[entry |-> entry, cut |-> cut]>>

\* open("a"): the entry goes behind whatever the file holds.
AppendEntry(ledger, entry, cut) == Append(ledger, [entry |-> entry, cut |-> cut])

\* The viewer splits the file at newlines, skips what is no JSON document, and
\* shows the rest: an entry must have a line of its own, and all of its text.
IsShown(ledger, i) ==
    /\ i > 1 => ledger[i - 1].cut = "nothing"
    /\ \/ ledger[i].cut = "nothing"
       \/ ledger[i].cut = "newline" /\ i = Len(ledger)
=============================================================================
