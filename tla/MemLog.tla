------------------------------- MODULE MemLog -------------------------------
(***************************************************************************)
(* The write-ahead log of engine/wal as its in-memory implementation       *)
(* defines it: Append adds an entry at the end, Replay returns a run's     *)
(* entries ordered by Seq.  It is what every Log promises, and what the    *)
(* FileLog is shown to do until it writes after a line that was cut short. *)
(*                                                                         *)
(* Nothing makes RunID and Seq unique (each Run starts again from Seq 0):  *)
(* id tells equal entries apart, by the order in which they were begun.    *)
(***************************************************************************)
EXTENDS Enumeration

CONSTANTS RunIDs, MaxSeq, MaxAppends

Record == [run : RunIDs, seq : 0 .. MaxSeq, id : 1 .. MaxAppends]

VARIABLE entries

-----------------------------------------------------------------------------
(* Replay.                                                                 *)

\* sort.SliceStable by Seq puts the i-th entry of s before the j-th.
Sooner(s, i, j) == s[i].seq < s[j].seq \/ (s[i].seq = s[j].seq /\ i < j)

\* What Replay(run) returns of the entries in s.
OfRun(s, run) ==
  LET mine   == {i \in DOMAIN s : s[i].run = run}
      sorted == InOrder(mine, {r \in mine \X mine : Sooner(s, r[1], r[2])})
  IN  [k \in DOMAIN sorted |-> s[sorted[k]]]

-----------------------------------------------------------------------------

Init == entries = <<>>

AppendEntry(e) == entries' = Append(entries, e)

Next == \E e \in Record : AppendEntry(e)

Spec == Init /\ [][Next]_entries

=============================================================================
