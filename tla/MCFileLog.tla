------------------------------ MODULE MCFileLog ------------------------------
(***************************************************************************)
(* The FileLog with goroutines that are interchangeable, and the loops of  *)
(* Replay, with which the operators FileLog and MemLog read by are         *)
(* compared on every small file.                                           *)
(***************************************************************************)
EXTENDS FileLog, SequencesExt, TLC

CONSTANTS
  MaxPieces,    \* bound of the pieces in a file that is compared
  MaxEntries    \* bound of the entries in a list that is sorted

Interchangeable == Permutations(Client)

\* A record of two bytes, or of four if it is the longest Seq of one run; with
\* MaxLine = 4 the short ones fit, three short pieces on one line too, and a
\* long record does not, nor does its head with a record behind it.
OneRun == CHOOSE r \in RunIDs : TRUE

AllShort == [e \in Entry |-> [head |-> 1, tail |-> 1]]

ShortAndLong ==
  [e \in Entry |->
     IF e.run = OneRun /\ e.seq = MaxSeq THEN [head |-> 2, tail |-> 2] ELSE AllShort[e]]

\* The lines Scan yields, one step per piece.
ScannedLines(f) ==
  LET step(acc, t) == IF t.part = "nl" THEN [lines |-> Append(acc.lines, acc.cur), cur |-> <<>>]
                      ELSE [acc EXCEPT !.cur = Append(@, t)]
      all == FoldLeft(step, [lines |-> <<>>, cur |-> <<>>], f)
  IN  IF all.cur = <<>> THEN all.lines ELSE Append(all.lines, all.cur)

Bytes(line) == FoldLeft(LAMBDA n, t : n + Size[t.e][t.part], 0, line)

Unmarshals(line) ==
  Len(line) = 2 /\ line[1].part = "head" /\ line[2] = [part |-> "tail", e |-> line[1].e]

\* e goes behind the entries of its own Seq.
Insert(out, e) ==
  LET k == Cardinality({i \in DOMAIN out : out[i].seq <= e.seq})
  IN  SubSeq(out, 1, k) \o <<e>> \o SubSeq(out, k + 1, Len(out))

\* Of two entries, one fits and one does not, if there are such.
Fitting == {RecordFits(e) : e \in Entry}

SmallFiles ==
  LET some == CHOOSE E \in SUBSET Entry : Cardinality(E) = 2 /\ {RecordFits(e) : e \in E} = Fitting
  IN  UNION {[1 .. n -> {t \in Piece : t.e \in some}] : n \in 0 .. MaxPieces}

SmallLists == UNION {[1 .. n -> {e \in Entry : e.id <= 2}] : n \in 0 .. MaxEntries}

ASSUME ReadsLikeTheLoop ==
  \A f \in SmallFiles :
    LET lines   == ScannedLines(f)
        records == SelectSeq(lines, Unmarshals)
    IN  /\ Parsed(f) = [k \in DOMAIN records |-> records[k][1].e]
        /\ IsInjective(f) => (TooLong(f) <=> \E k \in DOMAIN lines : Bytes(lines[k]) >= MaxLine)
        /\ Corrupt(f) <=> \E k \in 1 .. Len(lines) - 1 : lines[k] # <<>> /\ ~Unmarshals(lines[k])

ASSUME SortsStably ==
  \A s \in SmallLists, run \in RunIDs :
    Mem!OfRun(s, run) = FoldLeft(Insert, <<>>, SelectSeq(s, LAMBDA e : e.run = run))

=============================================================================
