------------------------------- MODULE FileLog -------------------------------
(***************************************************************************)
(* The JSONL log file of engine/wal/wal.go.  An Append writes one line     *)
(* while it holds the log's mutex; the operating system may take the line  *)
(* in several pieces, refuse the rest of it, or lose the process between   *)
(* two pieces.  A new process opens the file to append where it ends.      *)
(*                                                                         *)
(* A line is three pieces: the head of the record (any part of it short of *)
(* the end), its tail and the newline.  A line parses exactly when it is   *)
(* one head and its own tail: a prefix of a record lacks its last brace,   *)
(* and so does anything glued to one.                                      *)
(***************************************************************************)
EXTENDS Enumeration, Functions

CONSTANTS
  Client,       \* goroutines that share the open log
  RunIDs,       \* the runs that write to it
  MaxSeq,       \* bound on an entry's Seq
  MaxAppends,   \* bound on the number of appends
  MaxOpens,     \* bound on the number of times the log is opened
  Refusing,     \* the system may refuse a write
  Size,         \* per entry, the bytes of its record's head and of its tail
  MaxLine       \* the Scanner's limit: a line is shorter (16 MiB in the code)

ASSUME FileLogAssumption ==
  /\ "free" \notin Client
  /\ MaxSeq \in Nat /\ MaxAppends \in Nat /\ MaxOpens \in Nat \ {0}
  /\ Refusing \in BOOLEAN

VARIABLES
  file,     \* the pieces in the file
  open,     \* the handle FileLog.f is not nil
  mu,       \* the client inside a method, or "free"
  rest,     \* per client, the pieces its Append has yet to write
  acked,    \* the entries whose Append returned nil, in that order
  begun,    \* number of appends begun
  opens,    \* number of opens
  tear      \* "none"; "last": the last write left a part of a line; "buried":
            \* something was written after such a part

vars == <<file, open, mu, rest, acked, begun, opens, tear>>

Mem == INSTANCE MemLog WITH entries <- <<>>

Entry == Mem!Record

ASSUME SizeAssumption == Size \in [Entry -> [{"head", "tail"} -> Nat]] /\ MaxLine \in Nat

Piece == [part : {"head", "tail", "nl"}, e : Entry]

LineOf(e) == <<[part |-> "head", e |-> e], [part |-> "tail", e |-> e], [part |-> "nl", e |-> e]>>

-----------------------------------------------------------------------------
(* Reading the file back.                                                  *)

\* A line of f starts at its i-th piece.
Starts(f, i) == i = 1 \/ f[i - 1].part = "nl"

\* bufio.Scanner: a line ends at its newline, and the last one at the end of the
\* file if it has none.
Ends(f) == {i \in 1 .. Len(f) + 1 : IF i <= Len(f) THEN f[i].part = "nl" ELSE ~Starts(f, i)}

\* A line that json.Unmarshal accepts starts at the i-th piece.
RecordAt(f, i) ==
  /\ 1 <= i /\ i < Len(f)
  /\ f[i].part = "head" /\ f[i + 1] = [part |-> "tail", e |-> f[i].e]
  /\ Starts(f, i) /\ i + 2 \in Ends(f)

\* The bytes of a set of pieces, and whether a line of them is short enough for
\* the Scanner.
Length(pieces) == Cardinality(UNION {{t} \X (1 .. Size[t.e][t.part]) : t \in pieces})

Fits(pieces) == Length(pieces) < MaxLine

\* The pieces of the line that ends at i.
LineBefore(f, i) == {f[k] : k \in {k \in 1 .. i - 1 : \A l \in k .. i - 1 : f[l].part # "nl"}}

\* Scan stops with ErrTooLong.
TooLong(f) == \E i \in Ends(f) : ~Fits(LineBefore(f, i))

\* Replay fails on a line that is neither blank nor a record, unless it is the
\* last one.
Corrupt(f) == \E i, j \in Ends(f) : i < j /\ ~Starts(f, i) /\ ~RecordAt(f, i - 2)

\* What is unmarshalled, in the order of the file.
Parsed(f) ==
  LET heads == Pick(f, {i \in DOMAIN f : RecordAt(f, i)}) IN [k \in DOMAIN heads |-> heads[k].e]

\* Mutant: a line that does not parse is skipped wherever it is.
ReplayLenient(run, served) ==
  IF served /\ ~TooLong(file)
  THEN [ok |-> TRUE, out |-> Mem!OfRun(Parsed(file), run)]
  ELSE [ok |-> FALSE, out |-> <<>>]

\* Mutant: entries of one Seq are returned newest first.
ReplayUnstable(run, served) ==
  LET newestFirst == [k \in DOMAIN Parsed(file) |-> Parsed(file)[Len(Parsed(file)) + 1 - k]]
  IN  IF served /\ ~TooLong(file) /\ ~Corrupt(file)
      THEN [ok |-> TRUE, out |-> Mem!OfRun(newestFirst, run)]
      ELSE [ok |-> FALSE, out |-> <<>>]

\* served: the system opens the file and reads it to its end.
Replay(run, served) ==
  IF served /\ ~TooLong(file) /\ ~Corrupt(file)
  THEN [ok |-> TRUE, out |-> Mem!OfRun(Parsed(file), run)]
  ELSE [ok |-> FALSE, out |-> <<>>]

-----------------------------------------------------------------------------

Init ==
  /\ file = <<>>
  /\ open = TRUE
  /\ mu = "free"
  /\ rest = [c \in Client |-> <<>>]
  /\ acked = <<>>
  /\ begun = 0
  /\ opens = 1
  /\ tear = "none"

\* Mutant: the file is truncated.
OpenTruncating ==
  /\ ~open
  /\ opens < MaxOpens
  /\ open' = TRUE
  /\ opens' = opens + 1
  /\ file' = <<>>
  /\ UNCHANGED <<mu, rest, acked, begun, tear>>

\* NewFileLog, by the next process or after a Close: writes will go to the end
\* of the file as it is.
Open ==
  /\ ~open
  /\ opens < MaxOpens
  /\ open' = TRUE
  /\ opens' = opens + 1
  /\ UNCHANGED <<file, mu, rest, acked, begun, tear>>

\* Mutant: Append does not take the mutex.
AppendUnlocked(c) ==
  /\ open
  /\ rest[c] = <<>>
  /\ begun < MaxAppends
  /\ \E r \in RunIDs, s \in 0 .. MaxSeq :
       rest' = [rest EXCEPT ![c] = LineOf([run |-> r, seq |-> s, id |-> begun + 1])]
  /\ begun' = begun + 1
  /\ UNCHANGED <<file, open, mu, acked, opens, tear>>

\* Append marshals its entry and takes the mutex; on a closed log it returns an
\* error and changes nothing.
AppendBegins(c) ==
  /\ open
  /\ mu = "free"
  /\ begun < MaxAppends
  /\ mu' = c
  /\ \E r \in RunIDs, s \in 0 .. MaxSeq :
       rest' = [rest EXCEPT ![c] = LineOf([run |-> r, seq |-> s, id |-> begun + 1])]
  /\ begun' = begun + 1
  /\ UNCHANGED <<file, open, acked, opens, tear>>

\* The system takes the next k pieces; with the last one Append returns nil.
Write(c) ==
  /\ rest[c] # <<>>
  /\ \E k \in 1 .. Len(rest[c]) :
       /\ file' = file \o SubSeq(rest[c], 1, k)
       /\ rest' = [rest EXCEPT ![c] = SubSeq(@, k + 1, Len(@))]
       /\ IF k < Len(rest[c]) THEN UNCHANGED <<mu, acked>>
          ELSE mu' = "free" /\ acked' = Append(acked, rest[c][1].e)
  /\ tear' = IF tear = "none" THEN "none" ELSE "buried"
  /\ UNCHANGED <<open, begun, opens>>

\* What an append of c that ends now leaves behind.
Tear(c) == IF Len(rest[c]) \in {1, 2} /\ tear = "none" THEN "last" ELSE tear

\* The rest is refused (a full disk): Append returns the error.
WriteFails(c) ==
  /\ Refusing
  /\ rest[c] # <<>>
  /\ mu' = "free"
  /\ rest' = [rest EXCEPT ![c] = <<>>]
  /\ tear' = Tear(c)
  /\ UNCHANGED <<file, open, acked, begun, opens>>

Close ==
  /\ open
  /\ mu = "free"
  /\ open' = FALSE
  /\ UNCHANGED <<file, mu, rest, acked, begun, opens, tear>>

\* The process dies with whatever it was doing.
Crash ==
  /\ open
  /\ open' = FALSE
  /\ mu' = "free"
  /\ rest' = [c \in Client |-> <<>>]
  /\ tear' = IF mu = "free" THEN tear ELSE Tear(mu)
  /\ UNCHANGED <<file, acked, begun, opens>>

Next ==
  \/ Open
  \/ \E c \in Client : AppendBegins(c)
  \/ \E c \in Client : Write(c)
  \/ \E c \in Client : WriteFails(c)
  \/ Close
  \/ Crash

Spec == Init /\ [][Next]_vars

-----------------------------------------------------------------------------
(* Properties.  Replay takes the mutex, so it sees the file only between    *)
(* two appends.                                                            *)

Readable == mu = "free"

AckedOf(run) == {e \in Range(acked) : e.run = run}

\* Every variable keeps its type, and a client writes only inside the mutex.
TypeOK ==
  /\ file \in Seq(Piece)
  /\ open \in BOOLEAN
  /\ mu \in Client \cup {"free"}
  /\ rest \in [Client -> Seq(Piece)]
  /\ \A c \in Client : rest[c] # <<>> => mu = c
  /\ acked \in Seq(Entry)
  /\ begun \in 0 .. MaxAppends
  /\ opens \in 1 .. MaxOpens
  /\ tear \in {"none", "last", "buried"}

\* The record of e, on a line of its own, is one the Scanner takes; Append takes
\* it whatever its length.
RecordFits(e) == Fits({[part |-> "head", e |-> e], [part |-> "tail", e |-> e]})

\* As long as nothing was written after a torn line, and no record in the file is
\* too long for the Scanner, Replay (of a file that can be read) returns every
\* acknowledged entry of the run, and no entry but those and the one whose append
\* was cut (Replay's tolerance for the final line).
FirstTearLosesNothing ==
  Readable /\ tear # "buried" /\ (\A i \in DOMAIN file : RecordFits(file[i].e)) =>
    \A run \in RunIDs :
      LET replayed == Replay(run, TRUE)
      IN  /\ replayed.ok
          /\ AckedOf(run) \subseteq Range(replayed.out)
          /\ Cardinality(Range(replayed.out) \ AckedOf(run)) <= 1

\* What Replay returns is the run's own entries, each once, by Seq, and those of
\* one Seq in the order they were appended.
ReplayIsInOrder ==
  Readable => \A run \in RunIDs, served \in BOOLEAN :
    LET out == Replay(run, served).out
    IN  \A i \in DOMAIN out :
          /\ out[i].run = run
          /\ \A j \in 1 .. i - 1 :
               out[j].seq < out[i].seq \/ (out[j].seq = out[i].seq /\ out[j].id < out[i].id)

\* However many times the log was torn and reopened, a Replay that succeeds
\* misses at most one acknowledged entry, and that is the last one.
AtMostTheLastIsLost ==
  Readable => \A run \in RunIDs, served \in BOOLEAN :
    LET replayed == Replay(run, served)
    IN  replayed.ok =>
          AckedOf(run) \ Range(replayed.out) \subseteq (IF acked = <<>> THEN {} ELSE {acked[Len(acked)]})

\* The file is a MemLog until something is written after a torn line: each step
\* adds one whole entry at the end or none, however the writes are split, whoever
\* shares the log, and whenever a process dies or a write is refused.
AsMemLog == INSTANCE MemLog WITH entries <- Parsed(file)

ImplementsMemLog ==
  AsMemLog!Init /\ [][tear' = "buried" \/ AsMemLog!Next]_(Parsed(file))

-----------------------------------------------------------------------------
(* What the repository says of the log and the code does not do.           *)

\* "Replaying the entries for a run rebuilds the engine's state, which is what
\* lets the scheduler recover after a crash" (the package comment): Replay of a
\* file that can be read succeeds and returns every acknowledged entry.
AckedIsReplayed ==
  Readable => \A run \in RunIDs :
    LET replayed == Replay(run, TRUE)
    IN  replayed.ok /\ AckedOf(run) \subseteq Range(replayed.out)

=============================================================================
