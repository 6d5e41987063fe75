---------------------------- MODULE FileLogProofs ----------------------------
(***************************************************************************)
(* What the mutex of FileLog is for, for any number of goroutines: as long *)
(* as no write was cut short, the file is the lines of the acknowledged    *)
(* entries, in their order, and the part of one more line that the holder  *)
(* of the mutex has written.  Torn or not, each piece stands behind the    *)
(* one its Append wrote before it: from where the pieces stand follows     *)
(* what Replay returns, and that the file is a MemLog until something is   *)
(* written behind a torn line.                                             *)
(***************************************************************************)
EXTENDS FileLog, EnumerationProofs

\* The k-th piece of the i-th line.
PieceAt(i, k) == file[3 * (i - 1) + k]

\* Of e's line, c has yet to write all but the first w pieces.
InHand(c, e, w) ==
  Len(rest[c]) = 3 - w /\ \A j \in 1 .. 3 - w : rest[c][j] = LineOf(e)[w + j]

\* The holder of the mutex has written those, behind the lines of the
\* acknowledged entries.
Holding(c, e, w) ==
  /\ InHand(c, e, w)
  /\ tear = "none" =>
       /\ Len(file) = 3 * Len(acked) + w
       /\ \A k \in 1 .. w : PieceAt(Len(acked) + 1, k) = LineOf(e)[k]

LinesStayWhole ==
  /\ tear = "none" => \A i \in 1 .. Len(acked) : \A k \in 1 .. 3 : PieceAt(i, k) = LineOf(acked[i])[k]
  /\ tear = "none" /\ mu = "free" => Len(file) = 3 * Len(acked)
  /\ mu # "free" => \E e \in Entry, w \in 0 .. 2 : Holding(mu, e, w)

LInv == TypeOK /\ LinesStayWhole

-----------------------------------------------------------------------------

LEMMA LinePieces ==
  ASSUME NEW e \in Entry
  PROVE  /\ LineOf(e) \in Seq(Piece)
         /\ Len(LineOf(e)) = 3
         /\ \A k \in 1 .. 3 : LineOf(e)[k] \in Piece /\ LineOf(e)[k].e = e
  BY DEF LineOf, Piece

LEMMA SubSeqOf ==
  ASSUME NEW s \in Seq(Piece), NEW m \in 1 .. Len(s) + 1, NEW n \in m - 1 .. Len(s)
  PROVE  /\ SubSeq(s, m, n) \in Seq(Piece)
         /\ Len(SubSeq(s, m, n)) = n - m + 1
         /\ \A i \in 1 .. n - m + 1 : SubSeq(s, m, n)[i] = s[m + i - 1]
  <1>1. \A i \in m .. n : s[i] \in Piece
    OBVIOUS
  <1> QED
    BY <1>1, SubSeqProperties

THEOREM InitImpliesLInv == Init => LInv
  <1> SUFFICES ASSUME Init PROVE LInv
    OBVIOUS
  <1>1. <<>> \in Seq(Piece) /\ <<>> \in Seq(Entry) /\ Len(<<>>) = 0
    OBVIOUS
  <1> QED
    BY <1>1, FileLogAssumption DEF Init, LInv, TypeOK, LinesStayWhole

\* What a step that leaves file, acked and the holder's line alone keeps.
LEMMA NothingWritten ==
  ASSUME LInv, UNCHANGED <<file, acked, mu, rest, tear>>
  PROVE  LinesStayWhole'
  BY DEF LInv, LinesStayWhole, Holding, InHand, PieceAt

LEMMA AppendBeginsKeeps ==
  ASSUME LInv, NEW c \in Client, AppendBegins(c)
  PROVE  LInv'
  <1>2. TypeOK /\ LinesStayWhole /\ mu = "free" /\ mu' = c /\ c # "free"
    BY FileLogAssumption DEF LInv, AppendBegins
  <1>3. begun + 1 \in 1 .. MaxAppends
    BY <1>2, FileLogAssumption DEF TypeOK, AppendBegins
  <1>4. PICK e \in Entry : rest' = [rest EXCEPT ![c] = LineOf(e)]
    <2>1. PICK r \in RunIDs, s \in 0 .. MaxSeq :
            rest' = [rest EXCEPT ![c] = LineOf([run |-> r, seq |-> s, id |-> begun + 1])]
      BY DEF AppendBegins
    <2>2. [run |-> r, seq |-> s, id |-> begun + 1] \in Entry
      BY <1>3 DEF Entry, Mem!Record
    <2> QED
      BY <2>1, <2>2
  <1>5. LineOf(e) \in Seq(Piece) /\ Len(LineOf(e)) = 3
    BY <1>4, LinePieces
  <1>7. rest' \in [Client -> Seq(Piece)] /\ rest'[c] = LineOf(e)
    BY <1>2, <1>4, <1>5 DEF TypeOK
  <1>8. TypeOK'
    BY <1>2, <1>3, <1>4, <1>7, FileLogAssumption DEF TypeOK, AppendBegins
  <1>9. tear = "none" => Len(file) = 3 * Len(acked)
    BY <1>2 DEF LinesStayWhole
  <1>10. Len(acked) \in Nat
    BY <1>2 DEF TypeOK
  <1>11. Holding(c, e, 0)'
    <2>1. UNCHANGED <<file, acked, tear>>
      BY DEF AppendBegins
    <2>2. Len(rest'[c]) = 3 - 0 /\ \A j \in 1 .. 3 - 0 : rest'[c][j] = LineOf(e)[0 + j]
      BY <1>5, <1>7
    <2>3. tear' = "none" => Len(file') = 3 * Len(acked') + 0
      BY <1>9, <1>10, <2>1
    <2>4. (\A k \in 1 .. 0 : PieceAt(Len(acked) + 1, k) = LineOf(e)[k])'
      OBVIOUS
    <2> QED
      BY <2>2, <2>3, <2>4 DEF Holding, InHand
  <1>12. LinesStayWhole'
    <2>1. UNCHANGED <<file, acked, tear>>
      BY DEF AppendBegins
    <2>2. \E d \in Entry, w \in 0 .. 2 : Holding(mu, d, w)'
      BY <1>2, <1>4, <1>11 DEF Holding, InHand, PieceAt
    <2>3. tear' = "none" => \A i \in 1 .. Len(acked') : \A k \in 1 .. 3 : PieceAt(i, k)' = LineOf(acked'[i])[k]
      BY <1>2, <2>1 DEF LinesStayWhole, PieceAt
    <2> QED
      BY <1>2, <2>2, <2>3 DEF LinesStayWhole
  <1> QED
    BY <1>8, <1>12 DEF LInv

\* What a Write of c, with the first w pieces of e's line written, writes: k more.
Written(c, e, w, k) ==
  /\ file' \in Seq(Piece) /\ Len(file') = Len(file) + k
  /\ \A i \in 1 .. Len(file) : file'[i] = file[i]
  /\ \A j \in 1 .. k : file'[Len(file) + j] = LineOf(e)[w + j]
  /\ rest' \in [Client -> Seq(Piece)]
  /\ \A d \in Client \ {c} : rest'[d] = <<>>
  /\ InHand(c, e, w + k)'
  /\ IF w + k < 3 THEN UNCHANGED <<mu, acked>>
     ELSE mu' = "free" /\ acked' = Append(acked, e) /\ rest'[c] = <<>>

LEMMA WriteAppends ==
  ASSUME TypeOK, NEW c \in Client, Write(c), NEW e \in Entry, NEW w \in 0 .. 2, InHand(c, e, w)
  PROVE  mu = c /\ mu # "free" /\ \E k \in 1 .. 3 - w : Written(c, e, w, k)
  <1>1. mu = c /\ mu # "free" /\ rest[c] # <<>> /\ rest[c] \in Seq(Piece)
    BY FileLogAssumption DEF TypeOK, Write
  <1>3. PICK k \in 1 .. Len(rest[c]) :
          /\ file' = file \o SubSeq(rest[c], 1, k)
          /\ rest' = [rest EXCEPT ![c] = SubSeq(@, k + 1, Len(@))]
          /\ IF k < Len(rest[c]) THEN UNCHANGED <<mu, acked>>
             ELSE mu' = "free" /\ acked' = Append(acked, rest[c][1].e)
    BY DEF Write
  <1> DEFINE new == SubSeq(rest[c], 1, k)
             left == SubSeq(rest[c], k + 1, Len(rest[c]))
  <1>4. /\ Len(rest[c]) = 3 - w
        /\ \A j \in 1 .. 3 - w : rest[c][j] = LineOf(e)[w + j]
        /\ k \in 1 .. 3 - w
    BY DEF InHand
  <1>5. /\ new \in Seq(Piece) /\ Len(new) = k
        /\ \A j \in 1 .. k : new[j] = LineOf(e)[w + j]
    <2>1. /\ new \in Seq(Piece) /\ Len(new) = k
          /\ \A j \in 1 .. k : new[j] = rest[c][j]
      BY <1>1, <1>4, SubSeqOf
    <2>2. \A j \in 1 .. k : j \in 1 .. 3 - w
      BY <1>4
    <2> QED
      BY <1>4, <2>1, <2>2
  <1>6. /\ left \in Seq(Piece) /\ Len(left) = 3 - (w + k)
        /\ \A j \in 1 .. 3 - (w + k) : left[j] = LineOf(e)[w + k + j]
    <2>1. /\ left \in Seq(Piece) /\ Len(left) = 3 - w - k
          /\ \A j \in 1 .. 3 - w - k : left[j] = rest[c][k + j]
      BY <1>1, <1>4, SubSeqOf
    <2>2. \A j \in 1 .. 3 - w - k : k + j \in 1 .. 3 - w /\ w + (k + j) = w + k + j
      BY <1>4
    <2>3. 3 - (w + k) = 3 - w - k
      BY <1>4
    <2>4. \A j \in 1 .. 3 - w - k : left[j] = LineOf(e)[w + k + j]
      BY <1>4, <2>1, <2>2
    <2> QED
      BY <2>1, <2>3, <2>4
  <1>7. file' = file \o new /\ rest' = [rest EXCEPT ![c] = left]
    BY <1>3
  <1> HIDE DEF new, left
  <1>8. /\ file \in Seq(Piece) /\ file' \in Seq(Piece)
        /\ Len(file) \in Nat /\ Len(file') = Len(file) + k
        /\ \A i \in 1 .. Len(file) : file'[i] = file[i]
        /\ \A j \in 1 .. k : file'[Len(file) + j] = LineOf(e)[w + j]
    <2>1. file \in Seq(Piece)
      BY DEF TypeOK
    <2>2. /\ file \o new \in Seq(Piece) /\ Len(file \o new) = Len(file) + Len(new) /\ Len(file) \in Nat
          /\ \A i \in 1 .. Len(file) + Len(new) :
               (file \o new)[i] = IF i <= Len(file) THEN file[i] ELSE new[i - Len(file)]
      BY <1>5, <2>1, ConcatProperties
    <2>3. \A j \in 1 .. k : Len(file) + j \in 1 .. Len(file) + k /\ ~ (Len(file) + j <= Len(file))
                            /\ (Len(file) + j) - Len(file) = j
      BY <2>2
    <2> QED
      BY <1>5, <1>7, <2>1, <2>2, <2>3
  <1>9. /\ rest' \in [Client -> Seq(Piece)] /\ rest'[c] = left
        /\ \A d \in Client \ {c} : rest'[d] = <<>>
    BY <1>1, <1>6, <1>7 DEF TypeOK
  <1>10. CASE w + k < 3
    <2>1. UNCHANGED <<mu, acked>>
      BY <1>3, <1>4, <1>10
    <2>2. InHand(c, e, w + k)'
      BY <1>6, <1>9 DEF InHand
    <2>3. Written(c, e, w, k)
      BY <1>8, <1>9, <1>10, <2>1, <2>2 DEF Written
    <2> QED
      BY <1>1, <1>4, <2>3
  <1>11. CASE w + k = 3
    <2>1. mu' = "free" /\ acked' = Append(acked, e)
      <3>1. rest[c][1] = LineOf(e)[w + 1]
        BY <1>4
      <3>2. LineOf(e)[w + 1].e = e
        BY <1>4, LinePieces
      <3>3. ~ (k < Len(rest[c]))
        BY <1>4, <1>11
      <3>4. mu' = "free" /\ acked' = Append(acked, rest[c][1].e)
        BY <1>3, <3>3
      <3> QED
        BY <3>1, <3>2, <3>4
    <2>2. rest'[c] = <<>>
      <3>1. Len(left) = 0
        BY <1>6, <1>11
      <3> QED
        BY <1>6, <1>9, <3>1
    <2>3. InHand(c, e, w + k)'
      BY <1>6, <1>9 DEF InHand
    <2>4. ~ (w + k < 3)
      BY <1>11
    <2>5. Written(c, e, w, k)
      BY <1>8, <1>9, <2>1, <2>2, <2>3, <2>4 DEF Written
    <2> QED
      BY <1>1, <1>4, <2>5
  <1> QED
    BY <1>1, <1>4, <1>10, <1>11

LEMMA WriteKeeps ==
  ASSUME LInv, NEW c \in Client, Write(c)
  PROVE  LInv'
  <1>1. TypeOK /\ LinesStayWhole /\ mu = c /\ mu # "free"
    BY FileLogAssumption DEF LInv, TypeOK, Write
  <1>2. PICK e \in Entry, w \in 0 .. 2 : Holding(c, e, w)
    BY <1>1 DEF LinesStayWhole
  <1>3. PICK k \in 1 .. 3 - w : Written(c, e, w, k)
    BY <1>1, <1>2, WriteAppends DEF Holding
  <1>4. k \in 1 .. 3 - w
    OBVIOUS
  <1>8. /\ file \in Seq(Piece) /\ file' \in Seq(Piece)
        /\ Len(file) \in Nat /\ Len(file') = Len(file) + k
        /\ \A i \in 1 .. Len(file) : file'[i] = file[i]
        /\ \A j \in 1 .. k : file'[Len(file) + j] = LineOf(e)[w + j]
    <2>1. file \in Seq(Piece)
      BY <1>1 DEF TypeOK
    <2> QED
      BY <1>3, <2>1 DEF Written
  <1>9. /\ rest' \in [Client -> Seq(Piece)] /\ InHand(c, e, w + k)'
        /\ \A d \in Client \ {c} : rest'[d] = <<>>
    BY <1>3 DEF Written
  <1>10. tear = "none" <=> tear' = "none"
    BY DEF Write
  <1>11. tear' \in {"none", "last", "buried"} /\ UNCHANGED <<open, begun, opens>>
    BY DEF Write
  <1>12. acked \in Seq(Entry) /\ Len(acked) \in Nat
    BY <1>1 DEF TypeOK
  <1>13. \A i \in 1 .. Len(acked) : \A j \in 1 .. 3 :
           tear = "none" => /\ 3 * (i - 1) + j \in 1 .. Len(file)
                            /\ file'[3 * (i - 1) + j] = LineOf(acked[i])[j]
    <2>1. tear = "none" => Len(file) = 3 * Len(acked) + w
      BY <1>2 DEF Holding
    <2> SUFFICES ASSUME tear = "none", NEW i \in 1 .. Len(acked), NEW j \in 1 .. 3
                 PROVE  /\ 3 * (i - 1) + j \in 1 .. Len(file)
                        /\ file'[3 * (i - 1) + j] = LineOf(acked[i])[j]
      OBVIOUS
    <2>2. 3 * (i - 1) + j \in 1 .. Len(file)
      BY <1>12, <2>1
    <2>3. file[3 * (i - 1) + j] = LineOf(acked[i])[j]
      BY <1>1 DEF LinesStayWhole, PieceAt
    <2> QED
      BY <1>8, <2>2, <2>3
  <1>14. tear = "none" => \A j \in 1 .. w + k : file'[3 * Len(acked) + j] = LineOf(e)[j]
    <2> SUFFICES ASSUME tear = "none", NEW j \in 1 .. w + k
                 PROVE  file'[3 * Len(acked) + j] = LineOf(e)[j]
      OBVIOUS
    <2>1. Len(file) = 3 * Len(acked) + w /\ \A i \in 1 .. w : file[3 * ((Len(acked) + 1) - 1) + i] = LineOf(e)[i]
      BY <1>2 DEF Holding, PieceAt
    <2>2. 3 * ((Len(acked) + 1) - 1) = 3 * Len(acked)
      BY <1>12
    <2>3. CASE j \in 1 .. w
      <3>1. 3 * Len(acked) + j \in 1 .. Len(file)
        BY <1>12, <2>1, <2>3
      <3>2. file'[3 * Len(acked) + j] = file[3 * Len(acked) + j]
        BY <1>8, <3>1
      <3> QED
        BY <2>1, <2>2, <2>3, <3>2
    <2>4. CASE j \notin 1 .. w
      <3>1. j - w \in 1 .. k /\ Len(file) + (j - w) = 3 * Len(acked) + j /\ w + (j - w) = j
        BY <1>4, <1>12, <2>1, <2>4
      <3>2. file'[Len(file) + (j - w)] = LineOf(e)[w + (j - w)]
        BY <1>8, <3>1
      <3> QED
        BY <3>1, <3>2
    <2> QED
      BY <2>3, <2>4
  <1>15. CASE w + k < 3
    <2>1. UNCHANGED <<mu, acked>>
      BY <1>3, <1>15 DEF Written
    <2>2. TypeOK'
      BY <1>1, <1>8, <1>9, <1>11, <2>1 DEF TypeOK
    <2>3. w + k \in 0 .. 2
      BY <1>4, <1>15
    <2>4. 3 * ((Len(acked) + 1) - 1) = 3 * Len(acked)
      BY <1>12
    <2>5. tear = "none" => Len(file') = 3 * Len(acked) + (w + k)
      <3>1. tear = "none" => Len(file) = 3 * Len(acked) + w
        BY <1>2 DEF Holding
      <3>2. Len(file') = Len(file) + k /\ Len(acked) \in Nat /\ Len(file) \in Nat
        BY <1>8, <1>12
      <3> QED
        BY <1>4, <3>1, <3>2
    <2>6. Holding(c, e, w + k)'
      BY <1>9, <1>10, <1>14, <2>1, <2>4, <2>5 DEF Holding, PieceAt
    <2> QED
      BY <1>1, <1>10, <1>13, <2>1, <2>2, <2>3, <2>6 DEF LInv, LinesStayWhole, PieceAt
  <1>16. CASE w + k = 3
    <2>1. mu' = "free" /\ acked' = Append(acked, e) /\ rest'[c] = <<>>
      BY <1>3, <1>16 DEF Written
    <2>2. /\ acked' \in Seq(Entry) /\ Len(acked') = Len(acked) + 1
          /\ \A i \in 1 .. Len(acked) : acked'[i] = acked[i]
          /\ acked'[Len(acked) + 1] = e
      BY <1>12, <2>1
    <2>4. TypeOK'
      BY <1>1, <1>8, <1>9, <1>11, <2>1, <2>2 DEF TypeOK
    <2>5. tear = "none" => Len(file') = 3 * Len(acked')
      <3>1. tear = "none" => Len(file) = 3 * Len(acked) + w
        BY <1>2 DEF Holding
      <3> QED
        <4>1. /\ Len(file) \in Nat /\ Len(file') = Len(file) + k
              /\ Len(acked) \in Nat /\ Len(acked') = Len(acked) + 1
          BY <1>8, <1>12, <2>2
        <4> QED
          BY <1>4, <1>16, <3>1, <4>1
    <2>6. ASSUME tear' = "none", NEW i \in 1 .. Len(acked'), NEW j \in 1 .. 3
          PROVE  file'[3 * (i - 1) + j] = LineOf(acked'[i])[j]
      <3>1. CASE i \in 1 .. Len(acked)
        BY <1>10, <1>13, <2>2, <2>6, <3>1
      <3>2. CASE i = Len(acked) + 1
        <4>1. 3 * (i - 1) = 3 * Len(acked) /\ j \in 1 .. w + k
          BY <1>12, <1>16, <3>2
        <4> QED
          BY <1>10, <1>14, <2>2, <2>6, <3>2, <4>1
      <3> QED
        BY <1>12, <2>2, <3>1, <3>2
    <2> QED
      BY <1>10, <2>1, <2>4, <2>5, <2>6 DEF LInv, LinesStayWhole, PieceAt
  <1> QED
    BY <1>4, <1>15, <1>16

\* The append of c ends before its line is written.
LEMMA CutKeeps ==
  ASSUME LInv, NEW c \in Client, mu = c, mu' = "free",
         tear' = Tear(c), UNCHANGED <<file, acked>>
  PROVE  LinesStayWhole'
  <1>1. TypeOK /\ LinesStayWhole /\ mu # "free" /\ tear \in {"none", "last", "buried"}
    BY FileLogAssumption DEF LInv, TypeOK
  <1>2. PICK e \in Entry, w \in 0 .. 2 : Holding(c, e, w)
    BY <1>1 DEF LinesStayWhole
  <1>3. tear' = "none" => tear = "none" /\ w = 0
    BY <1>1, <1>2 DEF Tear, Holding, InHand
  <1>4. Len(acked) \in Nat
    BY <1>1 DEF TypeOK
  <1>5. tear' = "none" => Len(file) = 3 * Len(acked)
    BY <1>2, <1>3, <1>4 DEF Holding
  <1> QED
    BY <1>1, <1>3, <1>5 DEF LinesStayWhole, PieceAt

LEMMA WriteFailsKeeps ==
  ASSUME LInv, NEW c \in Client, WriteFails(c)
  PROVE  LInv'
  <1>1. TypeOK /\ mu = c /\ <<>> \in Seq(Piece)
    BY DEF LInv, TypeOK, WriteFails
  <1>2. TypeOK'
    BY <1>1 DEF TypeOK, WriteFails, Tear
  <1>3. LinesStayWhole'
    BY <1>1, CutKeeps DEF WriteFails
  <1> QED
    BY <1>2, <1>3 DEF LInv

LEMMA CrashKeeps ==
  ASSUME LInv, Crash
  PROVE  LInv'
  <1>1. TypeOK /\ LinesStayWhole /\ <<>> \in Seq(Piece)
    BY DEF LInv
  <1>2. TypeOK'
    BY <1>1 DEF TypeOK, Crash, Tear
  <1>3. LinesStayWhole'
    <2>1. CASE mu = "free"
      BY <1>1, <2>1 DEF LinesStayWhole, PieceAt, Crash
    <2>2. CASE mu # "free"
      BY <1>1, <2>2, CutKeeps DEF Crash, TypeOK
    <2> QED
      BY <2>1, <2>2
  <1> QED
    BY <1>2, <1>3 DEF LInv

THEOREM NextKeepsLInv == LInv /\ [Next]_vars => LInv'
  <1> SUFFICES ASSUME LInv, [Next]_vars
               PROVE  LInv'
    OBVIOUS
  <1>1. TypeOK
    BY DEF LInv
  <1>2. CASE Open
    <2>1. LinesStayWhole'
      BY <1>2, NothingWritten DEF Open
    <2>2. TypeOK'
      BY <1>1, <1>2, FileLogAssumption DEF TypeOK, Open
    <2> QED
      BY <2>1, <2>2 DEF LInv
  <1>3. CASE Close
    <2>1. LinesStayWhole'
      BY <1>3, NothingWritten DEF Close
    <2>2. TypeOK'
      BY <1>1, <1>3 DEF TypeOK, Close
    <2> QED
      BY <2>1, <2>2 DEF LInv
  <1>4. CASE UNCHANGED vars
    <2>1. LinesStayWhole'
      BY <1>4, NothingWritten DEF vars
    <2>2. TypeOK'
      BY <1>1, <1>4 DEF TypeOK, vars
    <2> QED
      BY <2>1, <2>2 DEF LInv
  <1> QED
    BY <1>2, <1>3, <1>4, AppendBeginsKeeps, WriteKeeps, WriteFailsKeeps, CrashKeeps DEF Next

THEOREM Invariance == Spec => []LInv
  BY InitImpliesLInv, NextKeepsLInv, PTL DEF Spec

\* The variables keep their types, and only the holder of the mutex has anything
\* to write (FileLog.mu).
THEOREM FileLogTypeCorrect == Spec => []TypeOK
  <1>1. LInv => TypeOK
    BY DEF LInv
  <1> QED
    BY <1>1, Invariance, PTL

\* Until a write is cut short, the file holds the lines of the acknowledged
\* entries one behind the other, each whole and in the order of the
\* acknowledgements, whoever appends, closes, opens or dies in between.
THEOREM AcknowledgedLinesAreWhole == Spec => []LinesStayWhole
  <1>1. LInv => LinesStayWhole
    BY DEF LInv
  <1> QED
    BY <1>1, Invariance, PTL

-----------------------------------------------------------------------------
(* Where the pieces of the file stand, torn or not: what Replay depends on.  *)

\* A piece stands behind the one its Append wrote before it.
Chained ==
  \A i \in DOMAIN file :
    /\ file[i].part = "tail" => i > 1 /\ file[i - 1] = [part |-> "head", e |-> file[i].e]
    /\ file[i].part = "nl"   => i > 1 /\ file[i - 1] = [part |-> "tail", e |-> file[i].e]

\* The entries are in the file, and were acknowledged, in the order in which
\* they were begun.
InBegunOrder ==
  /\ \A i, j \in DOMAIN file : i < j =>
       file[i].e.id <= file[j].e.id /\ (file[j].part = "head" => file[i].e.id < file[j].e.id)
  /\ \A k, l \in DOMAIN acked : k < l => acked[k].id < acked[l].id
  /\ \A i \in DOMAIN file : file[i].e.id <= begun
  /\ \A k \in DOMAIN acked : acked[k].id <= begun

\* An entry is acknowledged with its newline.
NewlinesAcknowledge ==
  /\ \A k \in DOMAIN acked : \E i \in DOMAIN file : file[i] = [part |-> "nl", e |-> acked[k]]
  /\ \A i \in DOMAIN file : file[i].part = "nl" => \E k \in DOMAIN acked : acked[k] = file[i].e

\* Until something is written behind a torn line, every line but the last ends in
\* its newline, and so does the last unless it is torn or being written.
TornAtTheEnd ==
  /\ tear # "buried" => \A i \in DOMAIN file : file[i].part = "head" => Starts(file, i)
  /\ tear = "none" /\ file # <<>> /\ (mu = "free" \/ Len(rest[mu]) = 3) => file[Len(file)].part = "nl"

\* The line c writes is that of the newest entry e, its first w pieces at the end
\* of the file.
Newest(c, e, w) ==
  /\ InHand(c, e, w)
  /\ e.id = begun
  /\ \A k \in DOMAIN acked : acked[k].id < begun
  /\ IF w = 0 THEN \A i \in DOMAIN file : file[i].e.id < begun
     ELSE file # <<>> /\ file[Len(file)] = LineOf(e)[w]

HolderWritesNewest == mu # "free" => \E e \in Entry, w \in 0 .. 2 : Newest(mu, e, w)

PInv == Chained /\ InBegunOrder /\ NewlinesAcknowledge /\ TornAtTheEnd /\ HolderWritesNewest

LEMMA PartsOfLine ==
  ASSUME NEW e \in Entry
  PROVE  /\ LineOf(e)[1] = [part |-> "head", e |-> e]
         /\ LineOf(e)[2] = [part |-> "tail", e |-> e]
         /\ LineOf(e)[3] = [part |-> "nl", e |-> e]
         /\ \A m \in 1 .. 3 : LineOf(e)[m].part = "head" => m = 1
         /\ \A m \in 1 .. 3 : LineOf(e)[m].part = "tail" => m = 2
         /\ \A m \in 1 .. 3 : LineOf(e)[m].part = "nl" => m = 3
  <1>1. /\ LineOf(e)[1] = [part |-> "head", e |-> e]
        /\ LineOf(e)[2] = [part |-> "tail", e |-> e]
        /\ LineOf(e)[3] = [part |-> "nl", e |-> e]
    BY DEF LineOf
  <1>2. \A m \in 1 .. 3 : m = 1 \/ m = 2 \/ m = 3
    OBVIOUS
  <1> QED
    BY <1>1, <1>2

LEMMA EntryIds ==
  ASSUME TypeOK
  PROVE  /\ DOMAIN file = 1 .. Len(file) /\ Len(file) \in Nat
         /\ DOMAIN acked = 1 .. Len(acked) /\ Len(acked) \in Nat
         /\ begun \in Int
         /\ \A i \in 1 .. Len(file) : file[i] \in Piece /\ file[i].e \in Entry /\ file[i].e.id \in Int
         /\ \A k \in 1 .. Len(acked) : acked[k] \in Entry /\ acked[k].id \in Int
  <1>1. file \in Seq(Piece) /\ acked \in Seq(Entry) /\ begun \in Int
    BY FileLogAssumption DEF TypeOK
  <1>2. \A i \in 1 .. Len(file) : file[i] \in Piece
    BY <1>1
  <1>3. \A k \in 1 .. Len(acked) : acked[k] \in Entry
    BY <1>1
  <1>4. \A t \in Piece : t.e \in Entry
    BY DEF Piece
  <1>5. \A e \in Entry : e.id \in Int
    BY FileLogAssumption DEF Entry, Mem!Record
  <1> QED
    BY <1>1, <1>2, <1>3, <1>4, <1>5

LEMMA InitImpliesPInv == Init => PInv
  BY FileLogAssumption DEF Init, PInv, Chained, InBegunOrder, NewlinesAcknowledge, TornAtTheEnd, HolderWritesNewest

LEMMA WriteKeepsPInv ==
  ASSUME TypeOK, TypeOK', PInv, NEW c \in Client, Write(c)
  PROVE  PInv'
  <1>1. mu = c /\ mu # "free" /\ c # "free"
    BY FileLogAssumption DEF TypeOK, Write
  <1>2. PICK e \in Entry, w \in 0 .. 2 : Newest(c, e, w)
    BY <1>1 DEF PInv, HolderWritesNewest
  <1>3. PICK k \in 1 .. 3 - w : Written(c, e, w, k)
    BY <1>2, WriteAppends DEF Newest
  <1> DEFINE n == Len(file)
             m(i) == w + (i - n)
  <1>4. /\ n \in Nat /\ DOMAIN file = 1 .. n
        /\ begun \in Int /\ e.id \in Int /\ e.id = begun
        /\ \A i \in 1 .. n : file[i].e.id \in Int
    BY <1>2, EntryIds, FileLogAssumption DEF Newest, Entry, Mem!Record
  <1>5. /\ Len(file') = n + k /\ DOMAIN file' = 1 .. n + k
        /\ \A i \in 1 .. n : file'[i] = file[i]
    BY <1>3, <1>4 DEF Written
  <1>6. \A i \in n + 1 .. n + k : m(i) \in 1 .. 3 /\ m(i) <= w + k /\ file'[i] = LineOf(e)[m(i)] /\ file'[i].e = e
    <2> SUFFICES ASSUME NEW i \in n + 1 .. n + k
                 PROVE  m(i) \in 1 .. 3 /\ m(i) <= w + k /\ file'[i] = LineOf(e)[m(i)] /\ file'[i].e = e
      OBVIOUS
    <2>1. i - n \in 1 .. k /\ n + (i - n) = i /\ m(i) \in 1 .. 3 /\ m(i) <= w + k
      BY <1>4
    <2>2. file'[n + (i - n)] = LineOf(e)[w + (i - n)]
      BY <1>3, <2>1 DEF Written
    <2> QED
      <3>1. file'[i] = LineOf(e)[m(i)]
        BY <2>1, <2>2
      <3>2. LineOf(e)[m(i)].e = e
        BY <2>1, LinePieces
      <3> QED
        BY <2>1, <3>1, <3>2
  <1>7. \A i \in 1 .. n + k : i \in 1 .. n \/ i \in n + 1 .. n + k
    BY <1>4
  <1>8. \A i \in n + 1 .. n + k : m(i) > 1 => i > 1 /\ file'[i - 1] = LineOf(e)[m(i) - 1]
    <2> SUFFICES ASSUME NEW i \in n + 1 .. n + k, m(i) > 1
                 PROVE  i > 1 /\ file'[i - 1] = LineOf(e)[m(i) - 1]
      OBVIOUS
    <2>1. CASE i = n + 1
      <3>1. w > 0 /\ m(i) - 1 = w /\ i - 1 = n
        BY <1>4, <2>1
      <3>2. n > 0 /\ file[n] = LineOf(e)[w]
        <4>1. file # <<>> /\ file[n] = LineOf(e)[w]
          BY <1>2, <3>1 DEF Newest
        <4>2. file \in Seq(Piece)
          BY DEF TypeOK
        <4> QED
          BY <1>4, <4>1, <4>2
      <3> QED
        BY <1>4, <1>5, <2>1, <3>1, <3>2
    <2>2. CASE i # n + 1
      <3>1. i - 1 \in n + 1 .. n + k /\ m(i - 1) = m(i) - 1 /\ i > 1
        BY <1>4, <2>2
      <3> QED
        BY <1>6, <3>1
    <2> QED
      BY <2>1, <2>2
  <1>9. /\ \A i \in n + 1 .. n + k : file'[i].part = "head" => m(i) = 1
        /\ \A i \in n + 1 .. n + k : file'[i].part = "tail" => m(i) = 2
        /\ \A i \in n + 1 .. n + k : file'[i].part = "nl" => m(i) = 3
    <2>1. /\ \A x \in 1 .. 3 : LineOf(e)[x].part = "head" => x = 1
          /\ \A x \in 1 .. 3 : LineOf(e)[x].part = "tail" => x = 2
          /\ \A x \in 1 .. 3 : LineOf(e)[x].part = "nl" => x = 3
      BY PartsOfLine
    <2> HIDE DEF m
    <2> SUFFICES ASSUME NEW i \in n + 1 .. n + k
                 PROVE  /\ file'[i].part = "head" => m(i) = 1
                        /\ file'[i].part = "tail" => m(i) = 2
                        /\ file'[i].part = "nl" => m(i) = 3
      OBVIOUS
    <2>2. m(i) \in 1 .. 3 /\ file'[i] = LineOf(e)[m(i)]
      BY <1>6
    <2> QED
      BY <2>1, <2>2
  <1>18. \A i \in n + 1 .. n + k : m(i) = 1 => w = 0 /\ i = n + 1
    BY <1>4
  <1>19. \A i \in n + 1 .. n + k : m(i) = 3 => w + k = 3
    BY <1>4
  <1> HIDE DEF m
  <1>10. Chained'
    <2> SUFFICES ASSUME NEW i \in 1 .. n + k
                 PROVE  /\ file'[i].part = "tail" => i > 1 /\ file'[i - 1] = [part |-> "head", e |-> file'[i].e]
                        /\ file'[i].part = "nl"   => i > 1 /\ file'[i - 1] = [part |-> "tail", e |-> file'[i].e]
      BY <1>5 DEF Chained
    <2>1. CASE i \in 1 .. n
      <3>1. i > 1 => i - 1 \in 1 .. n
        BY <1>4, <2>1
      <3> QED
        BY <1>4, <1>5, <2>1, <3>1 DEF PInv, Chained
    <2>2. CASE i \in n + 1 .. n + k
      <3>1. m(i) = 2 => i > 1 /\ file'[i - 1] = LineOf(e)[1]
        BY <1>8, <2>2
      <3>2. m(i) = 3 => i > 1 /\ file'[i - 1] = LineOf(e)[2]
        BY <1>8, <2>2
      <3> QED
        BY <1>6, <1>9, <2>2, <3>1, <3>2, PartsOfLine
    <2> QED
      BY <1>7, <2>1, <2>2
  <1>11. acked \in Seq(Entry) /\ Len(acked) \in Nat /\ DOMAIN acked = 1 .. Len(acked)
         /\ \A l \in 1 .. Len(acked) : acked[l].id \in Int /\ acked[l].id < begun
    BY <1>2, EntryIds DEF Newest, TypeOK
  <1>12. \/ w + k < 3 /\ UNCHANGED <<mu, acked>>
         \/ /\ w + k = 3 /\ mu' = "free" /\ DOMAIN acked' = 1 .. Len(acked) + 1
            /\ \A l \in 1 .. Len(acked) : acked'[l] = acked[l]
            /\ acked'[Len(acked) + 1] = e
    <2>1. CASE w + k < 3
      BY <1>3, <2>1 DEF Written
    <2>2. CASE ~ (w + k < 3)
      <3>1. w + k = 3 /\ mu' = "free" /\ acked' = Append(acked, e)
        BY <1>3, <2>2 DEF Written
      <3>2. /\ Append(acked, e) \in Seq(Entry) /\ Len(Append(acked, e)) = Len(acked) + 1
            /\ \A l \in 1 .. Len(acked) : Append(acked, e)[l] = acked[l]
            /\ Append(acked, e)[Len(acked) + 1] = e
        BY <1>11
      <3> QED
        BY <3>1, <3>2
    <2> QED
      BY <2>1, <2>2
  <1>13. begun' = begun
    BY DEF Write
  <1>14. InBegunOrder'
    <2>1. ASSUME NEW i \in 1 .. n + k, NEW j \in 1 .. n + k, i < j
          PROVE  file'[i].e.id <= file'[j].e.id /\ (file'[j].part = "head" => file'[i].e.id < file'[j].e.id)
      <3>1. CASE i \in 1 .. n /\ j \in 1 .. n
        BY <1>4, <1>5, <2>1, <3>1 DEF PInv, InBegunOrder
      <3>2. CASE i \in 1 .. n /\ j \in n + 1 .. n + k
        <4>1. file[i].e.id <= begun
          BY <1>4, <3>2 DEF PInv, InBegunOrder
        <4>2. w = 0 => file[i].e.id < begun
          BY <1>2, <1>4, <3>2 DEF Newest
        <4> QED
          BY <1>4, <1>5, <1>6, <1>9, <1>18, <3>2, <4>1, <4>2
      <3>3. CASE i \in n + 1 .. n + k /\ j \in n + 1 .. n + k
        BY <1>4, <1>6, <1>9, <1>18, <2>1, <3>3
      <3> QED
        BY <1>4, <1>7, <2>1, <3>1, <3>2, <3>3
    <2>2. ASSUME NEW i \in 1 .. n + k
          PROVE  file'[i].e.id <= begun
      <3>1. CASE i \in 1 .. n
        BY <1>4, <1>5, <3>1 DEF PInv, InBegunOrder
      <3>2. CASE i \in n + 1 .. n + k
        BY <1>4, <1>6, <3>2
      <3> QED
        BY <1>7, <3>1, <3>2
    <2>3. \A i, l \in DOMAIN acked' : i < l => acked'[i].id < acked'[l].id
      <3>1. \A i, l \in DOMAIN acked : i < l => acked[i].id < acked[l].id
        BY DEF PInv, InBegunOrder
      <3>2. CASE w + k < 3
        BY <1>12, <3>1, <3>2
      <3>3. CASE w + k = 3
        <4> SUFFICES ASSUME NEW i \in 1 .. Len(acked) + 1, NEW l \in 1 .. Len(acked) + 1, i < l
                     PROVE  acked'[i].id < acked'[l].id
          BY <1>12, <3>3
        <4>1. i \in 1 .. Len(acked)
          BY <1>11
        <4>2. CASE l \in 1 .. Len(acked)
          BY <1>11, <1>12, <3>1, <3>3, <4>1, <4>2
        <4>3. CASE l = Len(acked) + 1
          BY <1>4, <1>11, <1>12, <3>3, <4>1, <4>3
        <4> QED
          BY <1>11, <4>2, <4>3
      <3> QED
        BY <1>12, <3>2, <3>3
    <2>4. \A l \in DOMAIN acked' : acked'[l].id <= begun
      <3>1. \A l \in DOMAIN acked : acked[l].id <= begun
        BY <1>4, <1>11
      <3>2. CASE w + k < 3
        BY <1>12, <3>1, <3>2
      <3>3. CASE w + k = 3
        <4> SUFFICES ASSUME NEW l \in 1 .. Len(acked) + 1
                     PROVE  acked'[l].id <= begun
          BY <1>12, <3>3
        <4>1. CASE l \in 1 .. Len(acked)
          BY <1>11, <1>12, <3>1, <3>3, <4>1
        <4>2. CASE l = Len(acked) + 1
          BY <1>4, <1>11, <1>12, <3>3, <4>2
        <4> QED
          BY <1>11, <4>1, <4>2
      <3> QED
        BY <1>12, <3>2, <3>3
    <2> QED
      BY <1>5, <1>13, <2>1, <2>2, <2>3, <2>4 DEF InBegunOrder
  <1>15. NewlinesAcknowledge'
    <2>1. \A l \in DOMAIN acked : \E i \in 1 .. n : file[i] = [part |-> "nl", e |-> acked[l]]
      BY <1>4 DEF PInv, NewlinesAcknowledge
    <2>2. \A i \in 1 .. n : file[i].part = "nl" => \E l \in DOMAIN acked : acked[l] = file[i].e
      BY <1>4 DEF PInv, NewlinesAcknowledge
    <2>3. \A i \in n + 1 .. n + k : file'[i].part = "nl" => w + k = 3 /\ file'[i].e = e
      BY <1>6, <1>9, <1>19
    <2>4. \A i \in 1 .. n : i \in 1 .. n + k
      BY <1>4
    <2>5. CASE w + k < 3
      <3>1. acked' = acked
        BY <1>12, <2>5
      <3>2. ASSUME NEW l \in DOMAIN acked'
            PROVE  \E i \in DOMAIN file' : file'[i] = [part |-> "nl", e |-> acked'[l]]
        BY <1>5, <2>1, <2>4, <3>1
      <3>3. ASSUME NEW i \in DOMAIN file', file'[i].part = "nl"
            PROVE  \E l \in DOMAIN acked' : acked'[l] = file'[i].e
        <4>1. i \in 1 .. n
          BY <1>5, <1>7, <2>3, <2>5, <3>3
        <4> QED
          BY <1>5, <2>2, <3>1, <3>3, <4>1
      <3> QED
        BY <3>2, <3>3 DEF NewlinesAcknowledge
    <2>6. CASE w + k = 3
      <3>1. n + k \in n + 1 .. n + k /\ n + k \in 1 .. n + k /\ m(n + k) = 3
        BY <1>4, <2>6 DEF m
      <3>2. file'[n + k] = [part |-> "nl", e |-> e]
        <4>1. file'[n + k] = LineOf(e)[m(n + k)]
          BY <1>6, <3>1
        <4>2. LineOf(e)[3] = [part |-> "nl", e |-> e]
          BY PartsOfLine DEF LineOf
        <4> QED
          BY <3>1, <4>1, <4>2
      <3>3. ASSUME NEW l \in DOMAIN acked'
            PROVE  \E i \in DOMAIN file' : file'[i] = [part |-> "nl", e |-> acked'[l]]
        <4>1. CASE l \in 1 .. Len(acked)
          <5>1. PICK i \in 1 .. n : file[i] = [part |-> "nl", e |-> acked[l]]
            BY <1>11, <2>1, <4>1
          <5>2. acked'[l] = acked[l]
            BY <1>12, <2>6, <4>1
          <5> QED
            BY <1>5, <2>4, <5>1, <5>2
        <4>2. CASE l = Len(acked) + 1
          BY <1>5, <1>12, <2>6, <3>1, <3>2, <4>2
        <4> QED
          BY <1>11, <1>12, <2>6, <3>3, <4>1, <4>2
      <3>4. ASSUME NEW i \in DOMAIN file', file'[i].part = "nl"
            PROVE  \E l \in DOMAIN acked' : acked'[l] = file'[i].e
        <4>0. \A l \in 1 .. Len(acked) : l \in DOMAIN acked'
          BY <1>11, <1>12, <2>6
        <4>1. CASE i \in 1 .. n
          BY <1>5, <1>11, <1>12, <2>2, <2>6, <3>4, <4>0, <4>1
        <4>2. CASE i \in n + 1 .. n + k
          <5>1. Len(acked) + 1 \in DOMAIN acked' /\ acked'[Len(acked) + 1] = e
            BY <1>11, <1>12, <2>6
          <5> QED
            BY <2>3, <3>4, <4>2, <5>1
        <4> QED
          BY <1>5, <1>7, <3>4, <4>1, <4>2
      <3> QED
        BY <3>3, <3>4 DEF NewlinesAcknowledge
    <2> QED
      BY <1>12, <2>5, <2>6
  <1>16. TornAtTheEnd'
    <2>1. tear' # "buried" => tear = "none"
      BY DEF Write, TypeOK
    <2>2. ASSUME tear = "none", w = 0, n > 0
          PROVE  file[n].part = "nl"
      <3>1. Len(rest[mu]) = 3 /\ file # <<>>
        BY <1>1, <1>2, <2>2 DEF Newest, InHand
      <3> QED
        BY <2>2, <3>1 DEF PInv, TornAtTheEnd
    <2>3. ASSUME tear' # "buried", NEW i \in DOMAIN file', file'[i].part = "head"
          PROVE  Starts(file', i)
      <3>1. CASE i \in 1 .. n
        <4>1. Starts(file, i)
          BY <1>4, <1>5, <2>1, <2>3, <3>1 DEF PInv, TornAtTheEnd
        <4>2. i = 1 \/ i - 1 \in 1 .. n
          BY <1>4, <3>1
        <4> QED
          BY <1>5, <4>1, <4>2 DEF Starts
      <3>2. CASE i \in n + 1 .. n + k
        <4>1. w = 0 /\ i = n + 1
          BY <1>9, <1>18, <2>3, <3>2
        <4>2. n = 0 \/ (n > 0 /\ i - 1 = n /\ n \in 1 .. n)
          BY <1>4, <4>1
        <4> QED
          BY <1>4, <1>5, <2>1, <2>2, <2>3, <4>1, <4>2 DEF Starts
      <3> QED
        BY <1>5, <1>7, <2>3, <3>1, <3>2
    <2>4. ASSUME tear' = "none", mu' = "free" \/ Len(rest'[mu']) = 3
          PROVE  file'[Len(file')].part = "nl"
      <3>1. w + k = 3
        <4>1. w + k < 3 => Len(rest'[c]) = 3 - (w + k)
          BY <1>3 DEF Written, InHand
        <4>2. w + k < 3 => mu' = c
          BY <1>1, <1>12
        <4>3. w + k < 3 => Len(rest'[c]) = 3
          BY <1>1, <2>4, <4>2
        <4>4. w + k \in 1 .. 3
          OBVIOUS
        <4>5. ~ (w + k < 3)
          <5> SUFFICES ASSUME w + k < 3 PROVE FALSE
            OBVIOUS
          <5>1. 3 - (w + k) = 3
            BY <4>1, <4>3
          <5> QED
            BY <4>4, <5>1
        <4> QED
          BY <4>4, <4>5
      <3>2. n + k \in n + 1 .. n + k /\ m(n + k) = 3
        BY <1>4, <3>1 DEF m
      <3>3. file'[n + k] = LineOf(e)[3]
        BY <1>6, <3>2
      <3>4. LineOf(e)[3].part = "nl"
        <4>1. LineOf(e)[3] = [part |-> "nl", e |-> e]
          BY PartsOfLine
        <4> QED
          BY <4>1
      <3>5. Len(file') = n + k
        BY <1>5
      <3> QED
        BY <3>3, <3>4, <3>5
    <2> QED
      BY <2>3, <2>4 DEF TornAtTheEnd
  <1>17. HolderWritesNewest'
    <2> SUFFICES ASSUME mu' # "free"
                 PROVE  \E f \in Entry, v \in 0 .. 2 : Newest(mu, f, v)'
      BY DEF HolderWritesNewest
    <2>1. w + k < 3 /\ UNCHANGED <<mu, acked>> /\ w + k \in 0 .. 2 /\ w + k # 0
      BY <1>12
    <2>2. n + k \in n + 1 .. n + k /\ m(n + k) = w + k
      BY <1>4 DEF m
    <2>3. file' # <<>> /\ file'[Len(file')] = LineOf(e)[w + k]
      <3>1. n + k > 0
        BY <1>4
      <3> QED
        BY <1>5, <1>6, <2>2, <3>1
    <2>4. InHand(c, e, w + k)'
      BY <1>3 DEF Written
    <2>5. Newest(c, e, w + k)'
      BY <1>4, <1>11, <1>13, <2>1, <2>3, <2>4 DEF Newest
    <2> QED
      BY <1>1, <2>1, <2>5
  <1> QED
    BY <1>10, <1>14, <1>15, <1>16, <1>17 DEF PInv

\* What an append that ends where it is leaves: nothing is in hand any more.
LEMMA CutKeepsPInv ==
  ASSUME TypeOK, PInv, NEW c \in Client, mu = c, mu' = "free",
         tear' = Tear(c), UNCHANGED <<file, acked, begun>>
  PROVE  PInv'
  <1>1. mu # "free" /\ tear \in {"none", "last", "buried"}
    BY FileLogAssumption DEF TypeOK
  <1>2. PICK e \in Entry, w \in 0 .. 2 : Newest(c, e, w)
    BY <1>1 DEF PInv, HolderWritesNewest
  <1>3. Len(rest[c]) = 3 - w
    BY <1>2 DEF Newest, InHand
  <1>4. tear' # "buried" => tear # "buried"
    BY <1>1 DEF Tear
  <1>5. tear' = "none" => tear = "none" /\ Len(rest[mu]) = 3
    BY <1>1, <1>3 DEF Tear
  <1>6. TornAtTheEnd'
    BY <1>4, <1>5 DEF PInv, TornAtTheEnd, Starts
  <1>7. HolderWritesNewest'
    BY DEF HolderWritesNewest
  <1> QED
    BY <1>6, <1>7 DEF PInv, Chained, InBegunOrder, NewlinesAcknowledge

LEMMA AppendBeginsKeepsPInv ==
  ASSUME TypeOK, PInv, NEW c \in Client, AppendBegins(c)
  PROVE  PInv'
  <1>1. mu = "free" /\ mu' = c /\ c # "free" /\ begun' = begun + 1 /\ UNCHANGED <<file, acked, tear>>
    BY FileLogAssumption DEF AppendBegins
  <1>2. PICK e \in Entry : e.id = begun + 1 /\ rest' = [rest EXCEPT ![c] = LineOf(e)]
    <2>1. PICK r \in RunIDs, s \in 0 .. MaxSeq :
            rest' = [rest EXCEPT ![c] = LineOf([run |-> r, seq |-> s, id |-> begun + 1])]
      BY DEF AppendBegins
    <2>2. begun + 1 \in 1 .. MaxAppends
      BY FileLogAssumption DEF TypeOK, AppendBegins
    <2>3. [run |-> r, seq |-> s, id |-> begun + 1] \in Entry
      BY <2>2 DEF Entry, Mem!Record
    <2> QED
      BY <2>1, <2>3
  <1>3. e \in Entry /\ e.id = begun'
    BY <1>1, <1>2
  <1>4. rest'[c] = LineOf(e)
    BY <1>2 DEF TypeOK
  <1>5. InHand(c, e, 0)'
    <2>1. Len(LineOf(e)) = 3
      BY <1>3, LinePieces
    <2> QED
      BY <1>4, <2>1 DEF InHand
  <1>6. /\ begun \in Int /\ DOMAIN file = 1 .. Len(file) /\ DOMAIN acked = 1 .. Len(acked)
        /\ \A i \in DOMAIN file : file[i].e.id \in Int
        /\ \A k \in DOMAIN acked : acked[k].id \in Int
    BY EntryIds
  <1>7. /\ \A i \in DOMAIN file : file[i].e.id < begun'
        /\ \A k \in DOMAIN acked : acked[k].id < begun'
    BY <1>1, <1>6 DEF PInv, InBegunOrder
  <1>8. HolderWritesNewest'
    <2>1. Newest(c, e, 0)'
      BY <1>1, <1>3, <1>5, <1>7 DEF Newest
    <2>2. Newest(mu, e, 0)'
      BY <1>1, <2>1 DEF Newest, InHand
    <2>3. 0 \in 0 .. 2
      OBVIOUS
    <2> QED
      BY <1>3, <2>2, <2>3 DEF HolderWritesNewest
  <1>9. InBegunOrder'
    <2>1. /\ \A i \in DOMAIN file : file[i].e.id <= begun'
          /\ \A k \in DOMAIN acked : acked[k].id <= begun'
      BY <1>1, <1>6, <1>7
    <2> QED
      BY <1>1, <2>1 DEF PInv, InBegunOrder
  <1>10. Chained' /\ NewlinesAcknowledge'
    BY <1>1 DEF PInv, Chained, NewlinesAcknowledge
  <1>11. TornAtTheEnd'
    BY <1>1 DEF PInv, TornAtTheEnd, Starts
  <1> QED
    BY <1>8, <1>9, <1>10, <1>11 DEF PInv

\* What touches neither the file nor the append in hand keeps the invariant.
LEMMA IdleKeepsPInv ==
  ASSUME PInv, UNCHANGED <<file, mu, rest, acked, begun, tear>>
  PROVE  PInv'
  BY DEF PInv, Chained, InBegunOrder, NewlinesAcknowledge, TornAtTheEnd, Starts, HolderWritesNewest,
         Newest, InHand

THEOREM NextKeepsPInv == LInv /\ LInv' /\ PInv /\ [Next]_vars => PInv'
  <1> SUFFICES ASSUME LInv, LInv', PInv, [Next]_vars
               PROVE  PInv'
    OBVIOUS
  <1>1. TypeOK /\ TypeOK'
    BY DEF LInv
  <1>2. CASE Open
    BY <1>2, IdleKeepsPInv DEF Open
  <1>3. CASE Close
    BY <1>3, IdleKeepsPInv DEF Close
  <1>4. CASE UNCHANGED vars
    BY <1>4, IdleKeepsPInv DEF vars
  <1>5. ASSUME NEW c \in Client, WriteFails(c)
        PROVE  PInv'
    <2>1. mu = c
      BY <1>1, <1>5 DEF TypeOK, WriteFails
    <2> QED
      BY <1>1, <1>5, <2>1, CutKeepsPInv DEF WriteFails
  <1>6. CASE Crash
    <2>1. CASE mu = "free"
      <3>1. UNCHANGED <<file, mu, acked, begun, tear>>
        BY <1>6, <2>1 DEF Crash
      <3> QED
        BY <2>1, <3>1 DEF PInv, Chained, InBegunOrder, NewlinesAcknowledge, TornAtTheEnd, Starts,
                          HolderWritesNewest
    <2>2. CASE mu # "free"
      BY <1>1, <1>6, <2>2, CutKeepsPInv DEF Crash, TypeOK
    <2> QED
      BY <2>1, <2>2
  <1> QED
    BY <1>1, <1>2, <1>3, <1>4, <1>5, <1>6, AppendBeginsKeepsPInv, WriteKeepsPInv DEF Next

\* Where the pieces stand, in every reachable state, torn or not.
THEOREM PieceInvariance == Spec => [](TypeOK /\ PInv)
  <1>1. LInv => TypeOK
    BY DEF LInv
  <1> QED
    BY <1>1, Invariance, InitImpliesPInv, NextKeepsPInv, PTL DEF Spec

-----------------------------------------------------------------------------
(* What Replay returns.                                                    *)

\* a lists the pieces of f with which its records start, p their entries.
ListsRecords(f, p, a) ==
  /\ DOMAIN p = 1 .. Len(p) /\ Len(p) \in Nat
  /\ \A k \in 1 .. Len(p) : a[k] \in DOMAIN f /\ RecordAt(f, a[k]) /\ p[k] = f[a[k]].e
  /\ \A i \in DOMAIN f : RecordAt(f, i) => \E k \in 1 .. Len(p) : a[k] = i
  /\ \A k, l \in 1 .. Len(p) : k < l => a[k] < a[l]

LEMMA ParsedListsRecords ==
  ASSUME NEW f \in Seq(Piece)
  PROVE  Parsed(f) \in Seq(Entry) /\ \E a : ListsRecords(f, Parsed(f), a)
  <1> DEFINE P == {i \in DOMAIN f : RecordAt(f, i)}
             a == Ascending(P)
             p == Parsed(f)
  <1>1. P \in SUBSET Int /\ IsFiniteSet(P) /\ P \in SUBSET DOMAIN f
    <2>1. DOMAIN f = 1 .. Len(f) /\ Len(f) \in Nat
      OBVIOUS
    <2>2. IsFiniteSet(1 .. Len(f))
      BY <2>1, FS_Interval
    <2>3. P \in SUBSET (1 .. Len(f))
      BY <2>1
    <2> QED
      BY <2>1, <2>2, <2>3, FS_Subset
  <1>2. p = [k \in DOMAIN a |-> f[a[k]].e]
    BY DEF Parsed, Pick
  <1>3. \A i \in DOMAIN f : f[i].e \in Entry
    <2>1. \A i \in DOMAIN f : f[i] \in Piece
      OBVIOUS
    <2>2. \A t \in Piece : t.e \in Entry
      BY DEF Piece
    <2> QED
      BY <2>1, <2>2
  <1>4. \A i \in P : i \in DOMAIN f /\ RecordAt(f, i)
    OBVIOUS
  <1>5. \A i \in DOMAIN f : RecordAt(f, i) => i \in P
    OBVIOUS
  <1> HIDE DEF P
  <1>6. /\ Cardinality(P) \in Nat /\ DOMAIN a = 1 .. Cardinality(P)
        /\ \A k \in 1 .. Cardinality(P) : a[k] \in P
        /\ \A i \in P : \E k \in 1 .. Cardinality(P) : a[k] = i
        /\ \A k, l \in 1 .. Cardinality(P) : a[k] < a[l] <=> k < l
    BY <1>1, AscendingLists
  <1> HIDE DEF a, p
  <1>7. \A k \in 1 .. Cardinality(P) : p[k] = f[a[k]].e /\ p[k] \in Entry
    BY <1>2, <1>3, <1>4, <1>6
  <1>8. p \in Seq(Entry) /\ Len(p) = Cardinality(P)
    BY <1>2, <1>6, <1>7
  <1>9. ListsRecords(f, p, a)
    BY <1>4, <1>5, <1>6, <1>7, <1>8 DEF ListsRecords
  <1> QED
    BY <1>8, <1>9 DEF p

\* o lists the places in s of the entries of run, sorted, and out those entries.
SortsRun(s, run, out, o) ==
  /\ DOMAIN out = 1 .. Len(out) /\ Len(out) \in Nat
  /\ \A k \in 1 .. Len(out) : o[k] \in DOMAIN s /\ s[o[k]].run = run /\ out[k] = s[o[k]]
  /\ \A i \in DOMAIN s : s[i].run = run => \E k \in 1 .. Len(out) : o[k] = i
  /\ \A k, l \in 1 .. Len(out) : k < l => Mem!Sooner(s, o[k], o[l])

LEMMA OfRunSorts ==
  ASSUME NEW s \in Seq(Entry), NEW run
  PROVE  Mem!OfRun(s, run) \in Seq(Entry) /\ \E o : SortsRun(s, run, Mem!OfRun(s, run), o)
  <1> DEFINE mine == {i \in DOMAIN s : s[i].run = run}
             R == {r \in mine \X mine : Mem!Sooner(s, r[1], r[2])}
             o == InOrder(mine, R)
             out == Mem!OfRun(s, run)
  <1>1. mine \in SUBSET Int /\ IsFiniteSet(mine) /\ mine \in SUBSET DOMAIN s
    <2>1. DOMAIN s = 1 .. Len(s) /\ Len(s) \in Nat
      OBVIOUS
    <2>2. IsFiniteSet(1 .. Len(s))
      BY <2>1, FS_Interval
    <2>3. mine \in SUBSET (1 .. Len(s))
      BY <2>1
    <2> QED
      BY <2>1, <2>2, <2>3, FS_Subset
  <1>2. out = [k \in DOMAIN o |-> s[o[k]]]
    <2>1. Mem!InOrder(mine, R) = InOrder(mine, R)
      BY DEF Mem!InOrder, InOrder, Mem!Below, Below, Mem!Cardinality, Cardinality, Mem!IsFiniteSet, IsFiniteSet
    <2>2. out = [k \in DOMAIN Mem!InOrder(mine, R) |-> s[Mem!InOrder(mine, R)[k]]]
      BY DEF Mem!OfRun
    <2> QED
      BY <2>1, <2>2
  <1>3. \A i \in DOMAIN s : s[i] \in Entry /\ s[i].seq \in Int
    <2>1. \A i \in DOMAIN s : s[i] \in Entry
      OBVIOUS
    <2>2. \A e \in Entry : e.seq \in Int
      BY FileLogAssumption DEF Entry, Mem!Record
    <2> QED
      BY <2>1, <2>2
  <1>4. \A i \in mine : i \in DOMAIN s /\ s[i].run = run
    OBVIOUS
  <1>5. \A i \in DOMAIN s : s[i].run = run => i \in mine
    OBVIOUS
  <1>6. \A x, y \in mine : <<x, y>> \in R <=> Mem!Sooner(s, x, y)
    OBVIOUS
  <1> HIDE DEF mine
  <1>7. StrictOrder(mine, R)
    <2>1. \A x \in mine : x \in Int /\ s[x].seq \in Int
      BY <1>1, <1>3
    <2> QED
      <3>1. \A x, y \in mine : <<x, y>> \in R <=> s[x].seq < s[y].seq \/ (s[x].seq = s[y].seq /\ x < y)
        BY <1>6 DEF Mem!Sooner
      <3>2. ASSUME NEW x \in mine, NEW y \in mine
            PROVE  x = y \/ <<x, y>> \in R \/ <<y, x>> \in R
        <4>1. /\ <<x, y>> \in R <=> s[x].seq < s[y].seq \/ (s[x].seq = s[y].seq /\ x < y)
              /\ <<y, x>> \in R <=> s[y].seq < s[x].seq \/ (s[y].seq = s[x].seq /\ y < x)
          BY <3>1
        <4> QED
          BY <2>1, <4>1
      <3>3. \A x \in mine : <<x, x>> \notin R
        BY <2>1, <3>1
      <3>4. ASSUME NEW x \in mine, NEW y \in mine, NEW z \in mine, <<x, y>> \in R, <<y, z>> \in R
            PROVE  <<x, z>> \in R
        <4>1. /\ s[x].seq < s[y].seq \/ (s[x].seq = s[y].seq /\ x < y)
              /\ s[y].seq < s[z].seq \/ (s[y].seq = s[z].seq /\ y < z)
          BY <3>1, <3>4
        <4>2. s[x].seq < s[z].seq \/ (s[x].seq = s[z].seq /\ x < z)
          BY <2>1, <4>1
        <4> QED
          BY <3>1, <4>2
      <3> QED
        BY <3>2, <3>3, <3>4 DEF StrictOrder
  <1> HIDE DEF R
  <1>8. /\ Cardinality(mine) \in Nat /\ DOMAIN o = 1 .. Cardinality(mine)
        /\ \A k \in 1 .. Cardinality(mine) : o[k] \in mine
        /\ \A i \in mine : \E k \in 1 .. Cardinality(mine) : o[k] = i
        /\ \A k, l \in 1 .. Cardinality(mine) : <<o[k], o[l]>> \in R <=> k < l
    BY <1>1, <1>7, Enumerates
  <1> HIDE DEF o, out
  <1>9. \A k \in 1 .. Cardinality(mine) : out[k] = s[o[k]] /\ out[k] \in Entry
    BY <1>2, <1>3, <1>4, <1>8
  <1>10. out \in Seq(Entry) /\ Len(out) = Cardinality(mine)
    BY <1>2, <1>8, <1>9
  <1>11. SortsRun(s, run, out, o)
    <2>1. ASSUME NEW k \in 1 .. Len(out), NEW l \in 1 .. Len(out), k < l
          PROVE  Mem!Sooner(s, o[k], o[l])
      <3>1. o[k] \in mine /\ o[l] \in mine /\ <<o[k], o[l]>> \in R
        BY <1>8, <1>10, <2>1
      <3> QED
        BY <1>6, <3>1
    <2>2. \A k \in 1 .. Len(out) : o[k] \in DOMAIN s /\ s[o[k]].run = run /\ out[k] = s[o[k]]
      BY <1>4, <1>8, <1>9, <1>10
    <2>3. \A i \in DOMAIN s : s[i].run = run => \E k \in 1 .. Len(out) : o[k] = i
      BY <1>5, <1>8, <1>10
    <2>4. DOMAIN out = 1 .. Len(out) /\ Len(out) \in Nat
      BY <1>8, <1>10
    <2> QED
      BY <2>1, <2>2, <2>3, <2>4 DEF SortsRun
  <1> QED
    BY <1>10, <1>11 DEF out

\* A record of the run is replayed, and nothing else is.
LEMMA ReplayReadsRecords ==
  ASSUME TypeOK, NEW run, NEW served, Replay(run, served).ok, NEW e
  PROVE  e \in Range(Replay(run, served).out) <=>
           e.run = run /\ \E i \in DOMAIN file : RecordAt(file, i) /\ file[i].e = e
  <1> DEFINE p == Parsed(file)
             out == Mem!OfRun(p, run)
  <1>1. Replay(run, served).out = out
    BY DEF Replay
  <1>2. file \in Seq(Piece)
    BY DEF TypeOK
  <1>3. p \in Seq(Entry) /\ \E a : ListsRecords(file, p, a)
    BY <1>2, ParsedListsRecords
  <1> HIDE DEF p
  <1>4. \E o : SortsRun(p, run, out, o)
    BY <1>3, OfRunSorts
  <1> HIDE DEF out
  <1>5. PICK a : ListsRecords(file, p, a)
    BY <1>3
  <1>6. PICK o : SortsRun(p, run, out, o)
    BY <1>4
  <1>7. ASSUME e \in Range(out)
        PROVE  e.run = run /\ \E i \in DOMAIN file : RecordAt(file, i) /\ file[i].e = e
    <2>1. PICK k \in DOMAIN out : out[k] = e
      BY <1>7 DEF Range
    <2>2. o[k] \in 1 .. Len(p) /\ p[o[k]].run = run /\ e = p[o[k]]
      BY <1>5, <1>6, <2>1 DEF SortsRun, ListsRecords
    <2> QED
      BY <1>5, <2>2 DEF ListsRecords
  <1>8. ASSUME e.run = run, NEW i \in DOMAIN file, RecordAt(file, i), file[i].e = e
        PROVE  e \in Range(out)
    <2>1. PICK k \in 1 .. Len(p) : a[k] = i
      BY <1>5, <1>8 DEF ListsRecords
    <2>2. k \in DOMAIN p /\ p[k] = e
      BY <1>5, <1>8, <2>1 DEF ListsRecords
    <2>3. PICK l \in 1 .. Len(out) : o[l] = k
      BY <1>6, <1>8, <2>2 DEF SortsRun
    <2>4. l \in DOMAIN out /\ out[l] = e
      BY <1>6, <2>2, <2>3 DEF SortsRun
    <2> QED
      BY <2>4 DEF Range
  <1> QED
    BY <1>1, <1>7, <1>8

LEMMA ReplayIsSorted ==
  ASSUME TypeOK, PInv
  PROVE  ReplayIsInOrder
  <1> SUFFICES ASSUME NEW run \in RunIDs, NEW served \in BOOLEAN,
                      NEW i \in DOMAIN Replay(run, served).out
               PROVE  /\ Replay(run, served).out[i].run = run
                      /\ \A j \in 1 .. i - 1 :
                           \/ Replay(run, served).out[j].seq < Replay(run, served).out[i].seq
                           \/ /\ Replay(run, served).out[j].seq = Replay(run, served).out[i].seq
                              /\ Replay(run, served).out[j].id < Replay(run, served).out[i].id
    BY DEF ReplayIsInOrder
  <1> DEFINE p == Parsed(file)
             out == Mem!OfRun(p, run)
  <1>1. Replay(run, served).out = out
    BY DEF Replay
  <1>2. file \in Seq(Piece)
    BY DEF TypeOK
  <1>3. p \in Seq(Entry) /\ \E a : ListsRecords(file, p, a)
    BY <1>2, ParsedListsRecords
  <1> HIDE DEF p
  <1>4. \E o : SortsRun(p, run, out, o)
    BY <1>3, OfRunSorts
  <1> HIDE DEF out
  <1>5. PICK a : ListsRecords(file, p, a)
    BY <1>3
  <1>6. PICK o : SortsRun(p, run, out, o)
    BY <1>4
  <1>7. i \in 1 .. Len(out) /\ Len(out) \in Nat
    BY <1>1, <1>6 DEF SortsRun
  <1>8. \A k \in 1 .. Len(out) : o[k] \in 1 .. Len(p) /\ out[k] = p[o[k]] /\ out[k].run = run
    BY <1>5, <1>6 DEF SortsRun, ListsRecords
  <1>9. ASSUME NEW j \in 1 .. i - 1
        PROVE  out[j].seq < out[i].seq \/ (out[j].seq = out[i].seq /\ out[j].id < out[i].id)
    <2>1. j \in 1 .. Len(out) /\ j < i
      BY <1>7
    <2>2. Mem!Sooner(p, o[j], o[i])
      BY <1>6, <1>7, <2>1 DEF SortsRun
    <2>3. ASSUME o[j] < o[i]
          PROVE  out[j].id < out[i].id
      <3>1. a[o[j]] < a[o[i]]
        BY <1>5, <1>7, <1>8, <2>1, <2>3 DEF ListsRecords
      <3>2. /\ a[o[j]] \in DOMAIN file /\ out[j] = file[a[o[j]]].e
            /\ a[o[i]] \in DOMAIN file /\ out[i] = file[a[o[i]]].e /\ file[a[o[i]]].part = "head"
        BY <1>5, <1>7, <1>8, <2>1 DEF ListsRecords, RecordAt
      <3> QED
        BY <3>1, <3>2 DEF PInv, InBegunOrder
    <2> QED
      BY <1>7, <1>8, <2>1, <2>2, <2>3 DEF Mem!Sooner
  <1> QED
    BY <1>1, <1>7, <1>8, <1>9

\* The two pieces before a newline are those of its own line, so that the line is
\* a record if it starts with them.
LEMMA NewlineEndsItsLine ==
  ASSUME TypeOK, PInv, NEW i \in DOMAIN file, file[i].part = "nl"
  PROVE  /\ i - 2 \in DOMAIN file /\ i \in Ends(file) /\ ~ Starts(file, i)
         /\ file[i - 2] = [part |-> "head", e |-> file[i].e]
         /\ Starts(file, i - 2) => RecordAt(file, i - 2)
  <1>1. DOMAIN file = 1 .. Len(file) /\ Len(file) \in Nat
    BY EntryIds
  <1>2. i > 1 /\ file[i - 1] = [part |-> "tail", e |-> file[i].e]
    BY DEF PInv, Chained
  <1>3. i - 1 \in DOMAIN file /\ file[i - 1].part = "tail" /\ file[i - 1].e = file[i].e
    BY <1>1, <1>2
  <1>4. i - 1 > 1 /\ file[(i - 1) - 1] = [part |-> "head", e |-> file[i - 1].e]
    BY <1>3 DEF PInv, Chained
  <1>5. (i - 1) - 1 = i - 2 /\ (i - 2) + 1 = i - 1 /\ (i - 2) + 2 = i /\ i - 2 \in 1 .. Len(file) /\ i - 2 < Len(file)
    BY <1>1, <1>4
  <1>6. i \in Ends(file)
    BY <1>1 DEF Ends
  <1>7. ~ Starts(file, i)
    BY <1>2, <1>3 DEF Starts
  <1>8. file[i - 2] = [part |-> "head", e |-> file[i].e] /\ file[i - 2].e = file[i].e /\ file[i - 2].part = "head"
    BY <1>3, <1>4, <1>5
  <1>9. Starts(file, i - 2) => RecordAt(file, i - 2)
    BY <1>2, <1>5, <1>6, <1>8 DEF RecordAt
  <1> QED
    BY <1>1, <1>5, <1>6, <1>7, <1>8, <1>9

LEMMA LossIsLast ==
  ASSUME TypeOK, PInv
  PROVE  AtMostTheLastIsLost
  <1> SUFFICES ASSUME NEW run \in RunIDs, NEW served \in BOOLEAN, Replay(run, served).ok,
                      NEW e \in AckedOf(run), e \notin Range(Replay(run, served).out)
               PROVE  acked # <<>> /\ e = acked[Len(acked)]
    BY DEF AtMostTheLastIsLost
  <1>1. ~ Corrupt(file)
    BY DEF Replay
  <1>2. /\ DOMAIN acked = 1 .. Len(acked) /\ Len(acked) \in Nat
        /\ DOMAIN file = 1 .. Len(file) /\ Len(file) \in Nat
        /\ \A i \in DOMAIN file : file[i].e.id \in Int
    BY EntryIds
  <1>3. PICK k \in 1 .. Len(acked) : acked[k] = e /\ e.run = run
    BY <1>2 DEF AckedOf, Range
  <1>4. ASSUME k < Len(acked)
        PROVE  FALSE
    <2>1. Len(acked) \in DOMAIN acked /\ acked[k].id < acked[Len(acked)].id
      BY <1>2, <1>4 DEF PInv, InBegunOrder
    <2>2. PICK i \in DOMAIN file : file[i] = [part |-> "nl", e |-> acked[k]]
      BY <1>2 DEF PInv, NewlinesAcknowledge
    <2>3. PICK j \in DOMAIN file : file[j] = [part |-> "nl", e |-> acked[Len(acked)]]
      BY <2>1 DEF PInv, NewlinesAcknowledge
    <2>4. file[i].part = "nl" /\ file[i].e = e /\ file[j].part = "nl" /\ file[i].e.id < file[j].e.id
      BY <1>3, <2>1, <2>2, <2>3
    <2>5. i < j
      <3>1. j < i => file[j].e.id <= file[i].e.id
        BY DEF PInv, InBegunOrder
      <3>2. i # j
        BY <1>2, <2>4
      <3> QED
        BY <1>2, <2>4, <3>1, <3>2
    <2>6. i \in Ends(file) /\ ~ Starts(file, i) /\ i - 2 \in DOMAIN file /\ file[i - 2].e = e
      <3>1. /\ i \in Ends(file) /\ ~ Starts(file, i) /\ i - 2 \in DOMAIN file
            /\ file[i - 2] = [part |-> "head", e |-> file[i].e]
        BY <2>4, NewlineEndsItsLine
      <3> QED
        BY <2>4, <3>1
    <2>8. j \in Ends(file)
      BY <2>4, NewlineEndsItsLine
    <2>7. RecordAt(file, i - 2)
      BY <1>1, <2>5, <2>6, <2>8 DEF Corrupt
    <2> QED
      BY <1>3, <2>6, <2>7, ReplayReadsRecords
  <1>5. k = Len(acked) /\ acked # <<>>
    <2>1. k = Len(acked)
      <3>1. Len(acked) \in Nat /\ ~ (k < Len(acked))
        BY <1>2, <1>4
      <3> QED
        BY <3>1
    <2>2. 1 \in DOMAIN acked
      BY <1>2
    <2> QED
      BY <2>1, <2>2
  <1> QED
    BY <1>3, <1>5

\* A part of a record that the Scanner takes is one it takes.
LEMMA PartOfRecordFits ==
  ASSUME NEW e \in Entry, RecordFits(e),
         NEW T \in SUBSET {[part |-> "head", e |-> e], [part |-> "tail", e |-> e]}
  PROVE  Fits(T)
  <1> DEFINE head     == [part |-> "head", e |-> e]
             tail     == [part |-> "tail", e |-> e]
             bytes(t) == {t} \X (1 .. Size[t.e][t.part])
             all      == UNION {bytes(t) : t \in {head, tail}}
             some     == UNION {bytes(t) : t \in T}
  <1>1. \A t \in {head, tail} : IsFiniteSet(bytes(t))
    <2> SUFFICES ASSUME NEW t \in {head, tail}
                 PROVE  IsFiniteSet(bytes(t))
      OBVIOUS
    <2>1. Size[t.e][t.part] \in Nat
      <3>1. t.e = e /\ t.part \in {"head", "tail"}
        OBVIOUS
      <3> QED
        BY <3>1, SizeAssumption
    <2>2. IsFiniteSet(1 .. Size[t.e][t.part])
      BY <2>1, FS_Interval
    <2>3. IsFiniteSet({t})
      BY FS_Singleton
    <2> QED
      BY <2>2, <2>3, FS_Product
  <1>2. all = bytes(head) \cup bytes(tail)
    OBVIOUS
  <1>3. IsFiniteSet(all)
    <2>1. IsFiniteSet(bytes(head)) /\ IsFiniteSet(bytes(tail))
      BY <1>1
    <2> HIDE DEF bytes, all
    <2> QED
      BY <1>2, <2>1, FS_Union
  <1>4. some \in SUBSET all
    OBVIOUS
  <1> HIDE DEF all, some
  <1>5. Cardinality(some) <= Cardinality(all) /\ Cardinality(some) \in Nat /\ Cardinality(all) \in Nat
    BY <1>3, <1>4, FS_Subset, FS_CardinalityType
  <1>6. Cardinality(all) < MaxLine
    BY DEF RecordFits, Fits, Length, all
  <1>7. Length(T) = Cardinality(some)
    BY DEF Length, some
  <1> QED
    BY <1>5, <1>6, <1>7, SizeAssumption DEF Fits

\* Until something is written behind a torn line, a line is made of one record,
\* so that it is none too long if the records are not.
LEMMA LinesFit ==
  ASSUME TypeOK, PInv, tear # "buried", \A i \in DOMAIN file : RecordFits(file[i].e)
  PROVE  ~ TooLong(file)
  <1> SUFFICES ASSUME NEW i \in Ends(file)
               PROVE  Fits(LineBefore(file, i))
    BY DEF TooLong
  <1>1. /\ DOMAIN file = 1 .. Len(file) /\ Len(file) \in Nat
        /\ \A k \in 1 .. Len(file) : file[k] \in Piece /\ file[k].e \in Entry
    BY EntryIds
  <1>2. i \in 1 .. Len(file) + 1 /\ i # 1
    <2>1. i \in 1 .. Len(file) + 1
      BY DEF Ends
    <2>2. ASSUME i = 1
          PROVE  FALSE
      <3>1. Starts(file, 1)
        BY DEF Starts
      <3>2. 1 \in DOMAIN file /\ file[1].part = "nl"
        BY <1>1, <2>1, <2>2, <3>1 DEF Ends
      <3>3. 1 > 1
        BY <3>2 DEF PInv, Chained
      <3> QED
        BY <3>3
    <2> QED
      BY <2>1, <2>2
  <1> DEFINE e    == file[i - 1].e
             head == [part |-> "head", e |-> e]
             tail == [part |-> "tail", e |-> e]
  <1>3. i - 1 \in DOMAIN file /\ i - 1 \in 1 .. Len(file) /\ e \in Entry /\ RecordFits(e)
    BY <1>1, <1>2
  \* A piece of the line with another behind it is a head, the next one its tail.
  <1>4. ASSUME NEW k \in 1 .. i - 2, file[k].part # "nl", file[k + 1].part # "nl"
        PROVE  file[k].part = "head" /\ file[k + 1].part = "tail" /\ file[k].e = file[k + 1].e
    <2>1. k + 1 \in DOMAIN file /\ (k + 1) - 1 = k /\ k + 1 # 1 /\ file[k + 1] \in Piece
      BY <1>1, <1>2
    <2>2. file[k + 1].part # "head"
      <3>1. ~ Starts(file, k + 1)
        BY <1>4, <2>1 DEF Starts
      <3> QED
        BY <2>1, <3>1 DEF PInv, TornAtTheEnd
    <2>3. file[k + 1].part = "tail"
      BY <1>4, <2>1, <2>2 DEF Piece
    <2>4. file[k] = [part |-> "head", e |-> file[k + 1].e]
      BY <2>1, <2>3 DEF PInv, Chained
    <2> QED
      BY <2>3, <2>4
  <1>5. ASSUME NEW k \in 1 .. i - 1, \A l \in k .. i - 1 : file[l].part # "nl"
        PROVE  file[k] \in {head, tail}
    <2>1. file[k] \in Piece /\ file[i - 1] \in Piece /\ i \in Int /\ k \in Int
      BY <1>1, <1>2, <1>3
    <2>2. CASE k = i - 1
      <3>1. file[k].part \in {"head", "tail"} /\ file[k].e = e
        BY <1>5, <2>1, <2>2 DEF Piece
      <3> QED
        BY <2>1, <3>1 DEF Piece
    <2>3. CASE k = i - 2
      <3>1. k + 1 = i - 1 /\ k \in 1 .. i - 2 /\ k \in k .. i - 1 /\ k + 1 \in k .. i - 1
        BY <2>1, <2>3
      <3>2. file[k].part = "head" /\ file[k].e = e
        BY <1>4, <1>5, <3>1
      <3> QED
        BY <2>1, <3>2 DEF Piece
    <2>4. CASE k < i - 2
      <3>1. /\ k \in 1 .. i - 2 /\ k + 1 \in 1 .. i - 2 /\ (k + 1) + 1 \in k .. i - 1
            /\ k \in k .. i - 1 /\ k + 1 \in k .. i - 1
        BY <2>1, <2>4
      <3>2. file[k + 1].part = "tail"
        BY <1>4, <1>5, <3>1
      <3>3. file[k + 1].part = "head"
        BY <1>4, <1>5, <3>1
      <3> QED
        BY <3>2, <3>3
    <2> QED
      BY <2>1, <2>2, <2>3, <2>4
  <1>6. LineBefore(file, i) \in SUBSET {head, tail}
    BY <1>5 DEF LineBefore
  <1> HIDE DEF e
  <1> QED
    BY <1>3, <1>6, PartOfRecordFits

LEMMA TornLosesNothing ==
  ASSUME TypeOK, PInv, tear # "buried", \A i \in DOMAIN file : RecordFits(file[i].e)
  PROVE  FirstTearLosesNothing
  <1>1. /\ DOMAIN acked = 1 .. Len(acked) /\ Len(acked) \in Nat
        /\ DOMAIN file = 1 .. Len(file) /\ Len(file) \in Nat
    BY EntryIds
  <1>2. \A i \in DOMAIN file : file[i].part = "nl" =>
          RecordAt(file, i - 2) /\ i - 2 \in DOMAIN file /\ file[i - 2].e = file[i].e
    <2> SUFFICES ASSUME NEW i \in DOMAIN file, file[i].part = "nl"
                 PROVE  RecordAt(file, i - 2) /\ i - 2 \in DOMAIN file /\ file[i - 2].e = file[i].e
      OBVIOUS
    <2>1. /\ i - 2 \in DOMAIN file /\ file[i - 2] = [part |-> "head", e |-> file[i].e]
          /\ Starts(file, i - 2) => RecordAt(file, i - 2)
      BY NewlineEndsItsLine
    <2>2. Starts(file, i - 2)
      BY <2>1 DEF PInv, TornAtTheEnd
    <2> QED
      BY <2>1, <2>2
  <1>3. ~ Corrupt(file)
    <2> SUFFICES ASSUME NEW i \in Ends(file), NEW j \in Ends(file), i < j
                 PROVE  RecordAt(file, i - 2)
      BY DEF Corrupt
    <2>1. i \in 1 .. Len(file)
      BY <1>1 DEF Ends
    <2>2. file[i].part = "nl"
      BY <1>1, <2>1 DEF Ends
    <2> QED
      BY <1>1, <1>2, <2>1, <2>2
  <1>6. ~ TooLong(file)
    BY LinesFit
  <1>7. \A run \in RunIDs : Replay(run, TRUE).ok
    BY <1>3, <1>6 DEF Replay
  <1>4. ASSUME NEW run \in RunIDs
        PROVE  AckedOf(run) \subseteq Range(Replay(run, TRUE).out)
    <2> SUFFICES ASSUME NEW e \in AckedOf(run)
                 PROVE  e \in Range(Replay(run, TRUE).out)
      OBVIOUS
    <2>1. PICK k \in DOMAIN acked : acked[k] = e /\ e.run = run
      BY DEF AckedOf, Range
    <2>2. PICK i \in DOMAIN file : file[i] = [part |-> "nl", e |-> e]
      BY <2>1 DEF PInv, NewlinesAcknowledge
    <2>3. RecordAt(file, i - 2) /\ i - 2 \in DOMAIN file /\ file[i - 2].e = e
      BY <1>2, <2>2
    <2>4. Replay(run, TRUE).ok
      BY <1>7
    <2>5. e.run = run /\ \E j \in DOMAIN file : RecordAt(file, j) /\ file[j].e = e
      BY <2>1, <2>3
    <2> QED
      BY <2>4, <2>5, ReplayReadsRecords
  <1>5. ASSUME NEW run \in RunIDs
        PROVE  Cardinality(Range(Replay(run, TRUE).out) \ AckedOf(run)) <= 1
    <2> DEFINE more == Range(Replay(run, TRUE).out) \ AckedOf(run)
               torn == file[Len(file) - 1].e
    <2>1. ASSUME NEW e \in more
          PROVE  e = torn
      <3>1. e.run = run /\ \E i \in DOMAIN file : RecordAt(file, i) /\ file[i].e = e
        <4>1. Replay(run, TRUE).ok
          BY <1>7
        <4> QED
          BY <4>1, ReplayReadsRecords
      <3>2. PICK i \in DOMAIN file : RecordAt(file, i) /\ file[i].e = e
        BY <3>1
      <3>3. i + 2 \in Ends(file) /\ file[i + 1] = [part |-> "tail", e |-> e] /\ i \in 1 .. Len(file)
        BY <1>1, <3>2 DEF RecordAt
      <3>4. CASE i + 2 \in 1 .. Len(file)
        <4>1. i + 2 \in DOMAIN file /\ file[i + 2].part = "nl" /\ (i + 2) - 1 = i + 1
          BY <1>1, <3>3, <3>4 DEF Ends
        <4>2. file[(i + 2) - 1] = [part |-> "tail", e |-> file[i + 2].e]
          BY <4>1 DEF PInv, Chained
        <4>3. file[i + 1].e = e /\ file[i + 1].e = file[i + 2].e
          BY <3>3, <4>1, <4>2
        <4>4. PICK k \in DOMAIN acked : acked[k] = e
          BY <4>1, <4>3 DEF PInv, NewlinesAcknowledge
        <4> QED
          BY <3>1, <4>4 DEF AckedOf, Range
      <3>5. CASE i + 2 \notin 1 .. Len(file)
        <4>1. i + 2 = Len(file) + 1
          BY <1>1, <3>3, <3>5 DEF Ends
        <4>2. i = Len(file) - 1
          BY <1>1, <3>3, <4>1
        <4> QED
          BY <3>2, <4>2
      <3> QED
        BY <3>4, <3>5
    <2> HIDE DEF more, torn
    <2>2. more \in SUBSET {torn}
      BY <2>1
    <2>3. IsFiniteSet({torn}) /\ Cardinality({torn}) = 1
      BY FS_Singleton
    <2>4. Cardinality(more) <= 1
      BY <2>2, <2>3, FS_Subset
    <2> QED
      BY <2>4 DEF more
  <1> QED
    BY <1>4, <1>5, <1>7 DEF FirstTearLosesNothing

-----------------------------------------------------------------------------
(* The file as a MemLog.                                                   *)

\* From its h-th piece on, f is the first w pieces of e's line.
EndsWith(f, e, w, h) ==
  /\ h \in Nat \ {0} /\ Len(f) = (h - 1) + w /\ Starts(f, h)
  /\ \A j \in 1 .. w : f[(h - 1) + j] = LineOf(e)[j]

\* The records of f that end before its h-th piece.
RecordsBefore(f, h) ==
  {i \in 1 .. h - 1 :
     /\ i + 2 <= h - 1 /\ Starts(f, i)
     /\ f[i].part = "head" /\ f[i + 1] = [part |-> "tail", e |-> f[i].e] /\ f[i + 2].part = "nl"}

LEMMA RecordsOfLines ==
  ASSUME NEW f \in Seq(Piece), NEW e \in Entry, NEW w \in 0 .. 3, NEW h, EndsWith(f, e, w, h)
  PROVE  {i \in DOMAIN f : RecordAt(f, i)} = RecordsBefore(f, h) \cup (IF w >= 2 THEN {h} ELSE {})
  <1>1. /\ DOMAIN f = 1 .. Len(f) /\ Len(f) = (h - 1) + w /\ h \in Nat \ {0} /\ Starts(f, h)
        /\ \A j \in 1 .. w : f[(h - 1) + j] = LineOf(e)[j]
    BY DEF EndsWith
  <1>2. /\ LineOf(e)[1] = [part |-> "head", e |-> e]
        /\ LineOf(e)[2] = [part |-> "tail", e |-> e]
        /\ LineOf(e)[3] = [part |-> "nl", e |-> e]
    BY PartsOfLine
  <1>3. w >= 1 => f[h] = [part |-> "head", e |-> e] /\ h \in 1 .. Len(f)
    <2>1. w >= 1 => 1 \in 1 .. w /\ (h - 1) + 1 = h /\ h \in 1 .. Len(f)
      BY <1>1
    <2> QED
      BY <1>1, <1>2, <2>1
  <1>4. w >= 2 => f[h + 1] = [part |-> "tail", e |-> e] /\ h + 1 \in 1 .. Len(f)
    <2>1. w >= 2 => 2 \in 1 .. w /\ (h - 1) + 2 = h + 1 /\ h + 1 \in 1 .. Len(f)
      BY <1>1
    <2> QED
      BY <1>1, <1>2, <2>1
  <1>5. w >= 3 => f[h + 2] = [part |-> "nl", e |-> e] /\ h + 2 \in 1 .. Len(f)
    <2>1. w >= 3 => 3 \in 1 .. w /\ (h - 1) + 3 = h + 2 /\ h + 2 \in 1 .. Len(f)
      BY <1>1
    <2> QED
      BY <1>1, <1>2, <2>1
  <1>6. ASSUME NEW i \in DOMAIN f, i > h
        PROVE  ~ RecordAt(f, i)
    <2>1. (i = h + 1 /\ w >= 2) \/ (i = h + 2 /\ w >= 3)
      BY <1>1, <1>6
    <2>2. f[i].part # "head"
      BY <1>4, <1>5, <2>1
    <2> QED
      BY <2>2 DEF RecordAt
  <1>7. w >= 2 => RecordAt(f, h)
    <2> SUFFICES ASSUME w >= 2
                 PROVE  RecordAt(f, h)
      OBVIOUS
    <2>1. /\ f[h].part = "head" /\ f[h].e = e /\ f[h + 1] = [part |-> "tail", e |-> f[h].e]
          /\ 1 <= h /\ h < Len(f)
      BY <1>1, <1>3, <1>4
    <2>2. h + 2 \in Ends(f)
      <3>1. CASE w = 2
        <4>1. h + 2 = Len(f) + 1 /\ h + 2 # 1 /\ (h + 2) - 1 = h + 1 /\ f[h + 1].part = "tail"
          BY <1>1, <1>4, <3>1
        <4>2. ~ Starts(f, h + 2)
          BY <4>1 DEF Starts
        <4> QED
          BY <1>1, <4>1, <4>2 DEF Ends
      <3>2. CASE w = 3
        <4>1. h + 2 \in 1 .. Len(f) /\ f[h + 2].part = "nl"
          BY <1>5, <3>2
        <4> QED
          BY <1>1, <4>1 DEF Ends
      <3> QED
        BY <3>1, <3>2
    <2> QED
      BY <1>1, <2>1, <2>2 DEF RecordAt
  <1>8. w < 2 => ~ RecordAt(f, h)
    BY <1>1 DEF RecordAt
  <1>9. ASSUME NEW i \in 1 .. h - 1, RecordAt(f, i)
        PROVE  i \in RecordsBefore(f, h)
    <2>1. /\ i < Len(f) /\ f[i].part = "head" /\ f[i + 1] = [part |-> "tail", e |-> f[i].e]
          /\ Starts(f, i) /\ i + 2 \in Ends(f) /\ f[i + 1].part = "tail"
      BY <1>9 DEF RecordAt
    <2>2. i + 1 # h
      <3>1. i + 1 = h => w >= 1
        BY <1>1, <2>1
      <3> QED
        BY <1>3, <2>1, <3>1
    <2>3. i + 2 # h
      <3>1. i + 2 = h => h # 1 /\ h - 1 = i + 1
        BY <1>1
      <3> QED
        BY <1>1, <2>1, <3>1 DEF Starts
    <2>4. i + 2 <= h - 1 /\ i + 2 <= Len(f)
      BY <1>1, <2>2, <2>3
    <2>5. f[i + 2].part = "nl"
      BY <1>1, <2>1, <2>4 DEF Ends
    <2> QED
      BY <2>1, <2>4, <2>5 DEF RecordsBefore
  <1>10. ASSUME NEW i \in RecordsBefore(f, h)
         PROVE  i \in DOMAIN f /\ RecordAt(f, i)
    <2>1. /\ i \in 1 .. h - 1 /\ i + 2 <= h - 1 /\ Starts(f, i) /\ f[i].part = "head"
          /\ f[i + 1] = [part |-> "tail", e |-> f[i].e] /\ f[i + 2].part = "nl"
      BY DEF RecordsBefore
    <2>2. 1 <= i /\ i < Len(f) /\ i + 2 \in 1 .. Len(f) /\ i \in 1 .. Len(f)
      BY <1>1, <2>1
    <2>3. i + 2 \in Ends(f)
      BY <1>1, <2>1, <2>2 DEF Ends
    <2> QED
      BY <1>1, <2>1, <2>2, <2>3 DEF RecordAt
  <1>11. \A i \in DOMAIN f : i \in 1 .. h - 1 \/ i = h \/ i > h
    BY <1>1
  <1>12. w >= 2 => h \in DOMAIN f
    BY <1>1, <1>3
  <1> QED
    BY <1>6, <1>7, <1>8, <1>9, <1>10, <1>11, <1>12

\* While nothing was torn, the newest entry's line is the last of the file.
LEMMA HolderWritesTheLastLine ==
  ASSUME TypeOK, PInv, tear = "none", NEW c \in Client, mu = c, mu # "free",
         NEW e \in Entry, NEW w \in 0 .. 2, Newest(c, e, w)
  PROVE  EndsWith(file, e, w, Len(file) + 1 - w)
  <1>1. DOMAIN file = 1 .. Len(file) /\ Len(file) \in Nat /\ file \in Seq(Piece)
    BY EntryIds DEF TypeOK
  <1>2. /\ LineOf(e)[1] = [part |-> "head", e |-> e]
        /\ LineOf(e)[2] = [part |-> "tail", e |-> e]
    BY PartsOfLine
  <1>3. CASE w = 0
    <2>1. Len(rest[mu]) = 3
      BY <1>3 DEF Newest, InHand
    <2>2. file # <<>> => file[Len(file)].part = "nl"
      BY <2>1 DEF PInv, TornAtTheEnd
    <2>3. Len(file) + 1 = 1 \/ file[(Len(file) + 1) - 1].part = "nl"
      <3>1. Len(file) # 0 => file # <<>>
        BY <1>1
      <3>2. (Len(file) + 1) - 1 = Len(file)
        BY <1>1
      <3> QED
        BY <1>1, <2>2, <3>1, <3>2
    <2>4. Starts(file, Len(file) + 1)
      BY <2>3 DEF Starts
    <2>5. Len(file) + 1 - w = Len(file) + 1 /\ Len(file) = ((Len(file) + 1) - 1) + 0 /\ Len(file) + 1 \in Nat \ {0}
      BY <1>1, <1>3
    <2> QED
      BY <1>3, <2>4, <2>5 DEF EndsWith
  <1>4. CASE w = 1
    <2>1. file # <<>> /\ file[Len(file)] = [part |-> "head", e |-> e]
      BY <1>2, <1>4 DEF Newest
    <2>2. Len(file) \in DOMAIN file
      BY <1>1, <2>1
    <2>3. Starts(file, Len(file))
      BY <2>1, <2>2 DEF PInv, TornAtTheEnd
    <2>4. Len(file) + 1 - w = Len(file) /\ Len(file) = (Len(file) - 1) + 1 /\ Len(file) \in Nat \ {0}
      BY <1>1, <1>4, <2>2
    <2>5. \A j \in 1 .. 1 : file[(Len(file) - 1) + j] = LineOf(e)[j]
      BY <1>2, <2>1, <2>4
    <2> QED
      BY <1>4, <2>3, <2>4, <2>5 DEF EndsWith
  <1>5. CASE w = 2
    <2>1. file # <<>> /\ file[Len(file)] = [part |-> "tail", e |-> e]
      BY <1>2, <1>5 DEF Newest
    <2>2. Len(file) \in DOMAIN file /\ file[Len(file)].part = "tail" /\ file[Len(file)].e = e
      BY <1>1, <2>1
    <2>3. Len(file) > 1 /\ file[Len(file) - 1] = [part |-> "head", e |-> e]
      BY <2>2 DEF PInv, Chained
    <2>4. Len(file) - 1 \in DOMAIN file /\ file[Len(file) - 1].part = "head"
      BY <1>1, <2>3
    <2>5. Starts(file, Len(file) - 1)
      BY <2>4 DEF PInv, TornAtTheEnd
    <2>6. /\ Len(file) + 1 - w = Len(file) - 1 /\ Len(file) = ((Len(file) - 1) - 1) + 2
          /\ Len(file) - 1 \in Nat \ {0} /\ ((Len(file) - 1) - 1) + 1 = Len(file) - 1
      BY <1>1, <1>5, <2>3
    <2>7. \A j \in 1 .. 2 : file[((Len(file) - 1) - 1) + j] = LineOf(e)[j]
      <3>1. \A j \in 1 .. 2 : j = 1 \/ j = 2
        OBVIOUS
      <3> QED
        BY <1>2, <2>1, <2>3, <2>6, <3>1
    <2> QED
      BY <1>5, <2>5, <2>6, <2>7 DEF EndsWith
  <1> QED
    BY <1>3, <1>4, <1>5

LEMMA PickSame ==
  ASSUME NEW f, NEW g, NEW P \in SUBSET Int, IsFiniteSet(P), \A i \in P : f[i] = g[i]
  PROVE  Pick(f, P) = Pick(g, P)
  <1>1. \A k \in DOMAIN Ascending(P) : Ascending(P)[k] \in P
    BY AscendingLists
  <1>2. \A k \in DOMAIN Ascending(P) : f[Ascending(P)[k]] = g[Ascending(P)[k]]
    BY <1>1
  <1> QED
    BY <1>2 DEF Pick

\* The entries of a list of pieces.
EntriesOf(heads) == [k \in DOMAIN heads |-> heads[k].e]

LEMMA EntriesOfAppend ==
  ASSUME NEW s \in Seq(Piece), NEW t \in Piece
  PROVE  EntriesOf(Append(s, t)) = Append(EntriesOf(s), t.e)
  <1>1. \A r \in Piece : r.e \in Entry
    BY DEF Piece
  <1>2. \A k \in 1 .. Len(s) : s[k] \in Piece
    OBVIOUS
  <1> DEFINE a == EntriesOf(s)
  <1>3. Len(s) \in Nat /\ DOMAIN s = 1 .. Len(s)
    OBVIOUS
  <1>4. a = [k \in 1 .. Len(s) |-> s[k].e]
    BY <1>3 DEF EntriesOf
  <1>5. a \in Seq(Entry) /\ Len(a) = Len(s)
    BY <1>1, <1>2, <1>3, <1>4
  <1>6. /\ Len(Append(s, t)) = Len(s) + 1 /\ DOMAIN Append(s, t) = 1 .. Len(s) + 1
        /\ \A k \in 1 .. Len(s) : Append(s, t)[k] = s[k]
        /\ Append(s, t)[Len(s) + 1] = t
    BY <1>3
  <1>7. EntriesOf(Append(s, t)) = [k \in 1 .. Len(s) + 1 |-> Append(s, t)[k].e]
    BY <1>6 DEF EntriesOf
  <1> HIDE DEF a
  <1>8. /\ Append(a, t.e) = [k \in 1 .. Len(s) + 1 |-> Append(a, t.e)[k]]
        /\ \A k \in 1 .. Len(s) : Append(a, t.e)[k] = a[k]
        /\ Append(a, t.e)[Len(s) + 1] = t.e
    <2>1. t.e \in Entry
      BY <1>1
    <2> QED
      BY <1>5, <2>1
  <1>9. \A k \in 1 .. Len(s) + 1 : Append(s, t)[k].e = Append(a, t.e)[k]
    <2> SUFFICES ASSUME NEW k \in 1 .. Len(s) + 1
                 PROVE  Append(s, t)[k].e = Append(a, t.e)[k]
      OBVIOUS
    <2>1. CASE k \in 1 .. Len(s)
      <3>1. Append(s, t)[k] = s[k] /\ Append(a, t.e)[k] = a[k]
        BY <1>6, <1>8, <2>1
      <3>2. a[k] = s[k].e
        BY <1>4, <2>1
      <3> QED
        BY <3>1, <3>2
    <2>2. CASE k = Len(s) + 1
      <3>1. Append(s, t)[k] = t /\ Append(a, t.e)[k] = t.e
        BY <1>6, <1>8, <2>2
      <3> QED
        BY <3>1
    <2>3. k \in 1 .. Len(s) \/ k = Len(s) + 1
      BY <1>3
    <2> QED
      BY <2>1, <2>2, <2>3
  <1> QED
    BY <1>7, <1>8, <1>9 DEF a

\* A write behind whole lines adds its entry when the line becomes a record, and
\* changes nothing of what Replay reads otherwise.
LEMMA WriteAddsOneOrNone ==
  ASSUME TypeOK, PInv, tear = "none", NEW c \in Client, Write(c)
  PROVE  \/ Parsed(file') = Parsed(file)
         \/ \E e \in Entry : Parsed(file') = Append(Parsed(file), e)
  <1>1. mu = c /\ mu # "free"
    BY FileLogAssumption DEF TypeOK, Write
  <1>2. PICK e \in Entry, w \in 0 .. 2 : Newest(c, e, w)
    BY <1>1 DEF PInv, HolderWritesNewest
  <1>3. PICK k \in 1 .. 3 - w : Written(c, e, w, k)
    BY <1>2, WriteAppends DEF Newest
  <1>4. PICK h : h = Len(file) + 1 - w
    OBVIOUS
  <1>5. EndsWith(file, e, w, h)
    BY <1>1, <1>2, <1>4, HolderWritesTheLastLine
  <1>6. /\ Len(file) \in Nat /\ DOMAIN file = 1 .. Len(file) /\ file \in Seq(Piece)
        /\ h \in Nat \ {0} /\ Len(file) = (h - 1) + w /\ w + k \in 1 .. 3
    BY <1>5, EntryIds DEF EndsWith, TypeOK
  <1>7. /\ file' \in Seq(Piece) /\ Len(file') = Len(file) + k
        /\ \A i \in 1 .. Len(file) : file'[i] = file[i]
        /\ \A j \in 1 .. k : file'[Len(file) + j] = LineOf(e)[w + j]
    BY <1>3 DEF Written
  <1>8. EndsWith(file', e, w + k, h)
    <2>1. Starts(file', h)
      <3>1. h = 1 \/ h - 1 \in 1 .. Len(file)
        BY <1>6
      <3> QED
        BY <1>5, <1>7, <3>1 DEF EndsWith, Starts
    <2>2. ASSUME NEW j \in 1 .. w + k
          PROVE  file'[(h - 1) + j] = LineOf(e)[j]
      <3>1. CASE j \in 1 .. w
        <4>1. (h - 1) + j \in 1 .. Len(file)
          BY <1>6, <3>1
        <4> QED
          BY <1>5, <1>7, <3>1, <4>1 DEF EndsWith
      <3>2. CASE j \notin 1 .. w
        <4>1. j - w \in 1 .. k /\ Len(file) + (j - w) = (h - 1) + j /\ w + (j - w) = j
          BY <1>6, <3>2
        <4> QED
          BY <1>7, <4>1
      <3> QED
        BY <3>1, <3>2
    <2>3. Len(file') = (h - 1) + (w + k)
      BY <1>6, <1>7
    <2> QED
      BY <1>6, <2>1, <2>2, <2>3 DEF EndsWith
  <1> DEFINE B == RecordsBefore(file, h)
  <1>9. RecordsBefore(file', h) = B
    <2>1. \A i \in 1 .. h - 1 : file'[i] = file[i]
      <3> SUFFICES ASSUME NEW i \in 1 .. h - 1
                   PROVE  file'[i] = file[i]
        OBVIOUS
      <3>1. i \in 1 .. Len(file)
        BY <1>6
      <3> QED
        BY <1>7, <3>1
    <2>2. \A i \in 1 .. h - 1 : Starts(file', i) <=> Starts(file, i)
      <3>1. \A i \in 1 .. h - 1 : i = 1 \/ i - 1 \in 1 .. h - 1
        BY <1>6
      <3> QED
        BY <2>1, <3>1 DEF Starts
    <2>3. \A i \in 1 .. h - 1 : i + 2 <= h - 1 => i + 1 \in 1 .. h - 1 /\ i + 2 \in 1 .. h - 1
      BY <1>6
    <2> QED
      BY <2>1, <2>2, <2>3 DEF RecordsBefore
  <1>10. B \in SUBSET (1 .. h - 1)
    BY DEF RecordsBefore
  <1> HIDE DEF B
  <1>11. {i \in DOMAIN file : RecordAt(file, i)} = B \cup (IF w >= 2 THEN {h} ELSE {})
    BY <1>5, <1>6, RecordsOfLines DEF B
  <1>12. {i \in DOMAIN file' : RecordAt(file', i)} = B \cup (IF w + k >= 2 THEN {h} ELSE {})
    BY <1>6, <1>7, <1>8, <1>9, RecordsOfLines
  <1>13. /\ Parsed(file) = EntriesOf(Pick(file, {i \in DOMAIN file : RecordAt(file, i)}))
         /\ Parsed(file') = EntriesOf(Pick(file', {i \in DOMAIN file' : RecordAt(file', i)}))
    BY DEF Parsed, EntriesOf
  <1>14. ASSUME NEW Q, Q \in SUBSET (1 .. Len(file))
         PROVE  Pick(file', Q) = Pick(file, Q)
    <2>1. Q \in SUBSET Int /\ IsFiniteSet(Q)
      <3>1. IsFiniteSet(1 .. Len(file))
        BY <1>6, FS_Interval
      <3>2. Q \in SUBSET Int
        BY <1>14
      <3>3. IsFiniteSet(Q)
        BY <1>14, <3>1, FS_Subset
      <3> QED
        BY <3>2, <3>3
    <2>2. \A i \in Q : file'[i] = file[i]
      BY <1>7, <1>14
    <2> QED
      BY <2>1, <2>2, PickSame
  <1>15. CASE w >= 2
    <2> DEFINE Q == B \cup {h}
    <2>1. Q \in SUBSET (1 .. Len(file))
      BY <1>6, <1>10, <1>15
    <2>2. w + k >= 2
      BY <1>15
    <2>3. {i \in DOMAIN file : RecordAt(file, i)} = Q /\ {i \in DOMAIN file' : RecordAt(file', i)} = Q
      BY <1>11, <1>12, <1>15, <2>2
    <2> HIDE DEF Q
    <2>4. Pick(file', Q) = Pick(file, Q)
      BY <1>14, <2>1
    <2> QED
      BY <1>13, <2>3, <2>4
  <1>16. B \in SUBSET (1 .. Len(file))
    BY <1>6, <1>10
  <1>17. Pick(file', B) = Pick(file, B)
    BY <1>14, <1>16
  <1>18. CASE w < 2 /\ w + k < 2
    <2>1. {i \in DOMAIN file : RecordAt(file, i)} = B /\ {i \in DOMAIN file' : RecordAt(file', i)} = B
      BY <1>11, <1>12, <1>18
    <2> QED
      BY <1>13, <1>17, <2>1
  <1>19. CASE w < 2 /\ w + k >= 2
    <2>1. {i \in DOMAIN file : RecordAt(file, i)} = B /\ {i \in DOMAIN file' : RecordAt(file', i)} = B \cup {h}
      BY <1>11, <1>12, <1>19
    <2>2. DOMAIN file' = 1 .. Len(file') /\ h \in 1 .. Len(file') /\ B \in SUBSET DOMAIN file' /\ \A j \in B : j < h
      BY <1>6, <1>7, <1>10, <1>19
    <2>3. Pick(file', B \cup {h}) = Append(Pick(file', B), file'[h])
      BY <1>7, <2>2, PickAppend
    <2>4. file'[h] \in Piece /\ file'[h].e = e
      <3>1. 1 \in 1 .. w + k /\ (h - 1) + 1 = h
        BY <1>6
      <3>2. file'[h] = LineOf(e)[1]
        BY <1>8, <3>1 DEF EndsWith
      <3> QED
        BY <3>2, LinePieces
    <2>5. Pick(file, B) \in Seq(Piece)
      <3>1. B \in SUBSET Int /\ IsFiniteSet(B)
        <4>1. IsFiniteSet(1 .. Len(file))
          BY <1>6, FS_Interval
        <4>2. B \in SUBSET Int
          BY <1>16
        <4>3. IsFiniteSet(B)
          BY <1>16, <4>1, FS_Subset
        <4> QED
          BY <4>2, <4>3
      <3>2. /\ Cardinality(B) \in Nat /\ DOMAIN Ascending(B) = 1 .. Cardinality(B)
            /\ \A i \in 1 .. Cardinality(B) : Ascending(B)[i] \in B
        BY <3>1, AscendingLists
      <3>3. \A i \in B : file[i] \in Piece
        BY <1>6, <1>16
      <3> QED
        BY <3>2, <3>3 DEF Pick
    <2>6. EntriesOf(Append(Pick(file, B), file'[h])) = Append(EntriesOf(Pick(file, B)), e)
      BY <2>4, <2>5, EntriesOfAppend
    <2>7. Parsed(file') = Append(Parsed(file), e)
      BY <1>13, <1>17, <2>1, <2>3, <2>6
    <2> QED
      BY <2>7
  <1> QED
    BY <1>6, <1>15, <1>18, <1>19

LEMMA StepIsMemLog ==
  ASSUME TypeOK, PInv, [Next]_vars
  PROVE  tear' = "buried" \/ AsMemLog!Next \/ UNCHANGED Parsed(file)
  <1>1. ASSUME UNCHANGED file
        PROVE  UNCHANGED Parsed(file)
    BY <1>1
  <1>2. ASSUME NEW c \in Client, Write(c), tear' # "buried"
        PROVE  AsMemLog!Next \/ UNCHANGED Parsed(file)
    <2>1. tear = "none"
      BY <1>2 DEF Write
    <2>2. CASE Parsed(file') = Parsed(file)
      BY <2>2
    <2>3. CASE \E e \in Entry : Parsed(file') = Append(Parsed(file), e)
      <3>1. PICK e \in Entry : Parsed(file') = Append(Parsed(file), e)
        BY <2>3
      <3>2. e \in AsMemLog!Record
        BY DEF AsMemLog!Record, Entry, Mem!Record
      <3> QED
        BY <3>1, <3>2 DEF AsMemLog!Next, AsMemLog!AppendEntry
    <2> QED
      BY <1>2, <2>1, <2>2, <2>3, WriteAddsOneOrNone
  <1>3. \/ UNCHANGED file
        \/ \E c \in Client : Write(c)
    BY DEF Next, vars, Open, AppendBegins, WriteFails, Close, Crash
  <1> QED
    BY <1>1, <1>2, <1>3

LEMMA InitIsMemLog == Init => AsMemLog!Init
  <1> SUFFICES ASSUME Init
               PROVE  Parsed(file) = <<>>
    BY DEF AsMemLog!Init
  <1>1. file = <<>> /\ file \in Seq(Piece) /\ DOMAIN file = {}
    BY DEF Init
  <1>2. Parsed(file) \in Seq(Entry) /\ \E a : ListsRecords(file, Parsed(file), a)
    BY <1>1, ParsedListsRecords
  <1> DEFINE p == Parsed(file)
  <1> HIDE DEF p
  <1>3. PICK a : ListsRecords(file, p, a)
    BY <1>2 DEF p
  <1>4. Len(p) \in Nat /\ \A k \in 1 .. Len(p) : FALSE
    BY <1>1, <1>3 DEF ListsRecords
  <1>5. Len(p) = 0 /\ p \in Seq(Entry)
    <2>1. Len(p) > 0 => 1 \in 1 .. Len(p)
      BY <1>4
    <2> QED
      BY <1>2, <1>4, <2>1 DEF p
  <1>6. p = <<>>
    BY <1>5
  <1> QED
    BY <1>6 DEF p

-----------------------------------------------------------------------------
(* What Replay can be relied on for.                                       *)

\* Up to the first write behind a torn line, Replay returns every acknowledged
\* entry and at most one other, the torn one's (FileLog.Replay's tolerance).
THEOREM FirstTearIsHarmless == Spec => []FirstTearLosesNothing
  <1>1. TypeOK /\ PInv => FirstTearLosesNothing
    BY TornLosesNothing DEF FirstTearLosesNothing
  <1> QED
    BY <1>1, PieceInvariance, PTL

\* Replay returns the run's own entries, each once, by Seq, and those of one Seq
\* in the order in which they were appended (sort.SliceStable in FileLog.Replay).
THEOREM ReplaySortsStably == Spec => []ReplayIsInOrder
  BY ReplayIsSorted, PieceInvariance, PTL

\* A Replay that succeeds misses at most the last acknowledged entry, however
\* often the log was torn and reopened (FileLog.Replay's check of the last line).
THEOREM OnlyTheLastIsLost == Spec => []AtMostTheLastIsLost
  BY LossIsLast, PieceInvariance, PTL

\* Until something is written behind a torn line, what Replay reads is an
\* in-memory log to which each step appends one entry or none (FileLog and MemLog,
\* the two implementations of Log).
THEOREM FileLogIsMemLog == Spec => ImplementsMemLog
  <1>1. TypeOK /\ PInv /\ [Next]_vars => [tear' = "buried" \/ AsMemLog!Next]_(Parsed(file))
    BY StepIsMemLog
  <1> QED
    BY <1>1, InitIsMemLog, PieceInvariance, PTL DEF Spec, ImplementsMemLog

=============================================================================
