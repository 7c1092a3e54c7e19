-------------------------- MODULE PacketLoggerProofs --------------------------
(***************************************************************************)
(* Proofs about PacketLogger, for any number of processes and lines.       *)
(*                                                                         *)
(* The pieces in the file and those still in the buffer of the stream have *)
(* to be looked at together: an overflow only moves the border between     *)
(* them.  While the stream is good, and after it was closed without an     *)
(* error, they are exactly what the process has inserted (LogExact); a     *)
(* failure freezes them as a beginning of it.                              *)
(***************************************************************************)
EXTENDS PacketLogger, SequenceTheorems, TLAPS

Piece == Run \X Nat \X Part

LoggerTypeOK ==
  /\ run \in 0 .. MaxRuns
  /\ up \in BOOLEAN
  /\ stream \in {"good", "bad", "closed", "saved"}
  /\ buffer \in Seq(Piece)
  /\ file \in Seq(Piece)
  /\ written \in [Run -> Seq(Piece)]
  /\ lines \in [Run -> Nat]
  /\ flushed \subseteq Run \X Nat

\* A process is running, or nothing of the stream is left.
ProcessState ==
  /\ up \/ stream = "saved" => run \in Run
  /\ up => stream # "saved"
  /\ ~up => stream \in {"closed", "saved"}
  /\ stream \in {"closed", "saved"} => buffer = << >>

\* File and buffer together are the beginning of what a process has inserted.
LogBegun == file \o buffer = << >> \/ \E r \in Run : BeginsLog(file \o buffer, r)

\* Nothing is missing, unless something has failed.
LogExact == stream \in {"good", "saved"} => file \o buffer = written[run]

\* Every line inserted has its end among the pieces inserted.
LinesEnd ==
  \A r \in Run : \A n \in 1 .. lines[r] :
    \E i \in DOMAIN written[r] : written[r][i] = <<r, n, "end">>

\* Lines flushed belong to processes started.
FlushedStarted == \A l \in flushed : l[1] <= run

\* Processes not started have inserted nothing.
NothingBefore == \A r \in Run : r > run => written[r] = << >> /\ lines[r] = 0

\* The inductive invariant.
LogInv ==
  /\ LoggerTypeOK
  /\ ProcessState
  /\ LogBegun
  /\ LogExact
  /\ LinesEnd
  /\ FlushedStarted
  /\ NothingBefore
  /\ FlushedSurvives

-----------------------------------------------------------------------------
(* Beginnings of sequences.                                                 *)

\* A beginning of a beginning is a beginning.
LEMMA PrefixOfConcat ==
  ASSUME NEW S, NEW s \in Seq(S), NEW t \in Seq(S), NEW w \in Seq(S),
         NEW k \in 0 .. Len(w), s \o t = SubSeq(w, 1, k)
  PROVE  Len(s) \in 0 .. Len(w) /\ s = SubSeq(w, 1, Len(s))
<1>1. /\ SubSeq(w, 1, k) \in Seq(S)
      /\ Len(SubSeq(w, 1, k)) = k
      /\ \A i \in 1 .. k : SubSeq(w, 1, k)[i] = w[i]
  OBVIOUS
<1>2. Len(s \o t) = Len(s) + Len(t) /\ \A i \in 1 .. Len(s) : (s \o t)[i] = s[i]
  OBVIOUS
<1>3. Len(s) \in Nat /\ Len(t) \in Nat /\ Len(w) \in Nat
  OBVIOUS
<1>4. Len(s) <= k
  BY <1>1, <1>2, <1>3
<1>5. /\ SubSeq(w, 1, Len(s)) \in Seq(S)
      /\ Len(SubSeq(w, 1, Len(s))) = Len(s)
      /\ \A i \in 1 .. Len(s) : SubSeq(w, 1, Len(s))[i] = w[i]
  BY <1>3, <1>4
<1>6. \A i \in 1 .. Len(s) : s[i] = SubSeq(w, 1, Len(s))[i]
  BY <1>1, <1>2, <1>3, <1>4, <1>5
<1>7. s = SubSeq(w, 1, Len(s))
  BY <1>5, <1>6, SeqEqual
<1> QED
  BY <1>3, <1>4, <1>7

\* A beginning of w is a beginning of what w is extended to.
LEMMA PrefixExtended ==
  ASSUME NEW S, NEW w \in Seq(S), NEW u \in Seq(S), NEW k \in 0 .. Len(w)
  PROVE  /\ k \in 0 .. Len(w \o u)
         /\ SubSeq(w \o u, 1, k) = SubSeq(w, 1, k)
<1>1. Len(w \o u) = Len(w) + Len(u) /\ Len(w) \in Nat /\ Len(u) \in Nat
  OBVIOUS
<1>2. k \in 0 .. Len(w \o u)
  BY <1>1
<1>3. /\ SubSeq(w, 1, k) \in Seq(S)
      /\ Len(SubSeq(w, 1, k)) = k
      /\ SubSeq(w \o u, 1, k) \in Seq(S)
      /\ Len(SubSeq(w \o u, 1, k)) = k
      /\ \A i \in 1 .. k : SubSeq(w, 1, k)[i] = SubSeq(w \o u, 1, k)[i]
  BY <1>1
<1>4. SubSeq(w \o u, 1, k) = SubSeq(w, 1, k)
  BY <1>3, SeqEqual
<1> QED
  BY <1>2, <1>4

\* A sequence is what it is cut into.
LEMMA CutAnywhere ==
  ASSUME NEW S, NEW b \in Seq(S), NEW k \in 0 .. Len(b)
  PROVE  /\ SubSeq(b, 1, k) \in Seq(S)
         /\ SubSeq(b, k + 1, Len(b)) \in Seq(S)
         /\ SubSeq(b, 1, k) \o SubSeq(b, k + 1, Len(b)) = b
<1>1. SubSeq(b, 1, k) \in Seq(S) /\ SubSeq(b, k + 1, Len(b)) \in Seq(S)
  OBVIOUS
<1>2. Len(b) \in Nat /\ 1 \in 1 .. Len(b) + 1 /\ k \in 1 - 1 .. Len(b) /\ Len(b) \in k .. Len(b)
  OBVIOUS
<1>3. SubSeq(b, 1, k) \o SubSeq(b, k + 1, Len(b)) = SubSeq(b, 1, Len(b))
  BY <1>2, ConcatAdjacentSubSeq
<1> QED
  BY <1>1, <1>3, SubSeqFull

\* What a beginning of p adds to s is a beginning of what p adds to it.
LEMMA PrefixAdded ==
  ASSUME NEW S, NEW s \in Seq(S), NEW p \in Seq(S), NEW j \in 0 .. Len(p)
  PROVE  /\ Len(s) + j \in 0 .. Len(s \o p)
         /\ s \o SubSeq(p, 1, j) = SubSeq(s \o p, 1, Len(s) + j)
<1> DEFINE a == s \o SubSeq(p, 1, j)
           b == SubSeq(s \o p, 1, Len(s) + j)
<1>1. /\ Len(s) \in Nat
      /\ Len(p) \in Nat
      /\ s \o p \in Seq(S)
      /\ Len(s \o p) = Len(s) + Len(p)
      /\ Len(s) + j \in 0 .. Len(s \o p)
  OBVIOUS
<1>2. /\ SubSeq(p, 1, j) \in Seq(S)
      /\ Len(SubSeq(p, 1, j)) = j
      /\ \A i \in 1 .. j : SubSeq(p, 1, j)[i] = p[i]
  BY <1>1
<1>3. /\ a \in Seq(S)
      /\ Len(a) = Len(s) + j
      /\ \A i \in 1 .. Len(s) + j : a[i] = (s \o p)[i]
  BY <1>1, <1>2
<1>4. /\ b \in Seq(S)
      /\ Len(b) = Len(s) + j
      /\ \A i \in 1 .. Len(s) + j : b[i] = (s \o p)[i]
  BY <1>1
<1>5. a = b
  BY <1>3, <1>4, SeqEqual
<1> QED
  BY <1>1, <1>5

\* A sequence is a suffix of itself.
LEMMA SuffixOfItself ==
  ASSUME NEW S, NEW s \in Seq(S)
  PROVE  IsSuffix(s, s)
<1>1. Reverse(s) \in Seq(S)
  BY DEF Reverse
<1>2. Len(Reverse(s)) <= Len(Reverse(s))
  BY <1>1
<1> QED
  BY <1>2 DEF IsSuffix, IsPrefix

-----------------------------------------------------------------------------
(* What the operations do to the pieces.                                    *)

\* Nothing that was in the file has gone.
Grown == \A i \in DOMAIN file : i \in DOMAIN file' /\ file'[i] = file[i]

\* A file that is written to keeps what it has.
LEMMA AppendGrows ==
  ASSUME file \in Seq(Piece), NEW t \in Seq(Piece), file' = file \o t
  PROVE  Grown /\ file' \in Seq(Piece)
  BY DEF Grown

\* An overflow moves the border between file and buffer.
LEMMA OverflowFacts ==
  ASSUME LoggerTypeOK, NEW b \in Seq(Piece), Overflow(b)
  PROVE  /\ file' \in Seq(Piece)
         /\ buffer' \in Seq(Piece)
         /\ file' \o buffer' = file \o b
         /\ Grown
<1>1. PICK k \in 0 .. Len(b) :
        /\ file' = file \o SubSeq(b, 1, k)
        /\ buffer' = SubSeq(b, k + 1, Len(b))
  BY DEF Overflow
<1>2. /\ SubSeq(b, 1, k) \in Seq(Piece)
      /\ SubSeq(b, k + 1, Len(b)) \in Seq(Piece)
      /\ SubSeq(b, 1, k) \o SubSeq(b, k + 1, Len(b)) = b
  BY CutAnywhere
<1>3. file \in Seq(Piece)
  BY DEF LoggerTypeOK
<1>4. file' \o buffer' = file \o b
  <2> DEFINE x == SubSeq(b, 1, k)
             y == SubSeq(b, k + 1, Len(b))
  <2>1. x \in Seq(Piece) /\ y \in Seq(Piece)
    BY <1>2
  <2>2. x \o y = b /\ file' = file \o x /\ buffer' = y
    BY <1>1, <1>2
  <2> HIDE DEF x, y
  <2>3. (file \o x) \o y = file \o (x \o y)
    BY <1>3, <2>1, ConcatAssociative, SMTT(30)
  <2> QED
    BY <2>2, <2>3, Zenon
<1>5. Grown /\ file' \in Seq(Piece)
  BY <1>1, <1>2, <1>3, AppendGrows
<1> QED
  BY <1>1, <1>2, <1>4, <1>5

\* A line has its end among its pieces.
LEMMA PiecesFacts ==
  ASSUME LoggerTypeOK, run \in Run, NEW sql \in BOOLEAN
  PROVE  /\ Pieces(sql) \in Seq(Piece)
         /\ \E i \in 1 .. Len(Pieces(sql)) : Pieces(sql)[i] = <<run, lines[run] + 1, "end">>
<1>1. \A part \in Part : <<run, lines[run] + 1, part>> \in Piece
  BY DEF LoggerTypeOK, Piece
<1>2. CASE sql
  BY <1>1, <1>2 DEF Pieces, Part
<1>3. CASE ~sql
  BY <1>1, <1>3 DEF Pieces, Part
<1> QED
  BY <1>2, <1>3

\* Complete lines stay complete.
LEMMA StillFlushed ==
  ASSUME FlushedSurvives, FlushedStarted, Grown, UNCHANGED <<run, flushed>>
  PROVE  FlushedSurvives' /\ FlushedStarted'
  BY DEF FlushedSurvives, FlushedStarted, Grown, Complete

\* What is flushed while nothing has failed is every line of the process.
LEMMA FlushesAll ==
  ASSUME LogInv, run \in Run, stream = "good", up, file' = file \o buffer,
         flushed' = flushed \cup {<<run, n>> : n \in 1 .. lines[run]}, run' = run
  PROVE  /\ flushed' \subseteq Run \X Nat
         /\ FlushedSurvives'
         /\ FlushedStarted'
<1>1. /\ file \in Seq(Piece)
      /\ buffer \in Seq(Piece)
      /\ lines[run] \in Nat
      /\ flushed \subseteq Run \X Nat
      /\ run \in Nat
  BY DEF LogInv, LoggerTypeOK
<1>2. Grown
  BY <1>1, AppendGrows
<1>3. file' = written[run]
  BY DEF LogInv, LogExact
<1>4. flushed' \subseteq Run \X Nat
  BY <1>1
<1>5. FlushedStarted'
  BY <1>1 DEF LogInv, FlushedStarted
<1>6. ASSUME NEW l \in flushed', l[1] = run PROVE Complete(l)'
  <2>1. CASE l \in flushed
    <3>1. Complete(l)
      BY <1>6, <2>1 DEF LogInv, FlushedSurvives
    <3> QED
      BY <1>2, <3>1 DEF Complete, Grown
  <2>2. CASE l \notin flushed
    <3>1. PICK n \in 1 .. lines[run] : l = <<run, n>>
      BY <2>2
    <3>2. \E i \in DOMAIN written[run] : written[run][i] = <<run, n, "end">>
      BY DEF LogInv, LinesEnd
    <3> QED
      BY <1>3, <3>1, <3>2 DEF Complete
  <2> QED
    BY <2>1, <2>2
<1> QED
  BY <1>4, <1>5, <1>6 DEF FlushedSurvives

-----------------------------------------------------------------------------
(* The actions.                                                             *)

\* The file of a new process is empty, or it is the file of another one.
LEMMA OpenStep == ASSUME LogInv, Open PROVE LogInv'
<1> USE DEF LogInv
<1>1. /\ run' = run + 1
      /\ run \in 0 .. MaxRuns
      /\ run < MaxRuns
      /\ MaxRuns \in Nat
      /\ buffer = << >>
      /\ file \in Seq(Piece)
      /\ UNCHANGED <<buffer, written, lines, flushed>>
  BY LoggerAssumption DEF Open, LoggerTypeOK, ProcessState
<1>2. run' \in Run
  BY <1>1 DEF Run
<1>3. LoggerTypeOK'
  <2>1. up' = TRUE /\ stream' \in {"good", "closed"}
    BY DEF Open
  <2>2. file' \in Seq(Piece)
    <3>1. << >> \in Seq(Piece)
      OBVIOUS
    <3> QED
      BY <1>1, <3>1, Zenon DEF Open
  <2>3. run' \in 0 .. MaxRuns
    BY <1>1
  <2> QED
    BY <1>1, <2>1, <2>2, <2>3 DEF LoggerTypeOK
<1>4. ProcessState'
  BY <1>1, <1>2 DEF Open, ProcessState
<1>5. LinesEnd'
  BY <1>1 DEF LinesEnd
<1>6. FlushedStarted' /\ FlushedSurvives'
  <2>1. \A l \in flushed : l[1] \in Nat /\ l[1] <= run
    BY DEF LoggerTypeOK, FlushedStarted, Run
  <2> QED
    BY <1>1, <2>1 DEF FlushedStarted, FlushedSurvives
<1>9. NothingBefore'
  <2>1. \A r \in Run : r \in Nat
    BY DEF Run
  <2> QED
    BY <1>1, <2>1 DEF NothingBefore
<1>7. CASE stream' = "good" /\ file' = << >>
  <2>1. file' = << >> /\ buffer' = << >>
    BY <1>1, <1>7
  <2>2. file' \o buffer' = << >>
    BY <2>1
  <2>3. LogExact'
    BY <1>1, <1>2, <2>2 DEF LogExact, NothingBefore
  <2> QED
    BY <1>3, <1>4, <1>5, <1>6, <1>9, <2>2, <2>3 DEF LogBegun
<1>8. CASE stream' = "closed" /\ UNCHANGED file
  <2>1. LogBegun'
    BY <1>1, <1>8 DEF LogBegun, BeginsLog
  <2>2. LogExact'
    BY <1>8 DEF LogExact
  <2> QED
    BY <1>3, <1>4, <1>5, <1>6, <1>9, <2>1, <2>2
<1> QED
  BY <1>7, <1>8 DEF Open

\* Pieces that reach the file, or only the buffer, follow those that are there.
LEMMA InsertsAfter ==
  ASSUME LogInv, up, stream = "good", NEW t \in Seq(Piece), Overflow(buffer \o t)
  PROVE  /\ file' \in Seq(Piece)
         /\ buffer' \in Seq(Piece)
         /\ file' \o buffer' = written[run] \o t
         /\ Grown
<1>1. LoggerTypeOK /\ file \in Seq(Piece) /\ buffer \in Seq(Piece)
  BY DEF LogInv, LoggerTypeOK
<1>2. buffer \o t \in Seq(Piece)
  BY <1>1
<1>3. /\ file' \in Seq(Piece)
      /\ buffer' \in Seq(Piece)
      /\ file' \o buffer' = file \o (buffer \o t)
      /\ Grown
  BY <1>1, <1>2, OverflowFacts
<1>4. (file \o buffer) \o t = file \o (buffer \o t)
  BY <1>1, ConcatAssociative
<1>5. file \o buffer = written[run]
  BY DEF LogInv, LogExact
<1> QED
  BY <1>3, <1>4, <1>5

\* A line is inserted, or the first pieces of it, or nothing.
LEMMA LogStep ==
  ASSUME LogInv, NEW sql \in BOOLEAN, packet_logger(sql) PROVE LogInv'
<1> DEFINE P == Pieces(sql)
<1>1. /\ LoggerTypeOK
      /\ up
      /\ run \in Run
      /\ stream \in {"good", "bad", "closed"}
      /\ file \in Seq(Piece)
      /\ buffer \in Seq(Piece)
      /\ written \in [Run -> Seq(Piece)]
      /\ lines \in [Run -> Nat]
      /\ UNCHANGED <<run, up, flushed>>
  BY DEF LogInv, LoggerTypeOK, ProcessState, packet_logger
<1>2. P \in Seq(Piece) /\ \E i \in 1 .. Len(P) : P[i] = <<run, lines[run] + 1, "end">>
  BY <1>1, PiecesFacts
<1>3. /\ lines' = [lines EXCEPT ![run] = lines[run] + 1]
      /\ written' = [written EXCEPT ![run] = written[run] \o P]
      /\ \/ Accepts /\ Overflow(buffer \o P) /\ UNCHANGED stream
         \/ /\ Accepts
            /\ \E k \in 1 .. Len(P) : Overflow(buffer \o SubSeq(P, 1, k - 1))
            /\ stream' = "bad"
         \/ ~Accepts /\ UNCHANGED <<buffer, file, stream>>
  BY DEF packet_logger
<1> HIDE DEF P
<1>4. written[run] \in Seq(Piece) /\ written[run] \o P \in Seq(Piece) /\ lines[run] \in Nat
  BY <1>1, <1>2
<1>5. written' \in [Run -> Seq(Piece)] /\ lines' \in [Run -> Nat]
  BY <1>1, <1>3, <1>4
<1>6. LinesEnd'
  <2> SUFFICES ASSUME NEW r \in Run, NEW n \in 1 .. lines'[r]
               PROVE  \E i \in DOMAIN written'[r] : written'[r][i] = <<r, n, "end">>
    BY DEF LinesEnd
  <2>1. CASE r # run
    BY <1>1, <1>3, <2>1 DEF LogInv, LinesEnd
  <2>2. CASE r = run
    <3>1. written'[r] = written[run] \o P /\ lines'[r] = lines[run] + 1
      BY <1>1, <1>3, <2>2
    <3>2. CASE n = lines[run] + 1
      <4>1. PICK i \in 1 .. Len(P) : P[i] = <<run, lines[run] + 1, "end">>
        BY <1>2
      <4>2. /\ Len(written[run]) + i \in DOMAIN (written[run] \o P)
            /\ (written[run] \o P)[Len(written[run]) + i] = P[i]
        BY <1>2, <1>4
      <4> QED
        BY <2>2, <3>1, <3>2, <4>1, <4>2
    <3>3. CASE n # lines[run] + 1
      <4>1. n \in 1 .. lines[run]
        BY <1>4, <3>1, <3>3
      <4>2. PICK i \in DOMAIN written[run] : written[run][i] = <<run, n, "end">>
        BY <1>1, <4>1 DEF LogInv, LinesEnd
      <4>3. i \in DOMAIN (written[run] \o P) /\ (written[run] \o P)[i] = written[run][i]
        BY <1>2, <1>4
      <4> QED
        BY <2>2, <3>1, <4>2, <4>3
    <3> QED
      BY <3>2, <3>3
  <2> QED
    BY <2>1, <2>2
<1>7. NothingBefore'
  <2>1. run \in Nat
    BY <1>1 DEF Run
  <2>2. ASSUME NEW r \in Run, r > run PROVE written'[r] = << >> /\ lines'[r] = 0
    <3>1. r # run
      BY <2>1, <2>2
    <3> QED
      BY <1>1, <1>3, <2>2, <3>1 DEF LogInv, NothingBefore
  <2> QED
    BY <1>1, <2>2 DEF NothingBefore
<1>8. written'[run] = written[run] \o P
  BY <1>1, <1>3
\* What is left is the same in each case: the new pieces begin written'[run].
<1>9. ASSUME NEW t \in Seq(Piece), NEW j \in 0 .. Len(P), t = SubSeq(P, 1, j),
             stream = "good", Overflow(buffer \o t), stream' \in {"good", "bad"},
             stream' = "good" => t = P
      PROVE  LogInv'
  <2>1. /\ file' \in Seq(Piece)
        /\ buffer' \in Seq(Piece)
        /\ file' \o buffer' = written[run] \o t
        /\ Grown
    BY <1>1, <1>9, InsertsAfter
  <2>2. LoggerTypeOK' /\ ProcessState'
    BY <1>1, <1>5, <1>9, <2>1 DEF LoggerTypeOK, ProcessState
  <2>3. BeginsLog(file \o buffer, run)'
    <3>1. /\ Len(written[run]) + j \in 0 .. Len(written[run] \o P)
          /\ written[run] \o t = SubSeq(written[run] \o P, 1, Len(written[run]) + j)
      BY <1>2, <1>4, <1>9, PrefixAdded
    <3> QED
      BY <1>1, <1>8, <2>1, <3>1, Zenon DEF BeginsLog
  <2>4. LogBegun'
    BY <1>1, <2>3 DEF LogBegun
  <2>5. LogExact'
    BY <1>1, <1>8, <1>9, <2>1 DEF LogExact
  <2>6. FlushedSurvives' /\ FlushedStarted'
    BY <1>1, <2>1, StillFlushed DEF LogInv
  <2> QED
    BY <1>6, <1>7, <2>2, <2>4, <2>5, <2>6 DEF LogInv
<1>10. CASE Accepts /\ Overflow(buffer \o P) /\ UNCHANGED stream
  <2>1. P = SubSeq(P, 1, Len(P)) /\ Len(P) \in 0 .. Len(P)
    BY <1>2, SubSeqFull
  <2> QED
    BY <1>2, <1>9, <1>10, <2>1 DEF Accepts
<1>11. CASE /\ Accepts
            /\ \E k \in 1 .. Len(P) : Overflow(buffer \o SubSeq(P, 1, k - 1))
            /\ stream' = "bad"
  <2>1. PICK k \in 1 .. Len(P) : Overflow(buffer \o SubSeq(P, 1, k - 1))
    BY <1>11
  <2>2. SubSeq(P, 1, k - 1) \in Seq(Piece) /\ k - 1 \in 0 .. Len(P)
    BY <1>2
  <2> QED
    BY <1>9, <1>11, <2>1, <2>2 DEF Accepts
<1>12. CASE ~Accepts /\ UNCHANGED <<buffer, file, stream>>
  <2>1. LoggerTypeOK' /\ ProcessState'
    BY <1>1, <1>5, <1>12 DEF LogInv, LoggerTypeOK, ProcessState
  <2>2. LogBegun'
    <3>1. CASE file \o buffer = << >>
      BY <1>12, <3>1 DEF LogBegun
    <3>2. CASE file \o buffer # << >>
      <4>1. PICK r \in Run : BeginsLog(file \o buffer, r)
        BY <3>2 DEF LogInv, LogBegun
      <4>2. PICK k \in 0 .. Len(written[r]) : file \o buffer = SubSeq(written[r], 1, k)
        BY <4>1 DEF BeginsLog
      <4>3. k \in 0 .. Len(written'[r]) /\ SubSeq(written'[r], 1, k) = SubSeq(written[r], 1, k)
        <5>1. CASE r = run
          <6>1. k \in 0 .. Len(written[run])
            BY <5>1
          <6>2. /\ k \in 0 .. Len(written[run] \o P)
                /\ SubSeq(written[run] \o P, 1, k) = SubSeq(written[run], 1, k)
            BY <1>2, <1>4, <6>1, PrefixExtended
          <6> QED
            BY <1>8, <5>1, <6>2
        <5>2. CASE r # run
          BY <1>1, <1>3, <4>2, <5>2
        <5> QED
          BY <5>1, <5>2
      <4>4. file' \o buffer' = SubSeq(written'[r], 1, k)
        BY <1>12, <4>2, <4>3
      <4> QED
        BY <4>3, <4>4, Zenon DEF LogBegun, BeginsLog
    <3> QED
      BY <3>1, <3>2
  <2>3. LogExact'
    BY <1>1, <1>12 DEF LogExact, Accepts
  <2>4. FlushedSurvives' /\ FlushedStarted'
    <3>1. Grown
      BY <1>12 DEF Grown
    <3> QED
      BY <1>1, <3>1, StillFlushed DEF LogInv
  <2> QED
    BY <1>6, <1>7, <2>1, <2>2, <2>3, <2>4 DEF LogInv
<1> QED
  BY <1>3, <1>10, <1>11, <1>12

\* What is begun stays begun when only the border between file and buffer moves,
\* or the end of the buffer is lost.
LEMMA StillBegun ==
  ASSUME LogInv, NEW t \in Seq(Piece), file' \in Seq(Piece), buffer' \in Seq(Piece),
         file \o buffer = (file' \o buffer') \o t, written' = written
  PROVE  LogBegun'
<1>1. file \in Seq(Piece) /\ buffer \in Seq(Piece) /\ file' \o buffer' \in Seq(Piece)
  BY DEF LogInv, LoggerTypeOK
<1>2. CASE file \o buffer = << >>
  <2> DEFINE s == file' \o buffer'
  <2>2. s \in Seq(Piece) /\ s \o t = << >>
    BY <1>1, <1>2
  <2> HIDE DEF s
  <2>1. s = << >>
    BY <2>2, ConcatEqualIffEmpty
  <2> QED
    BY <2>1 DEF LogBegun, s
<1>3. CASE file \o buffer # << >>
  <2>1. PICK r \in Run : BeginsLog(file \o buffer, r)
    BY <1>3 DEF LogInv, LogBegun
  <2>2. PICK k \in 0 .. Len(written[r]) : (file' \o buffer') \o t = SubSeq(written[r], 1, k)
    BY <2>1 DEF BeginsLog
  <2>3. written[r] \in Seq(Piece)
    BY DEF LogInv, LoggerTypeOK
  <2> DEFINE s == file' \o buffer'
  <2>4. s \in Seq(Piece) /\ s \o t = SubSeq(written[r], 1, k)
    BY <1>1, <2>2
  <2> HIDE DEF s
  <2>5. Len(s) \in 0 .. Len(written[r]) /\ s = SubSeq(written[r], 1, Len(s))
    BY <2>3, <2>4, PrefixOfConcat
  <2> QED
    BY <2>5, Zenon DEF LogBegun, BeginsLog, s
<1> QED
  BY <1>2, <1>3

\* Everything the buffer holds is handed over, or some of it before a failure.
LEMMA FlushStep == ASSUME LogInv, flush PROVE LogInv'
<1>1. /\ LoggerTypeOK
      /\ up
      /\ run \in Run
      /\ file \in Seq(Piece)
      /\ buffer \in Seq(Piece)
      /\ flushed \subseteq Run \X Nat
      /\ << >> \in Seq(Piece)
      /\ UNCHANGED <<run, up, written, lines>>
  BY DEF LogInv, LoggerTypeOK, ProcessState, flush
<1>2. LinesEnd' /\ NothingBefore'
  BY <1>1 DEF LogInv, LinesEnd, NothingBefore
<1>3. CASE /\ stream = "good"
           /\ file' = file \o buffer
           /\ buffer' = << >>
           /\ flushed' = flushed \cup {<<run, n>> : n \in 1 .. lines[run]}
           /\ UNCHANGED stream
  <2>1. file' \in Seq(Piece) /\ file' \o buffer' = file \o buffer
    BY <1>1, <1>3
  <2>2. flushed' \subseteq Run \X Nat /\ FlushedSurvives' /\ FlushedStarted'
    BY <1>1, <1>3, FlushesAll
  <2>3. LogBegun' /\ LogExact'
    BY <1>1, <1>3, <2>1 DEF LogInv, LogBegun, BeginsLog, LogExact
  <2>4. LoggerTypeOK' /\ ProcessState'
    BY <1>1, <1>3, <2>1, <2>2 DEF LogInv, LoggerTypeOK, ProcessState
  <2> QED
    BY <1>2, <2>2, <2>3, <2>4 DEF LogInv
<1>4. CASE /\ stream \in {"good", "bad"}
           /\ Overflow(buffer)
           /\ stream' = "bad"
           /\ UNCHANGED flushed
  <2>1. /\ file' \in Seq(Piece)
        /\ buffer' \in Seq(Piece)
        /\ file' \o buffer' = file \o buffer
        /\ Grown
    BY <1>1, <1>4, OverflowFacts
  <2>2. LogBegun' /\ LogExact'
    BY <1>1, <1>4, <2>1 DEF LogInv, LogBegun, BeginsLog, LogExact
  <2>3. LoggerTypeOK' /\ ProcessState'
    BY <1>1, <1>4, <2>1 DEF LogInv, LoggerTypeOK, ProcessState
  <2>4. FlushedSurvives' /\ FlushedStarted'
    BY <1>1, <1>4, <2>1, StillFlushed DEF LogInv
  <2> QED
    BY <1>2, <2>2, <2>3, <2>4 DEF LogInv
<1>5. CASE stream = "closed" /\ UNCHANGED <<file, buffer, stream, flushed>>
  BY <1>1, <1>5 DEF LogInv, LoggerTypeOK, ProcessState, LogBegun, BeginsLog,
     LogExact, LinesEnd, NothingBefore, FlushedStarted, FlushedSurvives, Complete
<1> QED
  BY <1>3, <1>4, <1>5 DEF flush, Sync

\* The end of the process: the buffer is lost, after some of it or all of it has
\* been written.
LEMMA EndStep ==
  ASSUME LogInv, up, up' = FALSE, stream' \in {"closed", "saved"}, buffer' = << >>,
         UNCHANGED <<run, written, lines>>,
         stream' = "saved" => stream = "good" /\ file' = file \o buffer,
         NEW u \in Seq(Piece), file' \in Seq(Piece), file \o buffer = file' \o u,
         flushed' \subseteq Run \X Nat, FlushedSurvives', FlushedStarted'
  PROVE  LogInv'
<1>1. buffer' \in Seq(Piece) /\ file' \o buffer' = file'
  OBVIOUS
<1>2. LogBegun'
  BY <1>1, StillBegun
<1>3. LoggerTypeOK' /\ ProcessState'
  BY <1>1 DEF LogInv, LoggerTypeOK, ProcessState
<1>4. LogExact'
  BY <1>1 DEF LogInv, LogExact
<1>5. LinesEnd' /\ NothingBefore'
  BY DEF LogInv, LinesEnd, NothingBefore
<1> QED
  BY <1>2, <1>3, <1>4, <1>5 DEF LogInv

\* The destructor.
LEMMA DestroyStep == ASSUME LogInv, Destroy PROVE LogInv'
<1>1. /\ up
      /\ run \in Run
      /\ file \in Seq(Piece)
      /\ buffer \in Seq(Piece)
      /\ flushed \subseteq Run \X Nat
      /\ << >> \in Seq(Piece)
      /\ up' = FALSE
      /\ buffer' = << >>
      /\ UNCHANGED <<run, written, lines>>
      /\ FlushedSurvives
      /\ FlushedStarted
  BY DEF LogInv, LoggerTypeOK, ProcessState, Destroy
<1>2. CASE /\ stream = "good"
           /\ stream' = "saved"
           /\ file' = file \o buffer
           /\ flushed' = flushed \cup {<<run, n>> : n \in 1 .. lines[run]}
  <2>1. flushed' \subseteq Run \X Nat /\ FlushedSurvives' /\ FlushedStarted'
    BY <1>1, <1>2, FlushesAll
  <2>2. file' \in Seq(Piece) /\ file \o buffer = file' \o << >>
    BY <1>1, <1>2
  <2> QED
    BY <1>1, <1>2, <2>1, <2>2, EndStep
<1>3. CASE /\ stream \in {"good", "bad"}
           /\ stream' = "closed"
           /\ \E k \in 0 .. Len(buffer) : file' = file \o SubSeq(buffer, 1, k)
           /\ UNCHANGED flushed
  <2>1. PICK k \in 0 .. Len(buffer) : file' = file \o SubSeq(buffer, 1, k)
    BY <1>3
  <2> DEFINE t == SubSeq(buffer, 1, k)
             u == SubSeq(buffer, k + 1, Len(buffer))
  <2>2. t \in Seq(Piece) /\ u \in Seq(Piece)
    BY <1>1, CutAnywhere
  <2>3. file' = file \o t /\ t \o u = buffer
    BY <1>1, <2>1, CutAnywhere
  <2> HIDE DEF t, u
  <2>4. (file \o t) \o u = file \o (t \o u)
    BY <1>1, <2>2, ConcatAssociative, SMTT(30)
  <2>5. Grown /\ file' \in Seq(Piece)
    BY <1>1, <2>2, <2>3, AppendGrows
  <2>6. FlushedSurvives' /\ FlushedStarted'
    BY <1>1, <1>3, <2>5, StillFlushed
  <2>7. file \o buffer = file' \o u
    BY <2>3, <2>4
  <2> QED
    BY <1>1, <1>3, <2>2, <2>5, <2>6, <2>7, EndStep
<1>4. CASE stream = "closed" /\ UNCHANGED <<stream, file, flushed>>
  <2>1. buffer = << >> /\ Grown
    BY <1>1, <1>4 DEF LogInv, ProcessState, Grown
  <2>2. FlushedSurvives' /\ FlushedStarted'
    BY <1>1, <1>4, <2>1, StillFlushed
  <2> QED
    BY <1>1, <1>4, <2>1, <2>2, EndStep
<1> QED
  BY <1>2, <1>3, <1>4 DEF Destroy

\* A kill leaves the file as it is.
LEMMA KillStep == ASSUME LogInv, Kill PROVE LogInv'
<1>1. /\ up
      /\ file \in Seq(Piece)
      /\ buffer \in Seq(Piece)
      /\ flushed \subseteq Run \X Nat
      /\ << >> \in Seq(Piece)
      /\ up' = FALSE
      /\ stream' = "closed"
      /\ buffer' = << >>
      /\ UNCHANGED <<run, file, written, lines, flushed>>
      /\ FlushedSurvives
      /\ FlushedStarted
  BY DEF LogInv, LoggerTypeOK, Kill
<1>2. Grown
  BY <1>1 DEF Grown
<1>3. FlushedSurvives' /\ FlushedStarted'
  BY <1>1, <1>2, StillFlushed
<1> QED
  BY <1>1, <1>2, <1>3, EndStep

-----------------------------------------------------------------------------
(* The theorems.                                                            *)

\* The invariant holds from the start and through every step.
LEMMA LogInvariance == Spec => []LogInv
<1>1. Init => LogInv
  <2> SUFFICES ASSUME Init PROVE LogInv
    OBVIOUS
  <2>1. << >> \in Seq(Piece) /\ file \o buffer = << >> /\ 0 \in 0 .. MaxRuns
    BY LoggerAssumption DEF Init
  <2>2. LoggerTypeOK
    BY <2>1 DEF Init, LoggerTypeOK
  <2> QED
    BY <2>1, <2>2 DEF Init, LogInv, ProcessState, LogBegun, LogExact, LinesEnd,
       FlushedStarted, NothingBefore, FlushedSurvives
<1>2. LogInv /\ [Next]_vars => LogInv'
  <2> SUFFICES ASSUME LogInv, [Next]_vars PROVE LogInv'
    OBVIOUS
  <2>1. CASE Next
    BY <2>1, OpenStep, LogStep, FlushStep, DestroyStep, KillStep DEF Next
  <2>2. CASE UNCHANGED vars
    BY <2>2 DEF vars, LogInv, LoggerTypeOK, ProcessState, LogBegun, BeginsLog,
       LogExact, LinesEnd, NothingBefore, FlushedStarted, FlushedSurvives, Complete
  <2> QED
    BY <2>1, <2>2
<1> QED
  BY <1>1, <1>2, PTL DEF Spec

(* The log file has no holes and no line out of order, whatever fails and     *)
(* however often the proxy is killed and started again.                       *)
THEOREM FileHasNoHoles == Spec => []FileIsPrefix
<1>1. LogInv => FileIsPrefix
  <2> SUFFICES ASSUME LogInv PROVE FileIsPrefix
    OBVIOUS
  <2>1. file \in Seq(Piece) /\ buffer \in Seq(Piece) /\ written \in [Run -> Seq(Piece)]
    BY DEF LogInv, LoggerTypeOK
  <2>2. CASE file \o buffer = << >>
    <3>1. file = << >>
      BY <2>1, <2>2, ConcatEqualIffEmpty
    <3> QED
      BY <3>1 DEF FileIsPrefix
  <2>3. CASE file \o buffer # << >>
    <3>1. PICK r \in Run : BeginsLog(file \o buffer, r)
      BY <2>3 DEF LogInv, LogBegun
    <3>2. PICK k \in 0 .. Len(written[r]) : file \o buffer = SubSeq(written[r], 1, k)
      BY <3>1 DEF BeginsLog
    <3>3. written[r] \in Seq(Piece)
      BY <2>1
    <3>4. Len(file) \in 0 .. Len(written[r]) /\ file = SubSeq(written[r], 1, Len(file))
      BY <2>1, <3>2, <3>3, PrefixOfConcat
    <3> QED
      BY <3>4, Zenon DEF FileIsPrefix, BeginsLog
  <2> QED
    BY <2>2, <2>3
<1> QED
  BY <1>1, LogInvariance, PTL

(* A line that PacketLogger::flush has handed over survives the process.      *)
THEOREM FlushIsKept == Spec => []FlushedSurvives
<1>1. LogInv => FlushedSurvives
  BY DEF LogInv
<1> QED
  BY <1>1, LogInvariance, PTL

(* While the stream is good, file and buffer hold every line of the process,  *)
(* and the file does once the process has ended without a failure.            *)
THEOREM NothingIsLost == Spec => []LossMeansFailure
<1>1. LogInv => LossMeansFailure
  <2> SUFFICES ASSUME LogInv, stream \in {"good", "saved"}
               PROVE  IsSuffix(written[run], file \o buffer)
    BY DEF LossMeansFailure
  <2>1. file \o buffer = written[run]
    BY DEF LogInv, LogExact
  <2>2. written[run] \in Seq(Piece)
    BY DEF LogInv, LoggerTypeOK, ProcessState
  <2>3. IsSuffix(written[run], written[run])
    BY <2>2, SuffixOfItself
  <2> QED
    BY <2>1, <2>3
<1> QED
  BY <1>1, LogInvariance, PTL
=============================================================================
