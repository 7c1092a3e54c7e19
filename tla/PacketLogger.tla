------------------------------ MODULE PacketLogger ------------------------------
(***************************************************************************)
(* PacketLogger (src/src/packet_logger.cpp, src/src/packet_logger.hpp) and *)
(* what becomes of its lines when the process that writes them ends, in    *)
(* order or not, and is started again.                                     *)
(*                                                                         *)
(* PacketStream says which line a packet leaves; here a line is a number   *)
(* and is written in pieces: the command, the SQL text if it has one, the  *)
(* end of the line.  std::ofstream and the operating system are external.  *)
(* A piece is in the buffer of the stream, then in the file.  The stream   *)
(* may write any part of its buffer whenever something is inserted.  Once  *)
(* an insertion or a flush has failed the stream stays bad and drops what  *)
(* it is given; no code asks for its state.                                *)
(***************************************************************************)
EXTENDS Naturals, SequencesExt

CONSTANTS
  MaxRuns,   \* bound on the processes started one after the other
  MaxLines   \* bound on the lines of each of them

ASSUME LoggerAssumption ==
  /\ MaxRuns \in Nat
  /\ MaxLines \in Nat

VARIABLES
  run,      \* number of the process
  up,       \* it is running
  stream,   \* state of m_log_file; "saved" once it was closed without an error
  buffer,   \* pieces in the buffer of m_log_file
  file,     \* pieces in the file
  written,  \* pieces each process has inserted
  lines,    \* lines each process has inserted
  flushed   \* lines that were flushed without an error

vars == <<run, up, stream, buffer, file, written, lines, flushed>>

Run  == 1 .. MaxRuns
Part == {"command", "sql", "end"}

-----------------------------------------------------------------------------
(* std::ofstream and the operating system.                                  *)

\* Of the pieces b, some have been handed to the kernel.
Overflow(b) ==
  \E k \in 0 .. Len(b) :
    /\ file' = file \o SubSeq(b, 1, k)
    /\ buffer' = SubSeq(b, k + 1, Len(b))

\* Everything in the buffer is handed to the kernel, if the stream is good; the
\* lines that reach the file this way are flushed.
Sync ==
  \/ /\ stream = "good"
     /\ file' = file \o buffer
     /\ buffer' = << >>
     /\ flushed' = flushed \cup {<<run, n>> : n \in 1 .. lines[run]}
     /\ UNCHANGED stream
  \/ /\ stream \in {"good", "bad"}
     /\ Overflow(buffer)
     /\ stream' = "bad"
     /\ UNCHANGED flushed
  \/ /\ stream = "closed"
     /\ UNCHANGED <<file, buffer, stream, flushed>>

\* The process ends without running destructors.
Kill ==
  /\ up
  /\ up' = FALSE
  /\ stream' = "closed"
  /\ buffer' = << >>
  /\ UNCHANGED <<run, file, written, lines, flushed>>

-----------------------------------------------------------------------------
(* PacketLogger.                                                            *)

\* The constructor opens the file for output, which truncates it; nothing tells
\* that it could not be opened.
Open ==
  /\ ~up
  /\ run < MaxRuns
  /\ up' = TRUE
  /\ run' = run + 1
  /\ \/ stream' = "good" /\ file' = << >>
     \/ stream' = "closed" /\ UNCHANGED file
  /\ UNCHANGED <<buffer, written, lines, flushed>>

\* Mutant: the error state of the stream is cleared before a line is written.
Accepts_Cleared == stream # "closed"

\* operator<< inserts nothing into a stream that is not good.
Accepts == stream = "good"

\* The pieces of the next line; sql tells whether it has an SQL text.
Pieces(sql) ==
  LET piece(part) == <<run, lines[run] + 1, part>>
  IN  IF sql THEN <<piece("command"), piece("sql"), piece("end")>>
      ELSE <<piece("command"), piece("end")>>

\* A line is inserted; the insertion of one of its pieces may fail, and then the
\* rest of the line is dropped.
packet_logger(sql) ==
  /\ up
  /\ lines[run] < MaxLines
  /\ lines' = [lines EXCEPT ![run] = @ + 1]
  /\ written' = [written EXCEPT ![run] = @ \o Pieces(sql)]
  /\ \/ Accepts /\ Overflow(buffer \o Pieces(sql)) /\ UNCHANGED stream
     \/ /\ Accepts
        /\ \E k \in 1 .. Len(Pieces(sql)) :
             Overflow(buffer \o SubSeq(Pieces(sql), 1, k - 1))
        /\ stream' = "bad"
     \/ ~Accepts /\ UNCHANGED <<buffer, file, stream>>
  /\ UNCHANGED <<run, up, flushed>>

\* Mutant: the buffer stays where it is.
flush_Forgotten ==
  /\ up
  /\ flushed' = flushed \cup {<<run, n>> : n \in 1 .. lines[run]}
  /\ UNCHANGED <<run, up, stream, buffer, file, written, lines>>

flush ==
  /\ up
  /\ Sync
  /\ UNCHANGED <<run, up, written, lines>>

\* Mutant: main leaves by std::exit, which does not destroy the Server it declares;
\* nothing has failed.
Destroy_Exit ==
  /\ up
  /\ up' = FALSE
  /\ stream' = IF stream = "good" THEN "saved" ELSE "closed"
  /\ buffer' = << >>
  /\ UNCHANGED <<run, file, written, lines, flushed>>

\* The destructor closes the stream, after a last attempt to empty its buffer.
Destroy ==
  /\ up
  /\ up' = FALSE
  /\ buffer' = << >>
  /\ \/ /\ stream = "good"
        /\ stream' = "saved"
        /\ file' = file \o buffer
        /\ flushed' = flushed \cup {<<run, n>> : n \in 1 .. lines[run]}
     \/ /\ stream \in {"good", "bad"}
        /\ stream' = "closed"
        /\ \E k \in 0 .. Len(buffer) : file' = file \o SubSeq(buffer, 1, k)
        /\ UNCHANGED flushed
     \/ stream = "closed" /\ UNCHANGED <<stream, file, flushed>>
  /\ UNCHANGED <<run, written, lines>>

-----------------------------------------------------------------------------

Init ==
  /\ run = 0
  /\ up = FALSE
  /\ stream = "closed"
  /\ buffer = << >>
  /\ file = << >>
  /\ written = [r \in Run |-> << >>]
  /\ lines = [r \in Run |-> 0]
  /\ flushed = {}

Next ==
  \/ Open
  \/ \E sql \in BOOLEAN : packet_logger(sql)
  \/ flush
  \/ Destroy
  \/ Kill

Spec == Init /\ [][Next]_vars

-----------------------------------------------------------------------------
(* Properties.                                                              *)

\* The pieces p are the first ones of those the process r has inserted.
BeginsLog(p, r) == \E k \in 0 .. Len(written[r]) : p = SubSeq(written[r], 1, k)

(* FileIsPrefix: the file holds the beginning of what one process logged:     *)
(* whatever fails, and however the process ends, no line is missing between   *)
(* two others, none comes out of order, and only the last can be torn.        *)
FileIsPrefix == file = << >> \/ \E r \in Run : BeginsLog(file, r)

Complete(l) == \E i \in DOMAIN file : file[i] = <<l[1], l[2], "end">>

(* FlushedSurvives: a line that has been flushed without an error is in the   *)
(* file from then on, also when the process is killed, until the next process *)
(* opens the file.                                                            *)
FlushedSurvives == \A l \in flushed : l[1] = run => Complete(l)

(* LossMeansFailure: a process that ends in order, without an operation of    *)
(* its stream having failed, has all its lines in the file, flushed or not;   *)
(* until then they are there or on their way, each once and in order.  What   *)
(* earlier processes have logged may precede them or not.                     *)
LossMeansFailure ==
  stream \in {"good", "saved"} => IsSuffix(written[run], file \o buffer)
=============================================================================
