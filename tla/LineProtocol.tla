----------------------------- MODULE LineProtocol -----------------------------
(***************************************************************************)
(* The line protocol of server_net.c and its copy in retail_client.c:      *)
(* send_linef puts one line on the socket, recv_line takes bytes off it    *)
(* until a line is complete.  A byte is a string of which only NL and CR   *)
(* mean anything here; a line is the sequence of its other bytes.          *)
(***************************************************************************)
EXTENDS Integers, Sequences, SequencesExt, FiniteSetsExt

CONSTANT MaxLine   \* size of the buffers on both sides: MAX_LINE, SERVER_IO_MAX_LINE

ASSUME MaxLineAssumption == MaxLine \in Nat /\ MaxLine >= 2

NL == "\n"
CR == "\r"

Printed(b) == IF b \in {NL, CR} THEN << >> ELSE <<b>>
Text(bytes) == FlattenSeq([i \in DOMAIN bytes |-> Printed(bytes[i])])

-----------------------------------------------------------------------------
(* Sending *)

\* vsnprintf cuts the text to what the buffer holds besides its final zero.
Formatted(text) == SubSeq(text, 1, Min({Len(text), MaxLine - 1}))

\* The bytes send_linef sends: none when there is no room for the newline.
LineOf(text) ==
  LET buffer == Formatted(text)
  IN  IF buffer # << >> /\ Last(buffer) = NL THEN buffer
      ELSE IF Len(buffer) + 1 >= MaxLine THEN << >>
      ELSE Append(buffer, NL)

-----------------------------------------------------------------------------
(* Receiving: a reader is the buffer being filled and whether it is a line. *)

Nothing == [part |-> << >>, complete |-> FALSE]

\* Mutant: only the newline ends a line.
TakeUnbounded(reader, b) ==
  CASE b = CR -> reader
    [] b = NL -> [reader EXCEPT !.complete = TRUE]
    [] OTHER  -> [reader EXCEPT !.part = Append(@, b)]

\* Mutant: whether the byte still fits is only looked at after it was taken.
TakeAndDrop(reader, b) ==
  CASE b = CR -> reader
    [] b = NL \/ Len(reader.part) = MaxLine - 1 -> [reader EXCEPT !.complete = TRUE]
    [] OTHER  -> [reader EXCEPT !.part = Append(@, b)]

\* One turn of the loop of recv_line: a carriage return is skipped, a newline or
\* a full buffer ends the line.
Take(reader, b) ==
  CASE b = CR -> reader
    [] b = NL -> [reader EXCEPT !.complete = TRUE]
    [] OTHER  -> [part |-> Append(reader.part, b),
                  complete |-> Len(reader.part) + 1 = MaxLine - 1]

-----------------------------------------------------------------------------
(* Reference: the lines of a stream, by the positions of its newlines. *)

Newlines(bytes) == {n \in DOMAIN bytes : bytes[n] = NL}

\* The lines that are ended by a newline.
Lines(bytes) ==
  {Text(SubSeq(bytes, ends[1] + 1, ends[2])) :
     ends \in {e \in ({0} \cup Newlines(bytes)) \X Newlines(bytes) :
                 e[1] < e[2] /\ \A n \in Newlines(bytes) : ~(e[1] < n /\ n < e[2])}}

\* What follows the last newline.
Unended(bytes) == Text(SubSeq(bytes, Max({0} \cup Newlines(bytes)) + 1, Len(bytes)))
===============================================================================
