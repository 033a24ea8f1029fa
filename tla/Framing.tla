------------------------------ MODULE Framing ------------------------------
(***************************************************************************)
(* Socket::readline() and Socket::writeline(): how bytes make a line and a *)
(* line bytes, and the body of a message that is copied line by line.      *)
(***************************************************************************)
EXTENDS Integers, SequencesExt

Char == {"CR", "LF", ".", "x"}

(* A slip: the dot that was put before a dot is taken away.                *)
ReadlineUnstuffed(l, c) ==
  IF c = "CR" \/ (c = "." /\ l = <<".">>) THEN l ELSE Append(l, c)

(* What readline() makes of the line so far when a byte comes in that is no*)
(* LF: a CR is dropped, wherever it is.                                    *)
Readline(l, c) == IF c = "CR" THEN l ELSE Append(l, c)

Writeline(l) ==
  FlattenSeq([i \in DOMAIN l |-> IF l[i] = "LF" THEN <<"CR", "LF">> ELSE <<l[i]>>])
    \o <<"CR", "LF">>

(* The header that is put before the body has more than one line.          *)
Received == <<"x", "LF", "x">>

(* A slip: a dot at the beginning of a line will do.                       *)
EndsBodyEarly(l) == l # <<>> /\ l[1] = "."

EndsBody(l) == l = <<".">>
=============================================================================
