------------------------------ MODULE JsonLines ------------------------------
(***************************************************************************)
(* A JSON-lines file as the repository writes it: append-mode handle, then *)
(* writeln!(file, "{json}").  The handle is unbuffered, so writeln! issues *)
(* two writes, the line's bytes and the newline, and a process may stop    *)
(* between them or inside the first.  Appending never looks at what is     *)
(* already there: bytes written after an unterminated line join that line. *)
(*                                                                         *)
(* A file is its sequence of lines and whether the last one is terminated. *)
(* A line is the entry it decodes to or one of two marks: Malformed (text  *)
(* that is not one JSON object) or Undecodable (the line was cut inside a  *)
(* multi-byte character, so it is not UTF-8).                              *)
(***************************************************************************)
EXTENDS Naturals, Sequences

CONSTANTS Malformed, Undecodable

(* The marks a line carries when it decodes to no entry.                   *)
Broken == {Malformed, Undecodable}

EmptyFile == [lines |-> <<>>, eol |-> TRUE]

JsonFile(Entry) == [lines : Seq(Entry \cup Broken), eol : BOOLEAN]

(* What an unterminated last line becomes when more bytes follow it.       *)
Joined(line) == IF line = Undecodable THEN Undecodable ELSE Malformed

(* The line's bytes reach the file: a line of their own, or the tail of an *)
(* unterminated one.                                                       *)
WriteLine(file, entry) ==
    IF file.eol
    THEN [lines |-> Append(file.lines, entry), eol |-> FALSE]
    ELSE [lines |-> [file.lines EXCEPT ![Len(file.lines)] = Joined(@)],
          eol   |-> FALSE]

(* The newline reaches the file.                                           *)
WriteNewline(file) == [lines |-> file.lines, eol |-> TRUE]

(* Only a prefix of the line's bytes reaches the file; mark says whether   *)
(* the prefix ends on a character boundary.                                *)
WriteTorn(file, mark) ==
    IF file.eol
    THEN [lines |-> Append(file.lines, mark), eol |-> FALSE]
    ELSE [lines |-> [file.lines EXCEPT ![Len(file.lines)] =
                       IF mark = Undecodable THEN Undecodable ELSE Joined(@)],
          eol   |-> FALSE]

(* The entries a reader that skips broken lines finds.                     *)
EntriesOf(lines) == {lines[i] : i \in DOMAIN lines} \ Broken
=============================================================================
