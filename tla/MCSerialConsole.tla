-------------------------- MODULE MCSerialConsole ---------------------------
(***************************************************************************)
(* Six characters of N, two digits and line ends: lines up to twice over   *)
(* the text limit, several short lines, two N commands with different ids, *)
(* N lines without an id or longer than the command.  "22" stands for info *)
(* and help; the digits are also the text of other lines.                  *)
(***************************************************************************)
EXTENDS SerialConsole

MCReports == {<<"2", "2">>}
=============================================================================
