-------------------------- MODULE MCConsoleSession --------------------------
(* Constants of ConsoleSession for TLC.                                    *)
EXTENDS ConsoleSession

(* 'a', 'A', '[', ESC, IAC, WILL, TAB, CTRL-C, CTRL-P, CTRL-N, DEL, '\r', *)
(* '?': every case of the reader's switch, a cursor key (ESC [ A), an     *)
(* unknown cursor key (ESC [ a), a telnet option code and the stored data *)
(* bytes.                                                                  *)
MC_Bytes == {97, 65, 91, 27, 255, 251, 9, 3, 16, 14, 127, 13, 63}
(* 'a', ' ', TAB, '\r', 'A': a leaf command "a" given an argument "a".    *)
MC_BytesTab == {97, 32, 9, 13, 65}
(* User "a" with password "A"; `set console user a a` changes it.          *)
MC_InitUsers == <<97>> :> <<65>>
MC_UserCmds == {<< <<97>>, <<97>> >>}
(* A command name equals the typed word or adds one character.            *)
MC_Completions == {<<>>, <<97>>}
====
