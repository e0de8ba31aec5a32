--------------------------- MODULE ConsoleSession ---------------------------
(***************************************************************************)
(* The telnet console of mpd (console.c): the listening socket            *)
(* (ConsoleOpen, ConsoleClose), one TCP session (ConsoleConnect,           *)
(* ConsoleSessionClose) and its reader ConsoleSessionReadEvent, which      *)
(* handles one byte per loop iteration: cursor escapes, telnet commands,   *)
(* line editing, history, TAB completion and the USERNAME -> PASSWORD ->   *)
(* AUTHENTIC login.  The user table is changed by `set console user`       *)
(* (ConsoleSetCommand), run from the configuration or another session.     *)
(*                                                                         *)
(* Bytes are their C values.  Output (echo, prompts, bells) is left out.  *)
(* The command table and ParseLine/FindCommand of the command parser are  *)
(* not in this tree: a TAB completion step chooses, per word, whether     *)
(* FindCommand matches, the characters the command name adds to the typed *)
(* word, and whether it is a submenu.  DoCommand chooses whether the      *)
(* command ends the session.                                               *)
(***************************************************************************)
EXTENDS Naturals, Sequences, SequencesExt, TLC

CONSTANTS
  Bytes,        \* byte values the peer may send
  MaxLine,      \* MAX_CONSOLE_LINE: size of cs->cmd, cs->history and compl
  InitUsers,    \* users configured at start-up: name -> password
  UserCmds,     \* `set console user <name> <password>` arguments available
  Completions,  \* characters a command name may add to the typed prefix
  MaxConns,     \* bound: connections accepted
  MaxCmds       \* bound: console set commands run

ASSUME MaxLine \in Nat /\ MaxLine >= 2

Ctrl(ch) == ch - 64                         \* CTRL(c) of console.c
NUL == 0   ESC == 27   IAC == 255   DO == 253   TAB == 9   CR == 13
LF == 10   QM == 63   DEL == 127   Space == 32   LBR == 91
CtrlC == Ctrl(67)  CtrlP == Ctrl(80)  CtrlN == Ctrl(78)
CtrlF == Ctrl(70)  CtrlB == Ctrl(66)  CtrlH == Ctrl(72)

(* The bytes with a case of their own in the reader's switch.              *)
SpecialKeys == {NUL, ESC, IAC, DO, TAB, CtrlC, CtrlP, CtrlN, CtrlF, CtrlB,
                CtrlH, DEL, CR, LF, QM}
EnterKeys == {CR, LF, QM}
(* Bytes the default case stores in the line.                             *)
DataBytes == Bytes \ SpecialKeys

States == {"USERNAME", "PASSWORD", "AUTHENTIC"}

VARIABLES
  listening,   \* c->fd: "closed" (0), "bad" (-1), "fd" (socket, no
               \* event), "accepting"
  open,        \* the session exists (registered on the read event)
  state,       \* cs->state
  escaped,     \* cs->escaped: 0, TRUE (1) or '['
  telnet,      \* cs->telnet
  cmd,         \* cs->cmd up to its NUL: the line being typed
  history,     \* cs->history
  named,       \* cs->user.username != NULL
  username,    \* cs->user.username
  users,       \* c->users: name -> password
  conns,       \* connections accepted so far
  cmds,        \* console set commands run so far
  nameAllocs   \* history: username strings allocated and not yet freed

vars == <<listening, open, state, escaped, telnet, cmd, history, named,
          username, users, conns, cmds, nameAllocs>>
sessVars == <<state, escaped, telnet, cmd, history, named, username>>

TypeOK ==
  /\ listening \in {"closed", "bad", "fd", "accepting"} /\ open \in BOOLEAN
  /\ state \in States
  /\ escaped \in {0, 1, LBR}
  /\ telnet \in BOOLEAN
  /\ cmd \in Seq(DataBytes \cup {Space})
  /\ history \in Seq(DataBytes \cup {Space})
  /\ named \in BOOLEAN
  /\ username \in Seq(DataBytes \cup {Space})
  /\ conns \in 0..MaxConns /\ cmds \in 0..MaxCmds
  /\ nameAllocs \in Int

-----------------------------------------------------------------------------
(* The reader's byte after the escape prefix: ESC [ A..D are the cursor    *)
(* keys, mapped to CTRL-P, -N, -F, -B; any other byte after ESC [ is 0.    *)
CursorKey(b) ==
  CASE b = 65 -> CtrlP [] b = 66 -> CtrlN [] b = 67 -> CtrlF [] b = 68 -> CtrlB
    [] OTHER -> NUL

Key(b) == IF escaped = LBR THEN CursorKey(b) ELSE b

(* A byte reaches the switch: the session is open and no bare ESC waits.   *)
(* Every case leaves cs->escaped FALSE, except ESC itself.                 *)
Reading(b, keys) ==
  /\ open
  /\ escaped \in {0, LBR}
  /\ Key(b) \in keys

(* The first byte after ESC: '[' starts a cursor key, anything else drops  *)
(* the escape (`continue`).                                                *)
EscapePrefix(b) ==
  /\ open /\ escaped = 1
  /\ escaped' = IF b = LBR THEN LBR ELSE 0
  /\ UNCHANGED <<listening, open, state, telnet, cmd, history, named, username,
                 users, conns, cmds, nameAllocs>>

(* NUL, DO, CTRL-F, CTRL-B and an unknown cursor key: nothing.             *)
IgnoreKey(b) ==
  /\ Reading(b, {NUL, DO, CtrlF, CtrlB})
  /\ escaped' = 0
  /\ UNCHANGED <<listening, open, state, telnet, cmd, history, named, username,
                 users, conns, cmds, nameAllocs>>

EscapeKey(b) ==
  /\ Reading(b, {ESC})
  /\ escaped' = 1
  /\ UNCHANGED <<listening, open, state, telnet, cmd, history, named, username,
                 users, conns, cmds, nameAllocs>>

TelnetKey(b) ==
  /\ Reading(b, {IAC})
  /\ escaped' = 0 /\ telnet' = TRUE
  /\ UNCHANGED <<listening, open, state, cmd, history, named, username,
                 users, conns, cmds, nameAllocs>>

(* The line as ParseLine splits it: the words between spaces.              *)
ParseLine(s) ==
  LET step(acc, b) ==
        IF b = Space
        THEN IF acc.cur = <<>> THEN acc ELSE [w |-> Append(acc.w, acc.cur), cur |-> <<>>]
        ELSE [acc EXCEPT !.cur = Append(@, b)]
      r == FoldLeft(step, [w |-> <<>>, cur |-> <<>>], s)
  IN IF r.cur = <<>> THEN r.w ELSE Append(r.w, r.cur)

(* snprintf(&compl[strlen(compl)], sizeof(compl) - strlen(compl), ...):    *)
(* at most MaxLine - 1 characters are kept.                                *)
Bounded(s) == IF Len(s) < MaxLine THEN s ELSE SubSeq(s, 1, MaxLine - 1)

(* The strcat loop: the remaining words joined by single spaces, with no   *)
(* bound on the length of compl.                                            *)
JoinArgs(ws) ==
  FoldLeft(LAMBDA acc, w : IF acc = <<>> THEN w ELSE acc \o <<Space>> \o w,
           <<>>, ws)

(* What FindCommand answers for one word: no match, or the command whose   *)
(* name is the word followed by ext, a submenu or not.                     *)
Lookups == [found : BOOLEAN, ext : Completions, sub : BOOLEAN]

(* The completion loop over the words av from word i with compl so far.    *)
(* A failed FindCommand rings the bell and leaves the line (notfound).     *)
RECURSIVE Complete(_, _, _, _)
Complete(av, ch, i, compl) ==
  IF i > Len(av) THEN [found |-> TRUE, line |-> compl]
  ELSE IF ~ch[i].found THEN [found |-> FALSE, line |-> compl]
  ELSE LET named2 == Bounded(compl \o av[i] \o ch[i].ext \o <<Space>>)
       IN IF ch[i].sub
          THEN Complete(av, ch, i + 1, named2)
          ELSE [found |-> TRUE,
                line |-> named2 \o JoinArgs(SubSeq(av, i + 1, Len(av)))]

(* case 9 (TAB): only after login; strcpy(cs->cmd, compl).                 *)
TabKey(b) ==
  /\ Reading(b, {TAB})
  /\ escaped' = 0
  /\ IF state # "AUTHENTIC"
     THEN UNCHANGED cmd
     ELSE LET av == ParseLine(cmd)
          IN \E ch \in [1..Len(av) -> Lookups] :
               LET r == Complete(av, ch, 1, <<>>)
               IN cmd' = IF r.found THEN r.line ELSE cmd
  /\ UNCHANGED <<listening, open, state, telnet, history, named, username,
                 users, conns, cmds, nameAllocs>>

(* CTRL-C: ignored as a telnet option code; otherwise the line is dropped. *)
CtrlCKey(b) ==
  /\ Reading(b, {CtrlC})
  /\ escaped' = 0
  /\ cmd' = IF telnet THEN cmd ELSE <<>>
  /\ UNCHANGED <<listening, open, state, telnet, history, named, username,
                 users, conns, cmds, nameAllocs>>

(* CTRL-P (cursor up): the history line replaces the line being typed,   *)
(* unless the history is empty or the same.                               *)
HistoryUp(b) ==
  /\ Reading(b, {CtrlP})
  /\ escaped' = 0
  /\ cmd' = IF history # <<>> /\ cmd # history THEN history ELSE cmd
  /\ UNCHANGED <<listening, open, state, telnet, history, named, username,
                 users, conns, cmds, nameAllocs>>

(* CTRL-N (cursor down): a non-empty line different from the history is   *)
(* saved to it; the line is cleared.                                       *)
HistoryDown(b) ==
  /\ Reading(b, {CtrlN})
  /\ escaped' = 0
  /\ history' = IF cmd # <<>> /\ cmd # history THEN cmd ELSE history
  /\ cmd' = <<>>
  /\ UNCHANGED <<listening, open, state, telnet, named, username,
                 users, conns, cmds, nameAllocs>>

(* CTRL-H and DEL: drop the last character.                                *)
Backspace(b) ==
  /\ Reading(b, {CtrlH, DEL})
  /\ escaped' = 0
  /\ cmd' = IF cmd # <<>> THEN Front(cmd) ELSE cmd
  /\ UNCHANGED <<listening, open, state, telnet, history, named, username,
                 users, conns, cmds, nameAllocs>>

ReadData_storeCtrlC(b) ==
  /\ Reading(b, DataBytes \cup {CtrlC})
  /\ escaped' = 0
  /\ IF telnet
     THEN /\ telnet' = (Key(b) >= 251)
          /\ UNCHANGED cmd
     ELSE /\ cmd' = IF Len(cmd) + 1 >= MaxLine THEN cmd ELSE Append(cmd, Key(b))
          /\ UNCHANGED telnet
  /\ UNCHANGED <<listening, open, state, history, named, username,
                 users, conns, cmds, nameAllocs>>

(* default: a byte inside a telnet command ends it when below 251 (WILL)   *)
(* and is dropped; otherwise it is stored unless the line is full.        *)
ReadData(b) ==
  /\ Reading(b, DataBytes)
  /\ escaped' = 0
  /\ IF telnet
     THEN /\ telnet' = (Key(b) >= 251)
          /\ UNCHANGED cmd
     ELSE /\ cmd' = IF Len(cmd) + 1 >= MaxLine THEN cmd ELSE Append(cmd, Key(b))
          /\ UNCHANGED telnet
  /\ UNCHANGED <<listening, open, state, history, named, username,
                 users, conns, cmds, nameAllocs>>

(* ConsoleSessionClose (from `abort`): the session is unregistered and     *)
(* freed with its username; the next session starts zeroed.               *)
SessionClosed ==
  /\ open' = FALSE
  /\ nameAllocs' = IF named THEN nameAllocs - 1 ELSE nameAllocs
  /\ state' = "USERNAME" /\ escaped' = 0 /\ telnet' = FALSE
  /\ cmd' = <<>> /\ history' = <<>> /\ named' = FALSE /\ username' = <<>>

(* '\r', '\n' or '?' at the Username prompt: strdup the line as username.  *)
LoginName(b) ==
  /\ Reading(b, EnterKeys)
  /\ state = "USERNAME"
  /\ escaped' = 0 /\ telnet' = FALSE
  /\ named' = TRUE /\ username' = cmd /\ nameAllocs' = nameAllocs + 1
  /\ cmd' = <<>> /\ state' = "PASSWORD"
  /\ UNCHANGED <<listening, open, history, users, conns, cmds>>

(* strcmp(u->password, cs->cmd) == 0                                       *)
PasswordMatches(pw, line) == pw = line

(* The `failed` path: free the username, back to the Username prompt.      *)
LoginFailed_keepName ==
  /\ nameAllocs' = nameAllocs - 1
  /\ named' = named /\ username' = username
  /\ state' = "USERNAME"

LoginFailed ==
  /\ nameAllocs' = nameAllocs - 1
  /\ named' = FALSE /\ username' = <<>>
  /\ state' = "USERNAME"

(* Enter at the Password prompt: ghash_get by username, compare passwords. *)
LoginPassword(b) ==
  /\ Reading(b, EnterKeys)
  /\ state = "PASSWORD"
  /\ escaped' = 0 /\ telnet' = FALSE
  /\ IF username \in DOMAIN users /\ PasswordMatches(users[username], cmd)
     THEN /\ state' = "AUTHENTIC"
          /\ UNCHANGED <<named, username, nameAllocs>>
     ELSE LoginFailed
  /\ cmd' = <<>>
  /\ UNCHANGED <<listening, open, history, users, conns, cmds>>

(* '\r' or '\n' after login: DoCommand; the line becomes the history and   *)
(* is cleared; an exit flag ends the session.                              *)
RunCommand(b) ==
  /\ Reading(b, {CR, LF})
  /\ state = "AUTHENTIC"
  /\ \E exitflag \in BOOLEAN :
       IF exitflag
       THEN SessionClosed
       ELSE /\ escaped' = 0 /\ telnet' = FALSE
            /\ history' = cmd /\ cmd' = <<>>
            /\ UNCHANGED <<open, state, named, username, nameAllocs>>
  /\ UNCHANGED <<listening, users, conns, cmds>>

(* '?' after login: HelpCommand; the line is kept.                         *)
HelpLine(b) ==
  /\ Reading(b, {QM})
  /\ state = "AUTHENTIC"
  /\ escaped' = 0 /\ telnet' = FALSE
  /\ UNCHANGED <<listening, open, state, cmd, history, named, username,
                 users, conns, cmds, nameAllocs>>

(* read() returns 0 (peer closed) or an error other than EAGAIN.           *)
ReadEnd ==
  /\ open
  /\ SessionClosed
  /\ UNCHANGED <<listening, users, conns, cmds>>

-----------------------------------------------------------------------------
(* ConsoleConnect: TcpAcceptConnection and EventRegister may fail; then    *)
(* nothing is kept.  A new session starts at the Username prompt.          *)
ConsoleConnect ==
  /\ listening = "accepting" /\ ~open
  /\ conns < MaxConns
  /\ conns' = conns + 1
  /\ open' \in BOOLEAN
  /\ UNCHANGED <<listening, state, escaped, telnet, cmd, history, named,
                 username, users, cmds, nameAllocs>>

(* `set console open`: refused while c->fd is non-zero; a failed          *)
(* TcpGetListenPort stores -1 in c->fd, which refuses every later open     *)
(* until `set console close`; a failed EventRegister returns but keeps    *)
(* c->fd.                                                                  *)
ConsoleOpen ==
  /\ cmds < MaxCmds /\ cmds' = cmds + 1
  /\ listening = "closed"
  /\ listening' \in {"bad", "fd", "accepting"}
  /\ UNCHANGED <<open, state, escaped, telnet, cmd, history, named, username,
                 users, conns, nameAllocs>>

(* `set console close`: with c->fd non-zero (-1 included), unregister and  *)
(* close it, c->fd = 0; the sessions stay.                                 *)
ConsoleClose ==
  /\ cmds < MaxCmds /\ cmds' = cmds + 1
  /\ listening # "closed"
  /\ listening' = "closed"
  /\ UNCHANGED <<open, state, escaped, telnet, cmd, history, named, username,
                 users, conns, nameAllocs>>

(* `set console user <name> <password>`: ghash_put replaces an entry with  *)
(* the same name.                                                          *)
SetUser(n, pw) ==
  /\ cmds < MaxCmds /\ cmds' = cmds + 1
  /\ users' = (n :> pw) @@ users
  /\ UNCHANGED <<listening, open, state, escaped, telnet, cmd, history, named,
                 username, conns, nameAllocs>>

-----------------------------------------------------------------------------
Init ==
  /\ listening = "closed" /\ open = FALSE
  /\ state = "USERNAME" /\ escaped = 0 /\ telnet = FALSE
  /\ cmd = <<>> /\ history = <<>> /\ named = FALSE /\ username = <<>>
  /\ users = InitUsers
  /\ conns = 0 /\ cmds = 0 /\ nameAllocs = 0

Next ==
  \/ \E b \in Bytes :
       \/ EscapePrefix(b) \/ IgnoreKey(b) \/ EscapeKey(b) \/ TelnetKey(b)
       \/ TabKey(b) \/ CtrlCKey(b) \/ HistoryUp(b) \/ HistoryDown(b)
       \/ Backspace(b) \/ ReadData(b)
       \/ LoginName(b) \/ LoginPassword(b) \/ RunCommand(b) \/ HelpLine(b)
  \/ ReadEnd
  \/ ConsoleConnect
  \/ ConsoleOpen
  \/ ConsoleClose
  \/ \E uc \in UserCmds : SetUser(uc[1], uc[2])

(* The peer and the administrator are not obliged to do anything.         *)
Spec == Init /\ [][Next]_vars

-----------------------------------------------------------------------------
(* Properties.                                                             *)

(* Every username string strdup'ed by the reader is freed exactly once:   *)
(* by a failed login or by ConsoleSessionClose, never both, and none is   *)
(* lost when a new name is typed.                                          *)
UsernameFreedOnce ==
  nameAllocs = IF named THEN 1 ELSE 0

(* cs->cmd keeps its terminating NUL: the line never fills MAX_CONSOLE_LINE *)
(* (the default case stops one short; TAB completion copies compl in).    *)
LineKeepsTerminator ==
  Len(cmd) < MaxLine
====
