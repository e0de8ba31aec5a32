# TLA+ models of mpd's link authentication, TCP adapter and console

These modules model the link-level authentication of this mpd tree (`src/src/auth.c`,
`src/src/pap.c`), the accounting around it, the TCP link adapter (`src/src/tcp.c`) and
the telnet console (`src/src/console.c`). Each module translates the C source. Code that is not in the tree is
taken from `spec.md` and marked `spec_modelled` in `PROJECT.json`: LCP, and the CHAP
verifier of `chap.c`. `PROJECT.json` maps every definition to the lines it stands for.

## 1. The system (inventory)

| Part | Source | State | Operations | Hard behaviour |
|---|---|---|---|---|
| Auth controller | auth.c `AuthStart`, `AuthInput`, `AuthFinish`, `AuthStop`, `AuthTimeout`, `AuthCleanup` | `self_to_peer`, `peer_to_self`, global `timer`, `thread`, `params` | start of the auth phase, frame input, per-direction finish, stop, timer expiry | frames in the network phase, frames while a worker runs, success/failure aggregation |
| PAP | pap.c | `next_id`, `retry`, `timer` | `PapStart`, `PapInput` (REQUEST / ACK / NAK), `PapTimeout`, `PapStop` | retransmission, exhausted retries, late or duplicated frames |
| CHAP / EAP | not in the tree (spec 4.2) | challenge, id | response → worker, finish continuation | verdict applied after the worker returns |
| Worker runner | auth.c `AuthAsyncStart`, `AuthAsync`, `AuthAsyncFinish` with libpdel `paction` | `a->thread`, worker bodies running under `gGiantMutex` | start, body, finisher (`was_canceled`) | cancel while the body runs, finisher after link-down or a new episode |
| Backends | auth.c `AuthAsync` chain, `AuthInternal`, `AuthSystem`, `AuthOpie`, `AuthExternal`, `AuthPreChecks` | `auth->status`, `why_fail`, `params` | the chain External → RADIUS → System → OPIE → Internal | precedence and fall-through, popen failure, max-logins count |
| Accounting | auth.c `AuthAccountStart`, `AuthAccountTimeout`, `AuthAccount`, `AuthAccountFinish` | `acct_thread`, `acct_timer` | START / UPDATE / STOP | cancel only on START and STOP, copy-back of stale params |
| TCP adapter | tcp.c | `ph->state`, `lastClose`, `incoming` | open, connect event, accept event, close | reopen pause, accept scanning links |
| Repeater | rep.c | `p_up` bitmask, both ends | incoming, up, down, shutdown | one end down while the other comes up |
| Console | console.c | session state USERNAME / PASSWORD / AUTHENTIC, line buffer | read, login, commands | line buffer at its bound |
| Netflow node | ngfunc.c | `gNetflowNode`, `gNetflowNodeShutdown`, `gNetflowNodeID`, name | init (eleven kernel messages), `set netflow node`, shutdown at exit; `NgFuncCreateIface` on the shared `gLinksCsock` | a step failing half-way through the build; the temporary hook left behind |
| Other netgraph helpers, L2TP header | ngfunc.c, l2tp.h | kernel node plumbing, declarations | – | not modelled: single messages and declarations |

How the parts interact: LCP enters the authenticate phase and calls `AuthStart`. That
arms the global timer and starts PAP and/or CHAP per direction. Peer frames arrive
through `AuthInput`:
- PAP requests are checked synchronously in `PapInput`.
- CHAP responses go to the worker runner, whose finisher calls the CHAP continuation.
- Each direction ends in `AuthFinish`, which reports to LCP (`LcpAuthResult`) on the
  first failure or when both directions are done.

`AuthStop` (from `AuthFinish`, the timer, or LCP's link-down) stops the timers and
cancels the worker.

## 2. Modules

| Module | Models | Status |
|---|---|---|
| `AuthLink` (+ `MCAuthLink`) | the controller, PAP, the worker runner and the CHAP response side, with LCP as the environment | done |
| `AuthAccount` (+ `MCAuthAccount`) | accounting with its worker and update timer, with link up and down as the environment | done |
| `AuthBackends` (+ `MCAuthBackends`) | the backend chain of one worker, one step per backend, checked against a recursive reference of spec 4.5 | done |
| `TcpPhys` (+ `MCTcpPhys`) | tcp.c: the set commands, listener set-up, open, connect, accept scan, close and shutdown, for several links | done |
| `ConsoleSession` (+ `MCConsoleSession`) | console.c: the listening socket, one session, and the byte-by-byte reader with login | done |
| `AuthEpisode` | the abstract episode of spec 4.1 and 5: pending, then reported once, with outcome = the conjunction of the directions; `AuthLink` refines it | done |
| `Netflow` (+ `MCNetflow`) | ngfunc.c: the global NetFlow node's init, `set netflow node` and removal at exit, and `NgFuncCreateIface`, with the kernel's nodes and hooks as ghost state | done |
| `Repeater` (+ `MCRepeater`) | rep.c: one repeater's incoming call, both ends' up and down events, and shutdown, with the physical layer as the environment | done |

### AuthLink: state and actions

These variables mirror the C state:

| Variable | C state |
|---|---|
| `phase` | `l->lcp.phase` |
| `selfToPeer`, `peerToSelf` | `a->self_to_peer`, `a->peer_to_self` |
| `authTimer`, `papTimer` | whether `a->timer` and `a->pap.timer` run |
| `papRetry`, `papNextId` | `pap->retry`, `pap->next_id` |
| `thread` | `a->thread` |
| `workers` | the live `paction`s, each with its episode, `canceled` flag and status |

The remaining variables are histories, kept only for the properties: `reports`, `dirResult`, `sent`, `papReqIds`, `applied`.

Actions:
- `AuthStart` calls the helper `PapStart` (`next_id`, `retry`, the timer and the first request) and sends the CHAP challenge.
- `LcpDown` is LCP's stop, running `AuthStop`, which runs the helper `PapStop`.
- `AuthTimeout` and `PapTimeout`.
- Peer input:
  - `AuthInputBadPacket` (bare PAP header).
  - `PapInputRequest` and `PapInputReply`.
  - `ChapInputResponse`, which leads to `AuthAsyncStart`.
- Worker steps: `AuthAsync` (the body ends with some status) and `AuthAsyncFinish`.

A frame dropped by `AuthInput` changes nothing, which is a stuttering step. That covers
a frame in the wrong phase, a frame while `a->thread` is set, and a runt. The peer may
send any frame at any time. That covers lost, duplicated, late and reordered frames.

`AuthStop`, `AuthFinish` and `ChapInputFinish` take the worker set, handle and PAP
timer that their caller leaves behind, so one step can change them once (for example
`PapInput` stops the PAP timer, then calls `AuthFinish`).

### AuthEpisode and the refinement

`AuthEpisode` says what one link's authentication promises LCP, with no PAP, CHAP or worker detail:
- `Begin` enters the phase with the negotiated directions.
- `Complete(d, ok)` ends one direction. The first failure, or the last success, is reported in the same step.
- `GiveUp` is a failure report from the timer. `Abandon` is LCP taking the link down before any report.
- Weak fairness on `GiveUp \/ Abandon`: a pending episode does not stay pending.

`AuthLink` defines `Episode == INSTANCE AuthEpisode WITH ...` with this mapping:
- the episode is pending while `phase` is AUTHENTICATE and nothing was reported;
- it is reported once `reports` is non-empty (until the next `AuthStart`), and idle otherwise;
- its directions are `dirResult` while pending, and its outcome is the first report.

`auth_core` checks `EpisodeRefined == Episode!Spec` as a `PROPERTY`. The mapping stops at the first report. Later reports are stutters of the abstract episode, because `reported_at_most_once` shows that the code can report twice.

### AuthAccount: state and actions

| Variable | C state |
|---|---|
| `linkUp`, `session` | whether the link is up, and the number of its current session |
| `acctTimer` | whether `a->acct_timer` runs |
| `acctThread` | `a->acct_thread`, the id of the paction it holds (0 for NULL) |
| `acctWorkers` | the live pactions: type, session, `canceled`, body done |
| `paramsFrom` | the session whose AuthData last wrote `a->params` |

`dispatched` and `records` are histories.

Actions:
- `LinkUp` calls `AuthAccountStart(START)`.
- `LinkDown` calls `AuthAccountStart(STOP)` and then `AuthCleanup`.
- `AuthAccountTimeout` sends an UPDATE and restarts the timer.
- `AuthAccount` is the body. It writes one record, or nothing if it was canceled and stops at a cancellation point.
- `AuthAccountFinish` copies the params back unless the action was canceled or is a STOP.

`AuthAccountStart` cancels the held action only for START and STOP. `paction_start` then refuses to start while the handle is still set.

### AuthBackends: state and actions

One worker runs the `AuthAsync` chain. The outside world is a record `env`, chosen in `Init` from `Envs`:
- the script's outcome (`popen_fail`, `no_output`, `pw`, `pw_fail`);
- the RADIUS verdict;
- the password database;
- the OPIE keys;
- the enabled options.

The secrets file is `secrets`, a sequence of up to `MaxLines` lines. Each line is a name column (the user `u`, another user `v`, or `*`) and a password column: a plain secret, or `!cmd` whose program prints a password (`ext_ok`) or fails (`ext_fail`: popen fails, or it prints nothing or an empty line, which `AuthGetExternalPassword` rejects). The worker reads `env.opts`, the copy of the link's options that `AuthDataNew` made. `linkOpts` is the link's own `conf.options`. `SetAuthOption` (`AuthSetCommand`'s enable/disable/yes/no) changes it from the console's main thread while the worker thread runs, at most `MaxConfCmds` times.

The file is chosen at the worker's first lookup and `secretsRead` is set, so `AuthOpie` and `AuthInternal` read the same file. Choosing it there and not in `Init` keeps paths that never reach a lookup from being multiplied by every file.

`pc` names the next backend to try. `status`, `why`, `authentic` and `pw` are the AuthData fields the finisher reads. `pw` is the script's or the system's answer for the user (`"user"`), the secret of secrets line i (`LineSecret(i)`), `"empty"`, or `"stale"` (what `params.password` held when the worker started).

The actions follow the chain's order: `AuthExternal`, `AuthRadius`, `AuthSystem`, `AuthOpie` and `AuthInternal`. `SkipBackend` passes over a disabled backend, and `RanOut` marks the end of the chain. `AuthGetData` is the `RECURSIVE` scan `ScanSecrets` over the lines: the first line that `LineMatches` ends it. `SpecChain(env, secrets)` is a `RECURSIVE` operator. It applies spec 4.5's precedence to the same `env`, with spec 4.6's lookup `SpecLookup` (the least matching line, as a set minimum). `ChainFollowsPrecedence` compares the two verdicts, so it also checks the scan against the reference lookup on every file.

### TcpPhys: state and actions

`Slots` is `gLinks[]`: a TCP link, a link of another type, or a NULL slot.

| Variable | C state |
|---|---|
| `self`, `peer`, `opts` | `pi->conf` |
| `ifOf`, `ifs` | `pi->If` and the shared listeners `gTcpIfs` |
| `state` | `p->state` |
| `incoming` | `pi->incoming` |
| `csock` | `pi->csock` |
| `evConnect` | the connect event |
| `conn` | the link's netgraph node: none, a ksocket, an outgoing or an incoming connection |
| `recent` | inside the reopen pause |
| `armed` | `If->ctrlEvent` registered |

`reported`, `orphaned`, `crashed` and `shutdown` are observations. `reported` is the link layer's view, from `PhysUp` and `PhysDown`.

Actions:
- The `set tcp` commands (`SetSelf`, `SetPeer`, `SetEnable`, `SetDisable`), which schedule `TcpListenUpdate`.
- `TcpListenUpdate`: a fold over the slots with `ListenStep`. `ListenTcpNode` may fail for any link, and the listener table is capped at `MaxIfs`.
- `TcpOpen`, `TcpConnectEvent` and `TcpClose` (with `TcpDoClose`).
- `TcpAcceptEvent(i, p)`: an incoming call from peer `p` on listener `i`. `ScanStop` (a `SelectInSeq`) finds the slot where the scan stops.
- `ReopenPauseElapses` and `BeginShutdown`.

### ConsoleSession: state and actions

| Variable | C state |
|---|---|
| `listening` | `c->fd` and its event: `closed` (0), `bad` (-1 from a failed `TcpGetListenPort`), `fd` (socket kept after a failed `EventRegister`), or `accepting` |
| `open` | the session exists |
| `state`, `escaped`, `telnet`, `cmd`, `history` | the `cs->` fields of the same names |
| `named`, `username` | `cs->user.username` |
| `users` | `c->users` |

`nameAllocs` counts username strings that are allocated and not yet freed.

Bytes are their C values. One step handles one byte, which is one iteration of the read loop. There is an action per case of the switch:
- `EscapePrefix`, `EscapeKey`, `TelnetKey` and `IgnoreKey`;
- `TabKey`;
- `CtrlCKey`, `HistoryUp`, `HistoryDown` and `Backspace`;
- `LoginName`, `LoginPassword`, `RunCommand` and `HelpLine` (the Enter keys);
- `ReadData` (the default case).

A cursor key (`ESC [ A`) goes through `Key`/`CursorKey` and reaches the same action as CTRL-P. `ReadEnd` is a read of 0 bytes or an error.

The command parser is not in the tree:
- `ParseLine` is modelled by what it does.
- `FindCommand`'s answer for each word is a choice from `Lookups`: no match, or a command whose name adds `Completions` to the word, submenu or not.
- `DoCommand` chooses whether it ends the session.

`ConsoleConnect`, `ConsoleOpen`, `ConsoleClose` and `SetUser` (`set console user`) complete the module.

### Repeater: state and actions

| Variable | C state |
|---|---|
| `alive` | the repeater is in `gReps[]` and not `dead` |
| `stay` | `r->stay` (static or template) |
| `link[n]` | `r->links[n]`: none (NULL), down, ringing (an incoming call not yet answered), opening, up, or closing after a `PhysClose` |
| `pUp` | the bits of `r->p_up` |
| `csock` | `r->csock`: none (-1), open, or stale (a closed descriptor still stored) |
| `nodeId` | `r->node_id != 0` |
| `teeHook` | the control socket holds the "tee" hook of a tee node |

`links[0]` is a configured link that takes the incoming call. `links[1]` is an instance that `PhysGetRep` makes from the template.

Actions:
- `RepIncoming` takes the whole handler, with each kernel answer a nondeterministic choice:
  - `PhysGetRep` may fail;
  - `NgMkSockNode` runs only when `csock <= 0`;
  - `NGM_MKPEER` fails on a stale socket, while an old "tee" hook is still there, or on a kernel error;
  - `NGM_NODEINFO` may fail, leaving `node_id` alone;
  - then `PhysOpen(links[1])`.
- `RepUp(n)` and `RepDown(n)` are called by the environment actions `Connected(n)` (an opening link comes up), `HangUp(n)` (a ringing, opening or up link fails) and `CloseDone(n)` (a close completes). These three stand for phys.c, which is not in the tree, so they have no entry in the map. `RepShutdown` is part of `RepDown`.

phys.c and link.c are not in the tree. `PhysOpen` and `PhysClose` are modelled by what their callers need: answering or dialling, and a close that later ends in a down event.

### Netflow: state and actions

| Variable | C state |
|---|---|
| `gNetflowNode`, `gNetflowNodeShutdown`, `gNetflowNodeID` | the globals of the same name (`NoNode` is 0) |
| `gNetflowNodeName` | "default" (`mpd-nf`), "own" (`mpd%d-nf`, set by the init) or "user" (set by `set netflow node`) |
| `userNode` | the node named by the administrator exists in the kernel |
| `ownNodes`, `ownNamed`, `refused` | ghost: the nodes mpd built that still exist, which one holds the `mpd%d-nf` name, and those whose `NGM_SHUTDOWN` was refused |
| `tempHook`, `rmRefused` | ghost: `TEMPHOOK` is a hook of `gLinksCsock`; some `NGM_RMHOOK` of it was refused |
| `ifaceNodes`, `ifaceNamed`, `ifaceCalls`, `ifaceOk` | ghost: the iface nodes built (node i by the i-th call), those whose name was copied into the caller's `buf`; the calls so far and whether the last returned 0 |

Actions:
- `NgFuncInitGlobalNetflow` is one event-loop step, guarded by `gNetflowNodeID = 0`. That guard is the caller's test in iface.c, which is not in the tree.
  - `NgMkSockNode` may fail.
  - With `gNetflowNode` set, the init is only `NgGetNodeID` by name.
  - Otherwise the k-th init builds node k, and the failing step is a nondeterministic choice `failAt`.
  - `NGM_NAME` always fails while an earlier node still holds the name.
  - Up to the ksocket, `fail` closes the control socket, and the kernel removes the node when its last hook goes.
  - After the ksocket, `fail2` calls `NgFuncShutdownNode`, which may be refused once its ten ENOBUFS retries are used up.
- `SetNode` is `NetflowSetCommand` SET_NODE. The other set commands only add configuration messages, and those are all inside the "configure" step.
- `NgFuncShutdownGlobal` is the exit.
- `NgFuncCreateIface` is one event-loop step. Its `NGM_MKPEER` fails when the kernel refuses it or `TEMPHOOK` is still a hook of `gLinksCsock`, and the call returns -1 with nothing built.
  - Otherwise the iface node exists. `CreateIfaceBody` is the rest: `NGM_NODEINFO` and its reply (the name is copied only when both succeed), then `NGM_RMHOOK` at `done`, whose failure also makes the result -1.
  - An iface node does not go away when its only hook is removed, so a node whose name the caller never got stays in `ifaceNodes`.

## 3. Runs

Each pass run's properties have one mutant each in `PROJECT.json`. A mutant is a plausible bug in the mapped code, and TLC finds the property violated once the bug is substituted in. A violation run checks one property that states what the spec or the code itself promises, and each has a finding.

| Run | Expect | What it shows |
|---|---|---|
| `auth_core` | pass | Covers two episodes with every protocol choice and a hostile peer. The controller refines `AuthEpisode` up to the first report, so success is reported only when every negotiated direction succeeded. A canceled worker's verdict is never applied. No PAP request or acceptance comes after a report. The phase always ends. |
| `reported_at_most_once` | violation | A bare PAP header (or a late request or response) in the network phase reaches `AuthFinish(..., FALSE)`, and LCP is told a second time (auth.c:424, against spec 5). |
| `acct_core` | pass | Covers two sessions with periodic updates. Every STOP is started. `a->params` never takes an earlier session's data. No UPDATE follows a STOP. |
| `acct_stop_recorded` | violation | The next session's START cancels a STOP still in flight, so that STOP may never be written (auth.c:710, against spec 4.7). |
| `backends_core` | pass | The chain gives spec 4.5's verdict for every option set, protocol, answer of RADIUS, System and OPIE, and secrets file of up to two lines, when the script gives a password or a failure line (not on a popen failure or empty output), and with a `set auth enable/disable` typed while the worker runs. The chain follows the options copied at dispatch. `AuthGetData` finds what spec 4.6's first-match lookup finds. A deferred (UNDEF) result carries a secret of the user's own, never a plain `*` line's. |
| `backends_empty_secret` | violation | After a popen failure or empty script output, AuthExternal returns UNDEF with an empty or stale password buffer, and the CHAP compare accepts a peer that sends that value (auth.c:1562). |
| `tcp_core` | pass | Each link's resources match its state. The link layer's up/down view follows the adapter. Listeners stay armed. A connecting link always resolves. |
| `tcp_orphan_ksocket` | violation | A failed NGM_CONNECT of an accepted ksocket skips its shutdown, and the node is left behind (tcp.c:425). |
| `console_core` | pass | Every username string is freed exactly once, over failed logins, exits and disconnects, with `set console user` changing the table and the listening socket opened (possibly failing) and closed. |
| `netflow_core` | pass | Three init calls, each failing at any step, `set netflow node` at any time, and the exit. A failed init leaves no half-built node behind unless its `NGM_SHUTDOWN` was refused. `gNetflowNodeID` never names a node that is gone while mpd runs. Three `NgFuncCreateIface` calls, each failing at any message, leave `TEMPHOOK` behind only after a refused `NGM_RMHOOK` (`TempHookRemoved`). A call that returns 0 has given its node's name to the caller (`IfaceSuccessNamed`). |
| `repeater_core` | pass | Up to three incoming calls with every failure of `RepIncoming` and hang-ups of either end. The caller is answered only while the outgoing leg is up. `node_id` always names a tee on an open socket. An end going down always takes the other end down (leads-to). |
| `console_line_overflow` | violation | TAB completion strcats the arguments after the completed command names with no bound, so `compl` and then `cs->cmd` overflow (console.c:452). |

Selected properties:

| Property | Run | What it says |
|---|---|---|
| `NoAcceptAfterFailure` | `auth_core` | No ACK or SUCCESS goes to the peer after a failure report, even from a worker that outlived the timer. |
| `NoStaleCopyBack` | `acct_core` | `a->params` holds only the current session's data. |
| `ChainFollowsPrecedence` | `backends_core` | The chain's verdict equals the recursive reference `SpecChain`, over the well-formed script answers only. On a popen failure or empty output the code returns (auth.c:944-948) where spec 4.5 falls through; that disagreement is left out of this run, and `backends_empty_secret` shows what it leads to. |
| `ListenerKeepsAccepting` | `tcp_core` | Every listener stays armed until shutdown. The accept handler's failure path must re-arm it. |
| `ConnectingResolves` | `tcp_core` | A link in the connecting state eventually leaves it (leads-to). |
| `EpisodeRefined` | `auth_core` | `AuthLink` implements the abstract episode under the refinement mapping, fairness included. |
| `OtherEndFollows` | `repeater_core` | After either end goes down, the other end is eventually down: `RepDown`'s `PhysClose` is never lost, whatever state the other end is in. |
| `UsernameFreedOnce` | `console_core` | Exactly one live username string while the pointer is set, and none otherwise. |

### Bounds

| Constant | Value | Why it is enough |
|---|---|---|
| `MaxEpisodes` | 2 | A canceled worker can finish in the next episode. |
| `AUTH_RETRIES` | 3 | The code's value, so exhaustion is reachable. |
| `MaxLogins` / `OpenLogins` | 1 / 0 | The cap passes, and the empty name fails the pre-check. |
| `MaxSessions` / `MaxAcctEvents` | 2 / 6 | START, UPDATE and STOP of one session can race the next session's START. |
| `MaxConfCmds` | 1 | One command, enabling or disabling any backend at any point of the chain, is enough to make the link's options differ from the worker's copy before any backend reads them. |
| `Protos`, `ExtOutcomes`, `InitPws` | all values | The backend run enumerates every option set and outside answer. `backends_core` keeps the well-formed script outcomes; the violation run adds the rest. |
| `SecretLines` / `MaxLines` | `u` and `*` lines of every kind, one `v` line / 2 | Every pair of lines, in both orders. A matching line before another matching line, a failing program before a good line, and a plain `*` line before the user's line. |
| `Slots` | other, tcp, tcp | Two TCP links share a listener, and the scan passes a foreign link. |
| `MaxInits` (netflow) | 3 | A failed build, a retry, and a third call after a success or a refused shutdown, where the name is taken. |
| `MaxIfaces` (netflow) | 3 | A refused `NGM_RMHOOK`, then calls that find `TEMPHOOK` still in place; or a failed `NGM_NODEINFO` followed by a good call. |
| `Addrs` / `Peers` / `MaxIfs` | 2 / 2 / 1 | Two self addresses and a full listener table. Both peers match and mismatch a link's filter. |
| `MaxCmds` (TCP) | 4 | Enough for self, peer and enable on a link, plus a change. 5 commands take about 4 minutes. |
| `MaxLine` (console) | 3 / 4 | The line fills: the default case stops at 2 characters. With 4, `A A` plus TAB completes to 4 characters. |
| `MaxCalls` (repeater) | 3 | A failed call and then a later call that reuses the socket; the static repeater survives the first call. |
| `MaxConns` / `MaxCmds` (console) | 2 / 2 | A second session after an exit or a failed login, and a password change between the two login steps. |

In `auth_core`, at most one CHAP worker starts per episode: the finisher or a report clears `peer_to_self` or ends the phase. So the worker ids are bounded without a constraint.

The state spaces are:
- `auth_core`: about 13,000 states.
- `acct_core`: about 23,500.
- `backends_core`: about 2,240,000, in 40 s.
- `tcp_core`: about 65,000, in 50 s.
- `console_core`: about 372,000, in 31 s.
- `repeater_core`: 158 states.
- `netflow_core`: about 10,600 states.

`CHECK_DEADLOCK FALSE` applies to these runs:
- `auth_core` stops only on a dead link after its last episode.
- `backends_core` stops at the worker's final result.
- `acct_core` stops with the link down after its last session.
- `console_core` stops with no console peer once the bounds are used. The daemon then idles.
- `repeater_core` stops with both ends down after its last call, or after shutdown.
- `netflow_core` stops at exit.

`tcp_core` checks deadlock.

### Fairness

Weak fairness is assumed only on steps that mpd's event loop or threads take by themselves:
- the auth timer and the PAP timer;
- a worker's body and finisher;
- the accounting timer, and the accounting body and finisher;
- the TCP connect event, the end of the reopen pause, and the scheduled `TcpListenUpdate`;
- the completion of a close that the repeater asked for (`CloseDone`).

The peer, LCP, the administrator and the console user get no fairness. Each may do nothing.

## 4. Not modelled, and observations

Not modelled:
- Frame layout and message text (`AuthOutput`, `AuthFailMsg`), and console output and prompts.
- The content of credentials: a secret is the line it came from. The IP-range column of a secrets line (`ParseRange`, not in the tree) is left out. So is `AuthGetData`'s test of an empty authname, because `AuthPreChecks` rejects that name first. The parsing in `AuthExternal` is also left out.
- RADIUS and OPIE internals: their verdict is an input.
- The auth status commands, and the `set auth` cases other than the backend options (they set values the models take as constants), `ConsoleStat`, and `set console port/ip/enable/disable`.
- The stdin console (`StdConsoleConnect`).
- More than one console session at a time. Sessions share only the user table.
- `TcpShutdown` and `TcpAsyncConfig`.
- rep.c's configuration and display (`RepCommand`, `RepSetCommand`, `RepStat`) and templates beyond `stay`; the rest of ngfunc.c, and l2tp.h (declarations).
- In ngfunc.c, `NgFuncConnect`, `NgFuncDisconnect`, the frame writers, the statistics queries, `ShowNetflow` and the set commands other than `node`. Each is a single kernel message or formatting, with no state of the daemon's own. A failure of one of them is an input of its caller, and the callers (bund.c, iface.c) are not in the tree.

`pap.c` in this tree is an older synchronous version. Its `PapInput(code, id, pkt, len)` does not match the call in `auth.c` (`PapInput(l, auth, pkt, len)`). The model follows `pap.c`'s body.

Observations met while modelling. Each disagrees with the spec or looks doubtful, but has no run of its own:
- **Empty external password** (auth.c:1420). The open question in spec 9 says a `*` line whose program prints an empty password gives success with an empty password. In this tree, `AuthGetExternalPassword` returns -1 for an empty line, and `AuthGetData` fails. The model's `ext_fail` covers it, and `ChainFollowsPrecedence` holds.
- **Exhausted PAP retries** (pap.c:251). When the retries run out, the resend timer only stops. Self-to-peer is not failed, as spec 4.2 says it should be. The global timer still ends the episode (`AuthPhaseEnds`).
- **NULL slot in the TCP accept scan** (tcp.c:392). The scan's test `gLinks[k] && gLinks[k]->type != &gTcpPhysType` is inverted for a NULL slot, so an empty `gLinks[]` slot is dereferenced. `TcpPhys` keeps this branch (`crashed`). With a NULL slot in `Slots`, one accept reaches it. This had a violation run in earlier versions of the project. The run was retired to make room for `netflow_core`.
- **Netflow node kept at exit** (ngfunc.c:825). `set netflow node` after mpd built its own node clears `gNetflowNodeShutdown` but leaves `gNetflowNodeID` naming the built node. mpd goes on using its own node and never removes it at exit. `netflow_core` reaches this sequence.
- **Unnamed iface node** (ngfunc.c:349). When `NGM_NODEINFO` or its reply fails, `NgFuncCreateIface` returns -1 after the iface node was built. The temporary hook is removed, but the node stays in the kernel and its caller never learns its name. `netflow_core` reaches it (a node in `ifaceNodes` but not in `ifaceNamed`).
- **Netflow name taken** (ngfunc.c:193). When `fail2`'s `NGM_SHUTDOWN` is refused, the named node survives. Every later init then fails at `NGM_NAME`.
- **Repeater socket closed but kept** (rep.c:124). After a failed `NGM_MKPEER`, `RepIncoming` closes `r->csock` without setting it to -1. Every later call on a static repeater skips `NgMkSockNode`, fails `NGM_MKPEER` on the closed descriptor, and closes it again. That descriptor may by then belong to another connection. `repeater_core` reaches these states (`csock = "stale"`).
- **Repeater tee leak** (rep.c:133). When `NGM_NODEINFO` fails, `node_id` stays 0. `RepUp`, `RepDown` and `RepShutdown` then never shut the tee down or close the socket. On a static repeater the old "tee" hook makes the next call's `NGM_MKPEER` fail, which leads to the stale socket above.
- **PAP retransmission id** (pap.c:98). Each retransmission takes `next_id++`, so it carries a new id. The spec says the same id.
- **OPIE authentic source** (auth.c:1103, 1127). `AuthSystem` sets `params.authentic` to OPIE, while `AuthExternal` never sets it.
- **External backend errors** (auth.c:948). An `AuthExternal` error returns instead of falling through to the next backend. Spec 4.5 orders them as a chain.
- **Canceled UPDATE after STOP** (auth.c:710). An UPDATE body that was canceled may still write its record after STOP.
- **Stale listener after `set tcp self`** (tcp.c:398). The link keeps its old listener in `pi->If` until `TcpListenUpdate` runs.
- **Console reopen refused after a failed listen** (console.c:141). When `TcpGetListenPort` fails, `ConsoleOpen` stores -1 in `c->fd`. The test `if (c->fd)` takes -1 as a running console, so every later `set console open` is refused until `set console close`, which calls `close(-1)` and sets `c->fd` to 0. `console_core` reaches this (`listening = "bad"`).
- **Password written back to the console** (console.c:495, 487). CTRL-N (cursor down) at the Password prompt copies the password being typed into `cs->history`. CTRL-P (cursor up) then writes it to the terminal, also at the next Username prompt after a failed login. The model has this path; it omits output, so no property states it.
- **Telnet option swallowing a keystroke** (console.c:471). After `IAC DO 3` or `IAC WILL 0`, the option code is handled by the CTRL-C case or case 0, so `cs->telnet` stays set and the user's next byte is swallowed.
- **CR LF at login** (console.c:519). A client that sends CR LF submits the username at CR and an empty password at LF.

## 5. Plan for later work

The project already uses the twelve runs it is allowed. Further work adds properties and mutants to the existing runs, or replaces a run with a stronger one:
- **Repeater violation runs.** Two runs would show the rep.c observations: `csock` never names a closed descriptor, and the tee and socket are released when a call ends. Each needs a run slot.
- **`ConsoleSession`.** A property on terminal output for the password write-back, and a reference telnet parser for the swallowed keystroke.
- **`TwoLinks`.** Two `AuthLink` instances sharing the max-logins count.
