# Verification of the KP4PRA TNC

TLA+ models of this repository's own logic: the Winlink RMS gateway, the
outbound RF link, the mail queue, the radio interlock, the APRS chat and clock,
the two Bluetooth bridges with the VARA launcher, the codecs of the mail path,
the web service's settings and maintenance workflow, and the display. TLC checks
them on small instances; TLAPS proves their safety properties for all instances,
except those of the codecs.

## The system and its parts

The box is a packet radio TNC on a single-board computer. Dire Wolf, the modem,
is an external program that serves KISS frames on TCP port 8001 and AGW on 8000;
everything below talks to it.

| Part | State it keeps | Operations | Interacts with |
|---|---|---|---|
| RMS gateway, RF side (`src/rms/gateway.py`, `cms.py`) | `link` (peer, vs, vr, va), `cms`, `cms_task`, status file | SABM, DISC, RR and I frames, relay from the CMS, close | Dire Wolf, CMS, status file |
| Telnet proxy (`gateway.py`) | none but the two streams | copy both ways until one ends | CMS |
| AX.25/KISS codec (`ax25.py`) | decoder buffer | encode, decode, split | gateway, rfsend, clock |
| Outbound link (`web/rfsend.py`, `AX25Stream`) | vs, va, vr, unacked, rxbuf | connect, send, recv, close | Dire Wolf, a remote RMS |
| RF delivery (`rfsend.send`, `probe`) | the local flag `stopped` | stop listener, deliver, restart listener | systemd, status file |
| CMS delivery (`web/b2fsend.py`) | none | send, probe | mail queue, CMS |
| Mail queue (`web/mailqueue.py`, `/api/messages/` in `web_app.py`) | one JSON file per message | enqueue, approve, reject, delete, send, send_bulk | both deliveries |
| APRS chat session (`web/aprssession.py`) | active, transports, `_rms_was_running` | start, stop, retry, beacon | systemd, Dire Wolf, APRS-IS |
| APRS chat messages (`web/aprschat.py`) | store, pending acks, message numbers | send, receive, ack, retry | transports |
| APRS clock (`aprs_clock.py`) | NTP gate, last step | check NTP, listen, step | timedatectl, date, AGW |
| VARA launcher (`vara_launcher.py`, `bin/kp4pra-xara`) | busy, each connection's session, the two modem units | start and end a session, switch, fall back | systemd, Dire Wolf, the Services page |
| BLE bridge (`ble/ble_bridge.py`) | advertising, `ble_connected`, queue, connection | advertise, subscribe, write, relay, reconnect | BlueZ, Dire Wolf |
| RFCOMM bridge (`rfcomm/rfcomm_bridge.py`) | client, stop event, socket holder | accept, relay by two threads, reconnect, SIGTERM | Bluetooth, Dire Wolf |
| LZHUF and B2F (`web/lzhuf.py`, `b2f.py`) | trees, window, bit stream | encode, frame, unframe, decode | both deliveries |
| Web service (`web_app.py`, `auth.py`) | session key, cookies, cached configuration | login, configure, control services, power off | everything |
| Configuration store (`common/config*.py`) | `config.yaml`, its cache | load, save, generate | everything |
| Bluetooth manager (`common/bluez_manager.py`, `fs_manager.py`) | root mount, the bridge service | pair, trust, untrust, remove | bluetoothctl, mount, systemd |
| TFT display (`tft/`) | screen, saver, buttons, countdown | poll, draw | status files, GPIO |

What is hard about it: asyncio tasks that share an object and interleave at each
`await`; a radio channel that loses, delays and repeats frames, with retries
that race late answers and sequence numbers that wrap at 8; web requests that
overlap for minutes while a delivery is in progress; threads that replace a
socket under each other; two processes that coordinate through a file read at
the wrong moment; caches a save may miss; restarts and power cuts in between.

What makes each part correct, in short: the gateway never mixes the sessions of
two stations and never loses a CMS socket; the link delivers each chunk once and
in order and says so only when it has; the queue never shows what did not
happen, never forgets what did and never sends twice; the listener is always
given back the radio; the clock is stepped only when it should be, and to the
right time; a chat message's ticks are true and settle; a bridge hands over
whole chunks in order and outlives a Dire Wolf that restarts; after VARA the TNC
is a packet TNC again; decoding undoes encoding; a save loses nothing and a
password stays in force; maintenance leaves a read-only unit read-only and its
bridge running; the panel shows what it should.

## Modules

Each module translates the code it names in its head comment; `PROJECT.json`
maps every definition to its lines. Variables carry the names of the attributes
they stand for. Definitions headed "Faulty variant of" are mutated forms of the
definition that follows them and are not part of the specifications.

**RmsGateway** (`gateway.py`, `cms.py`). The listener task (`hpc`) and the relay
task (`rpc`) are two program counters that name the await a task is suspended
at; a step runs to the next await. Actions are the frames `handle()` tells apart
(`HandleSabm`, `HandleSabmBusy`, `HandleDisc`, `HandleS`, `HandleI`), its
continuation after each await (`UaSent` ... `HandleReturns`), the relay's steps,
`KissUp`/`KissError` for Dire Wolf, and `CmsCloses`. Any station may send any
frame at any time. CMS sessions are numbered by the SABM that opened them, so
that the histories `sent` and `fwd` can say which session bytes came from or
went to. The cancellation of the relay is exact: `cancel()` only marks it
(`cancelled`), and what `CancelledError` does depends on the await it is raised
at (`RelayCancelled`). `TxBlocks` says whether `writer.drain()` may suspend,
which it does only when Dire Wolf stops reading.

**RfLink** (`rfsend.py: AX25Stream`). The initiator with its window,
`_ack_upto`, `_retransmit` and both retry loops, against the RMS side of the
protocol as `gateway.py` implements it, over two FIFO channels. Any frame may be
lost, and a timeout may happen whether or not an answer is under way. `Faults`
adds a digipeater that repeats one frame late, in either direction (`echo`,
history `echoed`), an RMS that ends the session (`drop`), and an RMS that talks to
another station as well (`others`). The RMS has its own window towards us (`pva`,
`RmsFull`).

`_read_frame()` compares the source of a frame and not its destination, so
whatever the RMS sends to another station is processed as if it were ours:
`Overhear` does so with any UA, DM, RR or I frame, wherever the code reads one. A
UA or DM answers our SABM, an RR or the N(R) of an I frame acknowledges our chunks,
the data of an I frame with the expected number enters `rxbuf`. Once one of the
last two has happened (history `misled`) the code guarantees none of the link's
properties, and the model claims none. A foreign UA is different: the link counts
as up without the RMS knowing, and everything is still claimed.

A repeated frame that is a whole modulus old cannot be told from a new one, so
after a repeated frame the order is claimed only while the numbers have not gone
round: `Unambiguous` (fewer than `Modulus` chunks sent) and `UnambiguousBack` (fewer
than `Modulus` to come back). Neither is claimed once a SABM that arrives late makes
the RMS begin a session anew (history `recalled`; without a repeated frame this
matters for what comes back only). `Recoverable` is claimed only without repeated
frames, see the observations. Payloads are chunk numbers, counted from 1 in each
direction (by the RMS in each session), so order and loss are visible in
`delivered` and `rxbuf`.

**MailDelivery** (`mailqueue.py`, `web_app.py`, `b2fsend.send`, `rfsend.send`).
The status in each message's file and any number of delivery requests. Reading,
changing and writing a file has no await and is one step; a conversation is
several (`Begin`, `BodySent`, then `Confirmed`, `Unconfirmed`, `Refused` or
`Raises`). `Confirmed` is the byte `F` that the code waits for, in whatever answer;
whether the peer took the message is not modelled, since the code does not find
out. `Crash` is a restart of the web service: the files stay. The history
`orphaned` has the messages whose last delivery over CMS ended by an exception or a
restart. The constants say what the trustee does (`Routes`, `Single`) and what goes
wrong (`Faults`).

**RadioInterlock** (`aprssession.py`, `rfsend.send`/`probe`). Chat requests and
deliveries that each stop and restart the RMS service by their own flag, the
service, and the status file through which its sessions are seen. `systemctl` is
called with a blocking `subprocess.run`: while a request is inside it no other
request moves (`LoopFree`), but the gateway, another process, does.

**AprsClock** (`aprs_clock.py`). The NTP gate, the listening loop and the
arithmetic on times of day and dates. Time is counted in coarse units; `truth` is
the real time, `board` the clock of the box, which drifts while NTP is lost.

**AprsChat** (`aprschat.py`, `aprssession.py`, `aprs_transports.py`). The store's
outgoing messages with their ticks, the receive task of each path, the retry
loop with its awaited writes, a peer that acknowledges or rejects late, twice and
by either path, and a Dire Wolf that goes away. Sessions start and stop over one
store; the message numbers begin again with each.

**RfcommBridge**, **BleBridge**, **VaraLauncher**, composed in **Bridges**. The
three are processes around one Dire Wolf (`dw`): the launcher stops and starts it,
and the bridges lose and renew their connections. `RfcommBridge` has the main
thread and both relay threads as program counters between which a socket is read,
closed and replaced; a `sendall()` to Dire Wolf that fails may have written part
of its chunk (`torn`), and one to the phone fails when the phone has gone or,
after the 1 s of `client_sock`, is too slow (`slow`); `BleBridge` the callbacks,
the Dire Wolf loop's two coroutines and the advertising watchdog on one event
loop; `VaraLauncher` the handlers of its connections and the steps of the
lock-free switch script, run by them and by the Services page. `Enabled` says
which of the three a unit runs; without the launcher Dire Wolf ends and comes back
at any time.

**KissPipe** is the abstract specification of a bridge towards Dire Wolf: whole
chunks, in order, at most once, the oldest of them lost now and then. A write that
fails may leave a part of its chunk (`torn`), before the whole of it if that comes,
and never behind a newer chunk; the rest of the stream is then for Dire Wolf's KISS
decoder to sort out at the next FEND. Each bridge instantiates it (`INSTANCE KissPipe
WITH pending <- ..., delivered <- ..., torn <- ...`, where `pending` is the chunk a
thread holds, or the queue behind the chunk being written), and `Pipes` of `Bridges`
says that both implement it.

**Lzhuf** and **Ax25Kiss**, composed in **Codec**. `Lzhuf` has the adaptive Huffman
tree with its rebuild, the LZSS search trees with their deletions, the position
tables as they stand and the CRC, as operators; `Codec` steps encoder and decoder
by one round of their loops and adds the B2 framing and one damaged byte.
`Ax25Kiss` sends frames byte by byte to a decoder that joins anywhere and reads
in pieces of any size.

**WebConfig** and **Provisioning**, composed in **WebService**. `WebConfig` has
`config.yaml`, both caches, the gate run by a worker thread in separate steps,
saves from two pages, login, the session key, and power cuts. A save is two steps:
the rename with the emptied cache, and the reload (`Reload`); between them a worker
thread may fill the cache from the file itself (`GateLoads`, `GateCaches`), and may
store what it read even after a later save (history `astray`, which is also set by
a hand edit). `Provisioning` is the Bluetooth maintenance workflow, one step per
command. A command may fail, pass for a success without effect (the mount scripts
end with `|| true`), or be given up after it took effect; `needs_remount` is
arbitrary, since it is the service user's access to `/var/lib/bluetooth` and not how
root is mounted.
The workflow never awaits, so while it runs only the worker threads move.

**Tft** (`tft/main.py`, `web_app.py`: shutdown and cancel). One pass of the
display's loop in its parts, the Wi-Fi thread between them, the buttons at any
level at each pass, and the shutdown notice written by the web service. An error of
the device may end the Display anywhere in a pass (`Leaves`), and `main()` makes a
new one, to which nothing has been pressed yet.

**RmsGatewayProofs**, **RfLinkProofs**, **MailDeliveryProofs**,
**RadioInterlockProofs**, **AprsClockProofs**, **AprsChatProofs**,
**BridgesProofs** and **WebDisplayProofs** hold the theorems, the last about
`WebService` and `Tft`, the others about the module they are named after. The
**MC** modules hold the model values of the instances.

## Runs

| Run | Instance | Properties |
|---|---|---|
| `gateway` | 2 stations, modulus 3, 2 accepted calls | ForwardToOwnSession, NoCrossTalk, NoLeakedCms, SessionOfCaller, HandlerReturns |
| `rf_link` | modulus 3 (window 2), 1 retry, 4 chunks out, 1 back, 2 frames in flight, losses, a frame repeated either way, one of another station taken for ours, RMS ends the session | LinkInOrder, SendMeansDelivered, Recoverable, SendEnds |
| `mail_bulk` | 2 messages, 2 requests, send_bulk over CMS | OneConversation, ReportedSentIsRecorded, SentIsFinal, SendingSettles |
| `mail_faults` | 2 messages, 2 requests, all requests and routes, exceptions, restarts | SendingOwned, DeletedStaysDeleted |
| `radio` | 1 chat, 2 deliveries | HandedBack, RmsReturns |
| `clock` | a day of 8 units around midnight, zone -4, threshold 1, cooldown 2, 3 checks | StepOnTime, ListenAfterLoss, NtpTakesOver |
| `chat` | 2 messages, 2 sessions, numbers up to 2, 1 retry, both paths | AckedMeansTaken, FailedMeansTried, ChatSettles |
| `bridges` | each service alone: 3 chunks, 3 sockets, queue of 2, 2 launcher clients and the page | NoSocketLeaked, OnlyClientEnds, Pipes, SessionEnds, FoundAgain, ModemReturns, BackToPacket |
| `codec` | window 8, look-ahead 4, 3 characters, frequency limit 8, blocks of 3 | RoundTrip, DamageSeen, FramesThrough, TreesSound |
| `codec_tables` | same | LookaheadCoded, violated |
| `web` | 2 requests, 1 password, 3 saves | SavedStays, GateStays, UnitRestored |
| `tft` | 2 outside events | PanelTrue, OnlyWakes, CountdownShown |

`PROJECT.json` says of each run in a sentence what it shows, and of each property
which changed definition (mutant) makes it fail.

Why the bounds are enough.

* Gateway: what can be mixed up are an old and a new session, of one or of two
  stations, so two calls and two stations are the smallest instance with every
  case; the theorems remove the bound. Modulus 3 keeps a window of more than one
  frame and lets numbers wrap within four chunks; only `n + 1`, differences and
  comparisons are applied to them.
* RfLink: four chunks are one more than the modulus, so a chunk and its
  predecessor with the same number meet, and two frames in flight let an old frame
  arrive behind a newer one. That is little, and the run is there for `SendEnds` and
  as a test of the model; what the invariants say in general is proved. The
  constraint `Followed` ends a behaviour once the properties say nothing more of what
  we send (`~Unambiguous`, which also ends what `SendEnds` waits for); the first such
  state is still checked. One foreign frame is taken for ours at most, and not after
  a repeated one, for the same reason.
* Mail: two requests and two messages give every overlap of two deliveries and
  leave a message over.
* Clock: the day is long enough for a step forwards, a step backwards and the
  wrap at midnight to differ, and `MaxTime` lets the cooldown pass and another
  step follow.
* Chat: with two messages, two numbers and two sessions a number is used again
  both within the store and after a wrap, with an acknowledgement of the first
  use still under way.
* Bridges: three chunks outgrow the queue of two and outlast a reconnection;
  RFCOMM sockets are numbers used again once closed and unreferenced, so the
  number of reconnections is not bounded; two clients and the page are enough for
  two switch scripts at once and for a second client to find the launcher busy.
  Each service is enabled alone: none writes what another reads but `dw`, and a
  bridge without the launcher meets a Dire Wolf that ends and returns at any time,
  which includes whatever the launcher does to it.
* Codec: the sizes shrink together so that within a few characters the window
  wraps, search-tree nodes with one and two children are deleted, matches reach
  the longest length and the Huffman tree is rebuilt. The position tables are not
  scaled down: they are those of the code.
* Web: two requests let one gate straddle the other's save, and three saves let a
  worker thread read in the first, store after the second and spoil the third. The
  constraint `Apart` follows the maintenance workflow up to the second save only: the
  two have the event loop and the process in common and no other state.
* Tft: each event (a power-off asked for or called off, SIGTERM, setup, Wi-Fi) can
  meet each other one at every point of a pass.

The bounds that cut behaviours off are guards: `MaxSabm`, `Total`, `RevTotal`,
`ChanMax`, `MaxTime`, `MaxOut`, `MaxStarts`, `MaxData`, `MaxWrites`, `MaxSaves`,
`MaxEvents`. `MaxNo`, `MaxRetries`, `QueueSize`, `Retries`, `Modulus` and the sizes
of LZHUF are parameters of the code with small values.

Deadlock is checked where the system runs for ever. It is not in `chat` (a stopped
session with no start left), `bridges` (bridges that have ended, or exited for
want of an adapter), `codec` (a message decoded or rejected), `web` (saves and
edits used up) and `tft` (a unit that is powered off): there the model may stop
where the program does, or where a bound is reached. `RfLink` has an explicit
`Done` step for the closed stream.

### Fairness

* `gateway`: the event loop runs a task that can run (weak fairness of the
  handler's and the relay's own steps). Nothing is assumed of stations or CMS.
* `rf_link`: the delivery runs and its timeouts fire; the RMS stays on the air
  and a frame repeated for ever is eventually heard (strong fairness of the steps
  that make progress). This is an assumption about the radio path, and `send()`
  ends only under it: see the observations.
* `mail_bulk`: the event loop runs every request; `IO_TIMEOUT` and
  `OVERALL_TIMEOUT` end each conversation.
* `radio`: every request gets on (strong fairness, since a blocking `systemctl`
  of another request disables it now and then), every delivery ends.
* `clock`: `run()` never stops, every await has a timeout or a failure, and the
  control check comes round under any traffic (strong fairness: frames may
  disable it in between, `next_control_check` sees to it that it is not skipped
  for ever).
* `chat`: the retry loop wakes every few seconds, and a message's retry interval
  elapses (strong fairness per message, as other batches may be under way when it
  does); writes of a batch go on. Nothing is assumed of the peer.
* `bridges`: the operating system runs every thread; a `sendall()` with its 1 s
  timeout returns (strong fairness, as the socket may be replaced meanwhile); the
  watchdog's HCI command succeeds now and then; a started script ends or is
  killed after 120 s; systemd runs the fallback unit. Nothing is assumed of phones,
  clients or the operator.
* `tft`: the main loop runs. Nothing is assumed of buttons or of the web service.

### Findings

`codec_tables`: `p_len` and `d_len` of `lzhuf.py` are not Okumura's tables, which
the comment at lines 42-44 says they are. Two of the 64 position prefixes have a
code that is one bit too long, for positions 640 to 767. Encoder and decoder agree
with each other, so every round trip within the repository succeeds; a decoder
with the canonical tables reads such a message out of step.

### Observations

The models show further behaviours of the code for which no run is kept. Each
can be had as a counterexample by changing one constant or adding one property.

* Gateway: on a new SABM the relay of the old session is cancelled, and its
  `close_session()` clears the link that was just made (`gateway.py` 76, 80, 101;
  check `SessionHasLink` of `RmsGateway` with `RmsGateway.cfg`). When Dire Wolf
  restarts under a session, `_run_rf` writes 'listening' although the relay goes
  on (199). When the CMS ends a session, the station is not told (76-80). A
  station that vanishes with its window full holds the gateway for ever (62).
  With `TxBlocks = TRUE` a relay resumed from `drain()` can send the rest of its
  block to the next caller.
* RfLink: a repeated old acknowledgement makes `_ack_upto` walk round the numbers
  and drop from `_unacked` chunks that were not received (`rfsend.py` 204), even
  before the numbers have gone round; `send()` then cannot succeed, though it does
  not report success either. Once they have gone round it may (`Unambiguous`).
  "Return the next decoded AX.25 frame addressed to us" (`rfsend.py` 94) is not what
  `_read_frame` does: it compares the source only (114), so an RR of the RMS to
  another station acknowledges our chunks, `send()` may return with chunks that
  never arrived, and an I frame to another station may enter `rxbuf` (drop `~misled`
  from `Unambiguous` or `UnambiguousBack`). A UA to another station completes
  `connect()` without a session at the RMS.
  With an RMS that is gone, `_send_chunk` retransmits a full window without a limit
  (167-169), so the listener is not restored.
* Mail: a delivery over RF is reported but not recorded (`rfsend.py` 410; check
  `ReportedSentIsRecorded` with `Routes = {"cms", "rf"}`). A message that cannot be
  built stays Sending (`b2fsend.py` 191, 265), and so does one whose delivery a
  restart interrupts. Two single sends of one message both pass the duplicate
  guard (259), and a late failure overwrites Sent. Any `F` in the answer to a body
  counts as FF (174), so that Sent does not mean that the CMS took the message.
* Interlock: a delivery that ends restarts the listener under an active chat
  (`rfsend.py` 427; check `ChatOwnsRadio`). Two overlapping chat starts lose
  `_rms_was_running` (`aprssession.py` 100), which is why `HandsBack` assumes
  `OneStart`. Of two deliveries the first to end
  restarts the listener under the second (`rfsend.py` 426). A call accepted between
  reading the status and `systemctl stop` is cut off (381, 300). A gateway killed
  in a session leaves 'connected' in the status file, and the next chat is refused
  (`aprssession.py` 50).
* Clock: after NTP recovered and was lost again between two control checks, one
  unsynchronized check is enough for a step (`aprs_clock.py` 387). A step across
  local midnight keeps the old date and so moves the clock by almost a day (238).
* Chat: numbers begin at 1 again with each session while the store stays, so a
  late acknowledgement can be meant for an older message of the same number;
  `AckedMeansTaken` says what is left. A write that raises ends the retry or the
  beacon loop for the rest of the session. Incoming messages that are repeated are
  stored again. What arrives by APRS-IS is acknowledged over RF.
* Bridges: "Only an RFCOMM-side disconnect ends the session" (`rfcomm_bridge.py`
  113): so does a phone that is connected and takes none of its data for a second,
  since `client_sock` has a timeout (122) and the `sendall()` to it sets
  `stop_event` when it raises (203-206; drop `slow` from `OnlyClientEnds`). A
  `sendall()` to Dire Wolf that times out may have written part of its chunk, and
  the whole chunk is sent again on the same connection (161-165): Dire Wolf then
  gets its beginning twice. After a Dire Wolf restart the BLE bridge's gathered
  coroutines end only once the phone writes (`ble_bridge.py` 585), where
  `src/README.md` 36-37 speaks of automatic reconnection.
* VARA: `busy` is cleared (`vara_launcher.py` 259) before the awaited switch back
  (262), so a new session may start into it; the properties of the run hold all
  the same, as each script ends with one modem. A start script that outlives its
  120 s leaves Xara on (history `late`). Two scripts run without a lock.
* Codec: a Huffman code of more than 16 bits raises ValueError (`lzhuf.py` 319); the
  small alphabets of the run do not reach it.
* Web: a `get_config()` on a worker thread that straddles a save stores the old
  configuration, so that a password set by that save is not asked for until the
  next one (history `raced`). `reload_config()` empties the module's cache before
  it reads the file: a worker thread that finds it empty reads the file too and
  may store its reading late, after another save, and the save after that merges
  into it and loses a setting (`config.py` 208-223; history `astray`). A hand edit
  is lost by the next save. An unreadable YAML gives the defaults, and a later
  save writes them. A changed password leaves sessions valid; sessions signed with
  an ephemeral key end when /rw becomes writable. The rename is not followed by a
  sync of the directory. The RMS call check looks at the update only, not at what
  is already saved.
* Maintenance: `needs_remount` asks whether the service user may write in
  `/var/lib/bluetooth` (`fs_manager.py` 49-50), which `install.sh` 188-189 makes
  root:bluetooth with mode 750: it is true on a writable root as well, and then
  the workflow remounts a unit that booted writable read-only, and leaves it so
  when the action fails (`web_app.py` 1036). A successful one reboots. The scripts
  behind both remounts end with `|| true`, so a mount that fails is reported as
  done; a remount given up after 10 s (`fs_manager.py` 87) may take effect later,
  and nothing undoes it (history `fault`). `verify_bluez_state_written` always
  says yes. Untrust and remove report success when BlueZ does not answer. A reboot
  that fails is reported as complete, with the bridge stopped, and so it stays
  when the web service is killed during the workflow (history `fault`). A killed
  scan leaves "scanning".
* Tft: a new Display has seen no button (`main.py` 137), so one that is held while
  the display restarts counts as a new press, also when it only woke the one
  before. A power-off called off during setup leaves its countdown on the panel
  until the setup message changes, as `draw_install()` takes the setup image for
  drawn (362). SIGTERM while the saver is blank puts the last message on a dark
  panel (`main.py` 473-482). `set_off` assigns `off` before it takes `dev_lock`; a
  Wi-Fi splash in between leaves the panel dark with `off` false (history
  `crossed`). A button held from the countdown to the start of the saver switches
  the screen off under it. A notice first seen after its deadline draws nothing,
  and the buttons are ignored for up to 60 s. A restart of the web service during
  a countdown leaves the file, and the display counts to a power-off that does not
  come.

## Proofs

Each theorem is about `Spec` of its module, for every value of the constants that
satisfies the assumption of the module. The constants that bound a run
(`MaxSabm`, `Total`, `ChanMax`, `MaxOut`, ...) are arbitrary numbers there. Every
proof has the same form: an invariant that each action keeps, one step per action,
and the property from it.

`RmsGatewayProofs`, for every set of stations, every modulus above 2 and every
bound on calls (assumption `GatewayConstants`):

* `TypeCorrect`, `NoLeak`, `NoStale`, `ForwardSafe`, `CallerKeepsSession` hold
  whether or not `drain()` suspends. They follow from one inductive invariant
  `IInv`. The properties alone are not inductive: that a socket is closed when it
  is forgotten needs `ClosingCms` (while somebody awaits `wait_closed()` the
  current session is the one being closed), that relays belong to the current
  session needs `RelaySession`, that a new session is not an old one needs
  `Numbering`, and that payloads go to the sender's session needs `Ownership`,
  which relates the session, the link and the frame in hand at every await.
* `NoCrossTalkSafe` assumes `~TxBlocks` and adds to `IInv` what the relay knows
  about the link when nobody runs between its transmission and its next look.

`RfLinkProofs`, for every modulus above 1 and any number of chunks, retries and
frames in flight (`RfLinkConstants`): `TypeCorrect`, `KeepsOrder`, `SendDelivers`,
`StaysRecoverable`, with frames of other stations overheard at any time; what they
claim ends with the first that is taken for an acknowledgement or a chunk. The
invariant `LinkInv` reads each sequence number as a count: `Latest(top, n)` is the
largest count up to `top` that `n` can stand for. `Dir` says of one direction
where the counts in flight may lie (a chunk is less than a window older than what
the receiver expects, and acknowledgements rise) and holds while no frame was
repeated; it is argued once and used both ways round. `ForthSmall` and `BackSmall`
are what is left with repeated frames while the numbers have not gone round.
`Calls` and `FirstWindow` deal with a SABM that is repeated, or arrives, after the
link is up for us: nothing but SABMs is ahead of it, so the RMS starts anew
without having taken anything. `Kept` is the invariant of `_unacked`.

`MailDeliveryProofs`, for any messages and requests (`MailConstants`):

* `TypeCorrect` and `DeletedStays` hold for both routes, with exceptions and
  restarts.
* `OneAtATime`, `ReportsRecorded` and `SentFinal` assume that only `send_bulk` over
  CMS is used, which is what the observations above show to be needed. The
  inductive invariant is `BulkInv`: a request in a conversation finds its message
  Sending or deleted, and no two have the same message.
* `SendingIsOwned` (`SendingOwned`) holds for every way to deliver, with exceptions
  and restarts: a message is Sending only while a delivery over CMS has it, or as the
  orphan of one that was cut. Without faults there are no orphans, and
  `SendingSettles` rests on it.

`RadioInterlockProofs`, for any number of chat requests and deliveries
(`InterlockConstants`): `TypeCorrect` without a condition, `HandsBack` as long as
no two starts of the chat overlap (`[]OneStart`, which one chat request at a time
ensures; with two, the observation above is a counterexample). `Owed` says who is
to restart the listener whenever it is down, `Starting` what a start in progress
may rely on, `OneOpen` which connection is open.

`AprsClockProofs`, for every length of the day, zone, threshold, cooldown and
number of checks (`ClockConstants`): `TypeCorrect`, `ListensAfterLoss` from
`GateInv` (the gate counts no more than the checks that failed in a row),
`StepsOnTime` from `SteppingInv` (while the step is awaited its argument is the
frame's time but for whole days), and `CircularDeltaShortest`, about
`circular_delta_seconds` itself: it is the shortest way between two times of day.

`AprsChatProofs`, for any number of messages, sessions, numbers and retries
(`ChatConstants`): `TypeCorrect`, `AckedTaken`, `FailedTried`, `TasksKeepOn`.
`BatchInv` keeps a message from being twice in the batch of the retry loop, and so
from more than `MaxRetries` retries; `TriesInv` counts the write between a retry
that is on the air and its count; `RepliesInv` ties an acknowledgement under way
to a message the peer has. `TasksKeepOn` is inductive with `TypeOK`: a session on
a live connection has its receive task, and its retry loop until a write has found
the connection lost. `ChatSettles` rests on it.

`BridgesProofs`, for any sockets, chunks and size of the queue and whichever of
the three services are enabled (`BridgeConstants`): `NoSocketLeft` and
`ClientEnds` (the phone gone or too slow, or SIGTERM) from `SocketInv`, which
names the one socket that may be open for each place `d2r` can be at;
`PipesImplemented`, the refinement of `KissPipe` by both bridges: `RfData` and
`BleData` say what each bridge has in hand, and every step of a bridge is a step
of the pipe or leaves it alone; `RfcommInOrder` and `BleInOrder`, what that means
for the chunks and parts of chunks that Dire Wolf gets. About the launcher, for
any number of clients:

* `ModemIsOwed`: a TNC with neither modem has a script under way, or Xara's
  `OnFailure` unit, that starts one. It is inductive with the types.
* `PacketIsOwed`: Xara left on after the last session, against the operator's
  choice, is about to be stopped by a script. Its invariant is `LaunchInv`: `busy`
  belongs to one connection (`OneGranted`), a script about to start Xara has
  somebody who waits for it (`ScriptOwned`), and Xara runs for the operator, for a
  session that will switch back, or until a script stops it (`XaraOwed`). The
  property alone is not inductive: a session that ends would leave Xara on if it
  did not remember having switched.

`WebDisplayProofs`, for any requests, passwords, updates and number of saves
(`ConfigAssumption`): `SavesAreKept` and `GateHolds` from `ConfigInv` (every copy
of the settings is a configuration, file and cache agree while the service runs
but for the middle of a reload, and `web_app`'s own copy is the cache unless a
thread straddled a save), as long as nothing went `astray`; `Restored` from
`ProvInv`, which follows the root mount and the bridge through the steps: the
second remount comes whenever the first passed for a success, so a unit that
booted read-only ends read-only. About the display, for any number of power-offs,
setups, restarts and signals (`EventsAssumption`): `DisplayTypeCorrect`;
`PanelKnown` (`PanelTrue`), which needs `DarkenInv`, because `set_off(True)` says
that the panel is off before it is, and the Wi-Fi thread may come between;
`WakesOnly` (`OnlyWakes`), which needs `PressInv`: while a press that only wakes
is held, `_swallow` is set, whichever of the countdown, the setup screen and the
saver has looked at the buttons meanwhile. It is about one Display at a time.

Attempts at these proofs changed the models where they had said too much or too
little. `GateStays` was an invariant about the last request let in, which is not
kept by a later save that sets a password; it is now a property of the step that
lets a request in. The RMS of `RfLink` sent back without a window, which the code
does not. `Recoverable` needed the condition on repeated frames. `Lose` of
`KissPipe` let any chunk be lost; the bridges lose the oldest only, which says more.

The type invariants and `NoStaleRelay` are proved and not repeated in a run.

Only model-checked:

* liveness under fairness, which is outside the prover's reach: `HandlerReturns`,
  `SendEnds`, `SendingSettles`, `RmsReturns`, `NtpTakesOver`, `ChatSettles`,
  `SessionEnds`, `FoundAgain`, `ModemReturns`, `BackToPacket`, `CountdownShown`. Of
  `SendingSettles`, `ChatSettles`, `ModemReturns` and `BackToPacket` the safety is
  proved: whoever is to act is still there (`SendingIsOwned`, `TasksKeepOn`,
  `ModemIsOwed`, `PacketIsOwed`); that it does act is left to TLC;
* `Codec`, `Lzhuf` and `Ax25Kiss` (`RoundTrip`, `DamageSeen`, `FramesThrough`,
  `TreesSound`), which use RECURSIVE operators and bitwise operations and whose
  properties need induction over data.

## Not modelled

* The Telnet proxy: two copy loops that share no state with anything.
* The message builder, forms, templates, translations, B2F proposal lines, login
  prompts, APRS payloads and generated configurations: text, no state.
* The Dire Wolf client and hardware detection: thin wrappers of one call each.
* Wi-Fi mode, boot and installation scripts: sequences of system tools, run once.
* Drawing, feeds and their parsing in the display; its beacon's transmission.
* `notify_loop` of the BLE bridge, which only hands chunks to BlueZ; its class
  `BLEKISSBridge`, which the program does not use.
* The launcher's `Announcer` (a periodic broadcast) and the PTT helper.
* Scanning, listing, logs, update and other pages that only call a tool.
* The operator's own start and stop of the RMS service, and a `systemctl start`
  that fails, in `RadioInterlock`.

`PROJECT.json`, components, says so part by part.

## Plan

Done, in order of importance: RmsGateway and its proofs, RfLink, MailDelivery and
its proofs, RadioInterlock, AprsClock, AprsChat, Bridges with KissPipe, Codec,
WebService, Tft.

Proved since: the safety properties of RfLink, RadioInterlock, AprsClock, AprsChat,
Bridges (with the refinement of KissPipe and the safety of the launcher), WebService
and Tft.

Left:

1. What a second start of the chat can still rely on, so that `HandsBack` can be
   stated with a weaker condition than `OneStart`.
2. Type correctness of Bridges and WebService as theorems of their own; their
   invariants state the parts that the properties need. That of WebService would
   need an assumption on `Updates` that `validate_config_updates()` does not
   justify: it lets some settings through whatever their type.

An abstract specification still worth stating is a single-owner radio, which
RadioInterlock would implement but for the observations above.
