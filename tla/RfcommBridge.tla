---------------------------- MODULE RfcommBridge ----------------------------
(***************************************************************************)
(* The RFCOMM bridge (src/rfcomm/rfcomm_bridge.py): one phone at a time,   *)
(* a thread for each direction, and a connection to Dire Wolf that the     *)
(* reading thread replaces when it breaks.  The main thread accepts, makes *)
(* the first connection and joins the two; SIGTERM runs stop() in it.      *)
(*                                                                         *)
(* A socket is a number, free again once it is closed and no thread holds  *)
(* it.  The lock only makes reads and writes of the holder atomic.         *)
(***************************************************************************)
EXTENDS Integers, Sequences

CONSTANTS
  Sockets,   \* numbers for the connections to Dire Wolf
  MaxData    \* bound: chunks the phone writes

VARIABLES
  dw,        \* Dire Wolf accepts connections
  main,      \* the main thread: "listen", "connect", "run", "ended"
  running,   \* self._running
  client,    \* the phone: "none", "on", "gone"
  stop,      \* the session's stop_event
  slow,      \* history: a write to this session's phone took longer than 1 s
  holder,    \* dw_sock_holder[0], 0 for None
  open,      \* sockets not closed
  alive,     \* those Dire Wolf has at its end
  rpc,       \* r2d: "done", "recv", "hold" (has data), "send" (has a socket)
  rsock,     \* r2d's s
  rdata,     \* r2d's data, 0 for none
  dpc,       \* d2r: "done", "top", "recv", "lost", "clear", "reconn", "store"
  dsock,     \* d2r's s or new_s
  written,   \* chunks the phone has written so far
  got,       \* chunks Dire Wolf was handed whole
  torn       \* the chunk Dire Wolf was last handed a part of, 0 once it has
             \* been handed a whole one since

sockVars == <<holder, open, alive>>
r2dVars == <<rpc, rsock, rdata, written, got, torn>>
d2rVars == <<dpc, dsock>>
vars == <<dw, main, running, client, stop, slow, sockVars, r2dVars, d2rVars>>

Init(enabled) ==
  /\ main = (IF enabled THEN "listen" ELSE "ended")
  /\ running = enabled /\ client = "none" /\ stop = FALSE /\ slow = FALSE
  /\ holder = 0 /\ open = {} /\ alive = {}
  /\ rpc = "done" /\ rsock = 0 /\ rdata = 0
  /\ dpc = "done" /\ dsock = 0
  /\ written = 0 /\ got = <<>> /\ torn = 0

-----------------------------------------------------------------------------
(* The phone and Dire Wolf                                                 *)

ClientLeaves ==
  /\ client = "on"
  /\ client' = "gone"
  /\ UNCHANGED <<dw, main, running, stop, slow, sockVars, r2dVars, d2rVars>>

\* Dire Wolf ends: its ends of the connections are closed.
DireWolfEnds == alive' = {} /\ UNCHANGED <<main, running, client, stop, slow, holder, open, r2dVars, d2rVars>>

Free == Sockets \ (open \cup {holder, rsock, dsock})

\* create_connection(), which returns socket s
Connects(s) ==
  /\ dw /\ s \in Free /\ \A t \in Free : s <= t
  /\ open' = open \cup {s} /\ alive' = alive \cup {s}

Close(s) == open' = open \ {s} /\ alive' = alive \ {s}

-----------------------------------------------------------------------------
(* The main thread                                                         *)

Accept ==
  /\ main = "listen" /\ running
  /\ main' = "connect" /\ client' = "on" /\ stop' = FALSE /\ slow' = FALSE /\ holder' = 0
  /\ UNCHANGED <<dw, running, open, alive, r2dVars, d2rVars>>

\* The first connection.  stop_event is looked at before an attempt, not
\* after it.
FirstConnect ==
  /\ main = "connect"
  /\ \E s \in Sockets : Connects(s) /\ holder' = s
  /\ main' = "run" /\ rpc' = "recv" /\ dpc' = "top"
  /\ UNCHANGED <<dw, running, client, stop, slow, rsock, rdata, written, got, torn, dsock>>

ConnectGivesUp ==
  /\ main = "connect" /\ stop
  /\ main' = "listen" /\ client' = "none"
  /\ UNCHANGED <<dw, running, stop, slow, sockVars, r2dVars, d2rVars>>

\* Faulty variant of Join: the last connection is left to the next session.
JoinKeepsSocket ==
  /\ main = "run" /\ rpc = "done" /\ dpc = "done"
  /\ main' = "listen" /\ client' = "none"
  /\ UNCHANGED <<dw, running, stop, slow, sockVars, r2dVars, d2rVars>>

\* Both threads are joined; the holder's socket and the phone's are closed.
Join ==
  /\ main = "run" /\ rpc = "done" /\ dpc = "done"
  /\ Close(holder)
  /\ main' = "listen" /\ client' = "none"
  /\ UNCHANGED <<dw, running, stop, slow, holder, r2dVars, d2rVars>>

Ends ==
  /\ main = "listen" /\ ~running
  /\ main' = "ended"
  /\ UNCHANGED <<dw, running, client, stop, slow, sockVars, r2dVars, d2rVars>>

\* stop() and _cleanup(), in the middle of whatever the main thread does.
SigTerm ==
  /\ running
  /\ running' = FALSE /\ stop' = TRUE
  /\ Close(holder)
  /\ client' = IF client = "on" THEN "gone" ELSE client
  /\ UNCHANGED <<dw, main, slow, holder, r2dVars, d2rVars>>

-----------------------------------------------------------------------------
(* r2d: from the phone to Dire Wolf                                        *)

R2dData ==
  /\ rpc = "recv" /\ ~stop /\ client = "on" /\ written < MaxData
  /\ written' = written + 1 /\ rdata' = written + 1 /\ rpc' = "hold"
  /\ UNCHANGED <<dw, main, running, client, stop, slow, sockVars, rsock, got, torn, d2rVars>>

\* Faulty variant of R2dEnds: only the other thread may set stop_event.
R2dEndsQuietly ==
  /\ \/ rpc = "recv" /\ client = "gone"
     \/ rpc \in {"recv", "hold"} /\ stop
  /\ rpc' = "done" /\ rsock' = 0 /\ rdata' = 0
  /\ UNCHANGED <<dw, main, running, client, stop, slow, sockVars, written, got, torn, d2rVars>>

\* The phone is gone, or the session is being stopped.
R2dEnds ==
  /\ \/ rpc = "recv" /\ client = "gone"
     \/ rpc \in {"recv", "hold"} /\ stop
  /\ rpc' = "done" /\ rsock' = 0 /\ rdata' = 0
  /\ stop' = TRUE
  /\ UNCHANGED <<dw, main, running, client, slow, sockVars, written, got, torn, d2rVars>>

R2dPicks ==
  /\ rpc = "hold" /\ ~stop /\ holder # 0
  /\ rsock' = holder /\ rpc' = "send"
  /\ UNCHANGED <<dw, main, running, client, stop, slow, sockVars, rdata, written, got, torn, d2rVars>>

\* sendall() returns.  Behind a Dire Wolf that has gone the chunk is lost.
R2dSent ==
  /\ rpc = "send" /\ rsock \in open
  /\ IF rsock \in alive THEN got' = Append(got, rdata) /\ torn' = 0 ELSE UNCHANGED <<got, torn>>
  /\ rpc' = "recv" /\ rsock' = 0 /\ rdata' = 0
  /\ UNCHANGED <<dw, main, running, client, stop, slow, sockVars, written, d2rVars>>

\* Faulty variant of R2dRetries: the chunk is counted as sent and tried again.
R2dRetriesSent ==
  /\ rpc = "send"
  /\ got' = IF rsock \in alive THEN Append(got, rdata) ELSE got
  /\ rpc' = "hold" /\ rsock' = 0
  /\ UNCHANGED <<dw, main, running, client, stop, slow, sockVars, rdata, written, torn, d2rVars>>

\* sendall() raises, closed, broken or after its 1 s, short of the whole chunk:
\* Dire Wolf may have been handed a part of it.  The same chunk is tried again,
\* from its beginning and on the socket that is current then.
R2dRetries ==
  /\ rpc = "send"
  /\ rpc' = "hold" /\ rsock' = 0
  /\ \/ UNCHANGED torn
     \/ rsock \in alive /\ torn' = rdata
  /\ UNCHANGED <<dw, main, running, client, stop, slow, sockVars, rdata, written, got, d2rVars>>

-----------------------------------------------------------------------------
(* d2r: from Dire Wolf to the phone                                        *)

D2rTop ==
  /\ dpc = "top"
  /\ \/ stop /\ dpc' = "done" /\ dsock' = 0
     \/ ~stop /\ holder # 0 /\ dpc' = "recv" /\ dsock' = holder
  /\ UNCHANGED <<dw, main, running, client, stop, slow, sockVars, r2dVars>>

\* A timeout, or data that is passed on to the phone: a write that fails ends
\* the session, because the phone has gone or because a phone that is still
\* there does not take the data within the 1 s of client_sock's timeout.
D2rPasses ==
  /\ dpc = "recv" /\ dsock \in open
  /\ \/ dpc' = "top" /\ UNCHANGED <<stop, slow, dsock>>
     \/ /\ dsock \in alive /\ client \in {"on", "gone"}
        /\ stop' = TRUE /\ slow' = (client = "on")
        /\ dpc' = "done" /\ dsock' = 0
  /\ UNCHANGED <<dw, main, running, client, sockVars, r2dVars>>

\* Faulty variant of D2rEof: a lost Dire Wolf ends the session.
D2rEofEndsSession ==
  /\ dpc = "recv" /\ dsock \notin alive
  /\ dpc' = "done" /\ dsock' = 0 /\ stop' = TRUE
  /\ UNCHANGED <<dw, main, running, client, slow, sockVars, r2dVars>>

\* An empty read or an error.
D2rEof ==
  /\ dpc = "recv" /\ dsock \notin alive
  /\ \/ stop /\ dpc' = "done" /\ dsock' = 0
     \/ ~stop /\ dpc' = "lost" /\ UNCHANGED dsock
  /\ UNCHANGED <<dw, main, running, client, stop, slow, sockVars, r2dVars>>

D2rCloses ==
  /\ dpc = "lost"
  /\ Close(dsock)
  /\ dpc' = "clear"
  /\ UNCHANGED <<dw, main, running, client, stop, slow, holder, r2dVars, dsock>>

D2rClears ==
  /\ dpc = "clear"
  /\ holder' = 0 /\ dpc' = "reconn" /\ dsock' = 0
  /\ UNCHANGED <<dw, main, running, client, stop, slow, open, alive, r2dVars>>

\* connect_dw()
D2rReconnects ==
  /\ dpc = "reconn"
  /\ \E s \in Sockets : Connects(s) /\ dsock' = s
  /\ dpc' = "store"
  /\ UNCHANGED <<dw, main, running, client, stop, slow, holder, r2dVars>>

D2rGivesUp ==
  /\ dpc = "reconn" /\ stop
  /\ dpc' = "done"
  /\ UNCHANGED <<dw, main, running, client, stop, slow, sockVars, r2dVars, dsock>>

D2rStores ==
  /\ dpc = "store"
  /\ holder' = dsock /\ dpc' = "top" /\ dsock' = 0
  /\ UNCHANGED <<dw, main, running, client, stop, slow, open, alive, r2dVars>>

-----------------------------------------------------------------------------
MainStep == FirstConnect \/ ConnectGivesUp \/ Join \/ Ends
R2dStep == R2dEnds \/ R2dPicks \/ R2dSent \/ R2dRetries
D2rStep ==
  \/ D2rTop \/ D2rPasses \/ D2rEof \/ D2rCloses \/ D2rClears
  \/ D2rReconnects \/ D2rGivesUp \/ D2rStores

Next == ClientLeaves \/ Accept \/ SigTerm \/ MainStep \/ R2dData \/ R2dStep \/ D2rStep

-----------------------------------------------------------------------------
(* Properties.                                                             *)

\* The way to Dire Wolf as KissPipe sees it: r2d holds one chunk at most.
Pipe == INSTANCE KissPipe WITH
  Chunks <- 1..MaxData,
  pending <- IF rdata = 0 THEN <<>> ELSE <<rdata>>,
  delivered <- got,
  torn <- torn

\* Between sessions, and after the bridge has ended, no connection to Dire
\* Wolf is left open, whichever thread was replacing it when the phone left
\* or SIGTERM came.
NoSocketLeaked == main \in {"listen", "ended"} => open = {}

\* "Only an RFCOMM-side disconnect ends the session": a restart of Dire Wolf
\* at any point of it does not.  The phone leaving does, SIGTERM (which closes
\* the phone's socket), and a phone too slow to take what Dire Wolf sends it.
OnlyClientEnds == stop /\ main # "listen" => client = "gone" \/ ~running \/ slow

=============================================================================
