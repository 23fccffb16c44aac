----------------------------- MODULE RmsGateway -----------------------------
(***************************************************************************)
(* The RF side of the Winlink RMS gateway (src/rms/gateway.py).            *)
(*                                                                         *)
(* Two asyncio tasks share the Gateway object: the listener (_run_rf and   *)
(* the handle() it awaits for every frame) and the relay (cms_to_rf),      *)
(* which handle() creates once a CMS login succeeded.  A step of this      *)
(* specification is what one task does between two suspension points, so   *)
(* the tasks interleave exactly where the code awaits.  Frames on the air  *)
(* are unconstrained: any station may be heard sending any frame at any    *)
(* time, which covers lost, repeated, delayed and reordered frames.        *)
(***************************************************************************)
EXTENDS Integers, FiniteSets

CONSTANTS
  Stations,   \* callsigns that may call the gateway
  None,       \* Python's None where a callsign is expected
  Modulus,    \* sequence numbers are counted modulo this (8 in the code)
  MaxSabm,    \* bound: SABM frames the gateway accepts in one behaviour
  TxBlocks    \* may writer.drain() in tx() suspend the caller?

ASSUME GatewayConstants ==
  /\ None \notin Stations
  /\ Modulus \in Nat /\ Modulus > 2   \* a fresh window takes a 220-byte block
  /\ MaxSabm \in Nat
  /\ TxBlocks \in BOOLEAN

VARIABLES
  link,       \* self.link.remote, or None when self.link is None
  vs, vr, va, \* self.link's sequence variables (0 when there is no link)
  cms,        \* self.cms: 0 for None, or the number of the CmsSession
  call,       \* the station each CmsSession logs in (its remote_call)
  sess,       \* the state of each CmsSession's TCP stream
  hpc,        \* await point of the listener task
  hsrc,       \* source address of the frame in handle()
  rpc,        \* await point of the relay task
  rcms,       \* the session whose recv() the relay awaits or awaited last
  rleft,      \* frames of the block just received that are still unsent
  cancelled,  \* self.cms_task.cancel() was called and not yet delivered
  status,     \* state in the 'rms' runtime status file
  gen,        \* SABM frames accepted so far: numbers the CmsSessions
  sent,       \* history: <<session, station>> of every I-frame relayed to RF
  fwd         \* history: <<station, session>> of every payload sent to a CMS

seqs == <<vs, vr, va>>
hvars == <<hpc, hsrc>>
rvars == <<rpc, rcms, rleft, cancelled>>
history == <<gen, sent, fwd>>
vars == <<link, seqs, cms, call, sess, hvars, rvars, status, history>>

Seqs == 0 .. Modulus - 1
Gens == 1 .. MaxSabm
SessStates == {"unused", "login", "up", "eof", "closed"}
StatusStates == {"starting", "listening", "connecting_cms", "connected",
                 "cms_error", "kiss_error"}

\* Where the listener is suspended.  "reply" and "rr" follow a tx() after
\* which handle() returns, respectively forwards the payload to the CMS.
HandlePoints == {"kissDown", "idle", "reply", "ua", "cancel", "closeOld",
                 "login", "failDm", "failClose", "discUa", "discClose",
                 "rr", "fwd"}
TxPoints == {"reply", "ua", "failDm", "discUa", "rr"}
RelayPoints == {"done", "new", "recv", "window", "tx", "closing"}

\* The event loop is single threaded: when drain() does not suspend, nobody
\* else runs between a tx() and what its caller does next.
ListenerRuns == TxBlocks \/ rpc # "tx"
RelayRuns == (TxBlocks \/ hpc \notin TxPoints) /\ ~cancelled

TypeOK ==
  /\ link \in Stations \cup {None}
  /\ vs \in Seqs /\ vr \in Seqs /\ va \in Seqs
  /\ cms \in 0 .. MaxSabm
  /\ call \in [Gens -> Stations \cup {None}]
  /\ sess \in [Gens -> SessStates]
  /\ hpc \in HandlePoints
  /\ hsrc \in Stations \cup {None}
  /\ rpc \in RelayPoints
  /\ rcms \in 0 .. MaxSabm
  /\ rleft \in 0 .. 2
  /\ cancelled \in BOOLEAN
  /\ status \in StatusStates
  /\ gen \in 0 .. MaxSabm
  /\ sent \subseteq Gens \X Stations
  /\ fwd \subseteq Stations \X Gens

\* run() writes 'starting'; _run_rf then loops until Dire Wolf accepts.
Init ==
  /\ link = None /\ vs = 0 /\ vr = 0 /\ va = 0
  /\ cms = 0
  /\ call = [g \in Gens |-> None]
  /\ sess = [g \in Gens |-> "unused"]
  /\ hpc = "kissDown" /\ hsrc = None
  /\ rpc = "done" /\ rcms = 0 /\ rleft = 0 /\ cancelled = FALSE
  /\ status = "starting"
  /\ gen = 0 /\ sent = {} /\ fwd = {}

-----------------------------------------------------------------------------
(* CmsSession as the gateway uses it.                                      *)

\* CmsSession.close(): the caller then awaits wait_closed().
CloseCms == sess' = [sess EXCEPT ![cms] = "closed"]

\* The CMS, or the network on the way to it, ends an established stream.
CmsCloses(i) ==
  /\ sess[i] = "up"
  /\ sess' = [sess EXCEPT ![i] = "eof"]
  /\ UNCHANGED <<link, seqs, cms, call, hvars, rvars, status, history>>

\* (n + 1) & 7
NextSeq(n) == (n + 1) % Modulus

\* ((self.vs - self.va) & 7) >= 7
WindowFull == (vs - va) % Modulus >= Modulus - 1

-----------------------------------------------------------------------------
(* The listener: _run_rf and handle().                                     *)

\* open_connection() to Dire Wolf succeeded.  _run_rf slept 5 s before it: by
\* then a relay that can go on without the listener has done so.
RelayPending ==
  \/ rpc \in {"new", "tx", "closing"}
  \/ rpc = "recv" /\ sess[rcms] \in {"eof", "closed"}
  \/ rpc = "window" /\ ~(link # None /\ WindowFull)

KissUp ==
  /\ hpc = "kissDown" /\ ~RelayPending
  /\ hpc' = "idle" /\ status' = "listening"
  /\ UNCHANGED <<link, seqs, cms, call, sess, hsrc, rvars, history>>

\* The KISS stream ended while waiting for a frame, or tx() or cms.send()
\* raised inside handle(): the exception reaches _run_rf, which reports it
\* and reconnects.  self.link, self.cms and the relay are left as they are.
KissError ==
  /\ hpc \in TxPoints \cup {"idle", "fwd"} /\ ListenerRuns
  /\ hpc' = "kissDown" /\ status' = "kiss_error"
  /\ UNCHANGED <<link, seqs, cms, call, sess, hsrc, rvars, history>>

\* Faulty variant of BusyWithOther: nobody is ever refused.
BusyWithNobody(src) == FALSE

\* _busy_with_other(src)
BusyWithOther(src) == cms # 0 /\ link # src

HandleSabmBusy(src) ==
  /\ hpc = "idle" /\ ListenerRuns
  /\ BusyWithOther(src)
  /\ hpc' = "reply" /\ hsrc' = src
  /\ UNCHANGED <<link, seqs, cms, call, sess, rvars, status, history>>

HandleSabm(src) ==
  /\ hpc = "idle" /\ ListenerRuns
  /\ ~BusyWithOther(src)
  /\ gen < MaxSabm
  /\ gen' = gen + 1
  /\ link' = src /\ vs' = 0 /\ vr' = 0 /\ va' = 0
  /\ hpc' = "ua" /\ hsrc' = src
  /\ UNCHANGED <<cms, call, sess, rvars, status, sent, fwd>>

\* Faulty variant of StaleRelay: an earlier relay is never cancelled.
NeverStale == FALSE

\* self.cms_task and not self.cms_task.done()
StaleRelay == rpc # "done"

\* self.cms = CmsSession(...); await self.cms.connect()
OpenCms ==
  /\ cms' = gen
  /\ call' = [call EXCEPT ![gen] = hsrc]
  /\ sess' = [sess EXCEPT ![gen] = "login"]
  /\ hpc' = "login"

\* Faulty variant of ReplaceCms: the previous CMS socket is forgotten.
ReplaceWithoutClose == OpenCms

\* if self.cms: await self.cms.close(); then open the new session.
ReplaceCms ==
  \/ cms # 0 /\ CloseCms /\ hpc' = "closeOld" /\ UNCHANGED <<cms, call>>
  \/ cms = 0 /\ OpenCms

\* UA sent: write the status, then _start_new_session() up to its first
\* await.  Cancelling only asks: the relay ends when it is next scheduled.
UaSent ==
  /\ hpc = "ua" /\ ListenerRuns
  /\ status' = "connecting_cms"
  /\ \/ StaleRelay /\ cancelled' = TRUE /\ hpc' = "cancel"
        /\ UNCHANGED <<cms, call, sess>>
     \/ ~StaleRelay /\ ReplaceCms /\ UNCHANGED cancelled
  /\ UNCHANGED <<link, seqs, hsrc, rpc, rcms, rleft, history>>

\* await self.cms_task returned.
StaleRelayEnded ==
  /\ hpc = "cancel" /\ rpc = "done"
  /\ ReplaceCms
  /\ UNCHANGED <<link, seqs, hsrc, rvars, status, history>>

OldCmsClosed ==
  /\ hpc = "closeOld" /\ ListenerRuns
  /\ OpenCms
  /\ UNCHANGED <<link, seqs, hsrc, rvars, status, history>>

\* connect() returned: handle() creates the relay task and returns.
LoginOk ==
  /\ hpc = "login" /\ ListenerRuns
  /\ sess' = [sess EXCEPT ![cms] = "up"]
  /\ status' = "connected"
  /\ rpc' = "new" /\ rcms' = cms /\ rleft' = 0 /\ cancelled' = FALSE
  /\ hpc' = "idle"
  /\ UNCHANGED <<link, seqs, cms, call, hsrc, history>>

\* connect() raised (refused, 20 s timeout, closed during login).
LoginFail ==
  /\ hpc = "login" /\ ListenerRuns
  /\ sess' = [sess EXCEPT ![cms] = "eof"]
  /\ status' = "cms_error"
  /\ hpc' = "failDm"
  /\ UNCHANGED <<link, seqs, cms, call, hsrc, rvars, history>>

HandleDisc(src) ==
  /\ hpc = "idle" /\ ListenerRuns
  /\ link = src
  /\ hpc' = "discUa" /\ hsrc' = src
  /\ UNCHANGED <<link, seqs, cms, call, sess, rvars, status, history>>

\* The assignments of close_session() once the CMS socket is closed.
ForgetSession ==
  /\ link' = None /\ vs' = 0 /\ vr' = 0 /\ va' = 0
  /\ cms' = 0 /\ status' = "listening"

\* close_session() called by handle(), after DM or after UA to a DISC.
HandleCloses ==
  /\ hpc \in {"failDm", "discUa"} /\ ListenerRuns
  /\ \/ /\ cms # 0 /\ CloseCms
        /\ hpc' = IF hpc = "failDm" THEN "failClose" ELSE "discClose"
        /\ UNCHANGED <<link, seqs, cms, status>>
     \/ cms = 0 /\ ForgetSession /\ hpc' = "idle" /\ UNCHANGED sess
  /\ UNCHANGED <<call, hsrc, rvars, history>>

HandleClosed ==
  /\ hpc \in {"failClose", "discClose"} /\ ListenerRuns
  /\ ForgetSession
  /\ hpc' = "idle"
  /\ UNCHANGED <<call, sess, hsrc, rvars, history>>

\* Faulty variant of FromPeer: frames of a third station are accepted.
FromAnyone(src) == link # None

\* The guard of every frame but SABM: there is a link and src is its peer.
FromPeer(src) == link = src

HandleS(src, nr) ==
  /\ hpc = "idle" /\ ListenerRuns
  /\ FromPeer(src)
  /\ va' = nr
  /\ UNCHANGED <<link, vs, vr, cms, call, sess, hvars, rvars, status, history>>

\* An I-frame: acknowledged either way, taken when it is the one expected.
HandleI(src, ns, nr, payload) ==
  /\ hpc = "idle" /\ ListenerRuns
  /\ FromPeer(src)
  /\ va' = nr
  /\ vr' = IF ns = vr THEN NextSeq(vr) ELSE vr
  /\ hpc' = IF ns = vr /\ payload THEN "rr" ELSE "reply"
  /\ hsrc' = src
  /\ UNCHANGED <<link, vs, cms, call, sess, rvars, status, history>>

\* if self.cms and payload: await self.cms.send(payload)
ForwardToCms ==
  /\ hpc = "rr" /\ ListenerRuns
  /\ \/ cms # 0 /\ fwd' = fwd \cup {<<hsrc, cms>>} /\ hpc' = "fwd"
     \/ cms = 0 /\ hpc' = "idle" /\ UNCHANGED fwd
  /\ UNCHANGED <<link, seqs, cms, call, sess, hsrc, rvars, status, gen, sent>>

\* The last await of handle() returned.
HandleReturns ==
  /\ hpc \in {"reply", "fwd"} /\ ListenerRuns
  /\ hpc' = "idle"
  /\ UNCHANGED <<link, seqs, cms, call, sess, hsrc, rvars, status, history>>

-----------------------------------------------------------------------------
(* The relay: cms_to_rf().                                                 *)

\* finally: await self.close_session().
\* st is the status written before it by the except clause, if any.
Finally(st) ==
  /\ \/ cms # 0 /\ CloseCms /\ rpc' = "closing" /\ status' = st
        /\ UNCHANGED <<link, seqs, cms>>
     \/ cms = 0 /\ ForgetSession /\ rpc' = "done" /\ UNCHANGED sess
  /\ rleft' = 0
  /\ UNCHANGED <<rcms, sent>>

\* while self.link and self.cms: data = await self.cms.recv(220)
LoopTop ==
  \/ /\ link # None /\ cms # 0
     /\ rpc' = "recv" /\ rcms' = cms /\ rleft' = 0
     /\ UNCHANGED <<link, seqs, cms, sess, status, sent>>
  \/ /\ ~(link # None /\ cms # 0)
     /\ Finally(status)

\* One round of the for loop with n frames of the block left to send: break
\* when the link is gone, sleep while the window is full, else transmit.
SendNext(n) ==
  \/ link = None /\ LoopTop
  \/ /\ link # None /\ WindowFull
     /\ rpc' = "window" /\ rleft' = n
     /\ UNCHANGED <<link, seqs, cms, sess, rcms, status, sent>>
  \/ /\ link # None /\ ~WindowFull
     /\ vs' = NextSeq(vs)
     /\ sent' = IF hpc = "kissDown" THEN sent
                ELSE sent \cup {<<rcms, link>>}
     /\ rpc' = "tx" /\ rleft' = n - 1
     /\ UNCHANGED <<link, vr, va, cms, sess, rcms, status>>

RelayUnchanged == UNCHANGED <<call, hvars, cancelled, gen, fwd>>

RelayStart ==
  /\ rpc = "new" /\ RelayRuns
  /\ LoopTop
  /\ RelayUnchanged

\* recv(220) returned data: one or two 200-byte frames.
RelayData ==
  /\ rpc = "recv" /\ RelayRuns
  /\ \E n \in 1 .. 2 : SendNext(n)
  /\ RelayUnchanged

\* recv() returned b'': the CMS ended the stream or the socket was closed.
RelayEof ==
  /\ rpc = "recv" /\ RelayRuns
  /\ sess[rcms] \in {"eof", "closed"}
  /\ Finally(status)
  /\ RelayUnchanged

\* recv() or tx() raised: the except clause writes the status.
RelayError ==
  /\ rpc \in {"recv", "tx"} /\ RelayRuns
  /\ Finally("cms_error")
  /\ RelayUnchanged

\* sleep(0.05) ended.
RelayWakes ==
  /\ rpc = "window" /\ RelayRuns
  /\ SendNext(rleft)
  /\ RelayUnchanged

RelayTxDone ==
  /\ rpc = "tx" /\ RelayRuns
  /\ \/ rleft > 0 /\ SendNext(rleft)
     \/ rleft = 0 /\ LoopTop
  /\ RelayUnchanged

\* wait_closed() returned in the relay's close_session().
RelayClosed ==
  /\ rpc = "closing" /\ RelayRuns
  /\ ForgetSession
  /\ rpc' = "done"
  /\ UNCHANGED <<sess, rcms, rleft, sent>>
  /\ RelayUnchanged

\* Faulty variant of RelayCancelled: the relay swallows the cancellation.
RelayIgnoresCancel ==
  /\ cancelled
  /\ cancelled' = FALSE
  /\ UNCHANGED <<link, seqs, cms, call, sess, hvars, rpc, rcms, rleft, status, history>>

\* CancelledError is raised at the relay's await.  A task that never ran
\* ends at once; one inside the try runs the finally clause; one already in
\* close_session() leaves it before its assignments, because the
\* "except Exception" of CmsSession.close() does not catch CancelledError.
RelayCancelled ==
  /\ cancelled
  /\ cancelled' = FALSE
  /\ \/ rpc \in {"new", "closing"} /\ rpc' = "done" /\ rleft' = 0
        /\ UNCHANGED <<link, seqs, cms, sess, rcms, status, sent>>
     \/ rpc \in {"recv", "window", "tx"} /\ Finally(status)
  /\ UNCHANGED <<call, hvars, gen, fwd>>

-----------------------------------------------------------------------------
HandleFrame ==
  \E src \in Stations :
    \/ HandleSabmBusy(src)
    \/ HandleSabm(src)
    \/ HandleDisc(src)
    \/ \E nr \in Seqs : HandleS(src, nr)
    \/ \E ns, nr \in Seqs, payload \in BOOLEAN : HandleI(src, ns, nr, payload)

\* What handle() does by itself once it has been given a frame.
HandleStep ==
  \/ UaSent \/ StaleRelayEnded \/ OldCmsClosed \/ LoginOk \/ LoginFail
  \/ HandleCloses \/ HandleClosed \/ ForwardToCms \/ HandleReturns

RelayStep ==
  \/ RelayStart \/ RelayData \/ RelayEof \/ RelayError \/ RelayWakes
  \/ RelayTxDone \/ RelayClosed \/ RelayCancelled

CmsStep == \E i \in Gens : CmsCloses(i)

Next == KissUp \/ KissError \/ HandleFrame \/ HandleStep \/ RelayStep \/ CmsStep

Spec == Init /\ [][Next]_vars

\* The event loop runs every task that can run.  Nothing is assumed of the
\* stations, of the CMS, or of data arriving from it.
Fairness ==
  /\ WF_vars(HandleStep)
  /\ WF_vars(RelayStart \/ RelayWakes \/ RelayTxDone \/ RelayClosed \/ RelayCancelled)
  /\ WF_vars(RelayEof)

FairSpec == Spec /\ Fairness

-----------------------------------------------------------------------------
(* Properties.                                                             *)

\* A payload taken from a station's I-frame is only ever written to a CMS
\* session logged in for that station: handle() reads self.cms after awaiting
\* the RR, when the relay may have closed it.
ForwardToOwnSession == \A p \in fwd : call[p[2]] = p[1]

\* Bytes read from a CMS session only ever go out to the station it was opened
\* for: cms_to_rf() reads self.link afresh after every await, and a SABM
\* replaces self.link before the old relay is cancelled.
NoCrossTalk == \A p \in sent : call[p[1]] = p[2]

\* No CMS socket is lost while open: every session but the current one is
\* closed, whatever order SABM, DISC, login failures and relay exits come in.
NoLeakedCms == \A i \in Gens \ {cms} : sess[i] \in {"unused", "closed"}

\* The re-SABM fix: while handle() opens a session no earlier relay is alive,
\* so two coroutines never read one CMS stream.
NoStaleRelay ==
  hpc \in {"closeOld", "login", "failDm", "failClose"} => rpc = "done"

\* One station's SABM never tears down or takes over another station's CMS
\* session, and frames of the linked station reach no other's session.
SessionOfCaller ==
  /\ cms # 0 /\ hpc \in {"ua", "cancel", "closeOld", "login"}
       => call[cms] = hsrc
  /\ cms # 0 /\ link # None => call[cms] = link

\* Every frame handed to handle() is finished with, so the listener goes back
\* to reading frames: awaiting the cancelled relay never blocks it.
HandlerReturns == (hpc = "cancel") ~> (hpc \in {"idle", "kissDown"})

\* When handle() has accepted a SABM, logged in and created the relay, the
\* link it answered UA for is still there to relay to.
SessionHasLink ==
  [][rpc = "done" /\ rpc' = "new" => link' = hsrc]_vars

=============================================================================
