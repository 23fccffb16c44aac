-------------------------- MODULE RmsGatewayProofs --------------------------
(***************************************************************************)
(* Invariance proofs for RmsGateway, for any set of stations, any modulus  *)
(* above 2, any number of accepted SABMs, and whether or not drain()       *)
(* suspends (NoCrossTalk only when it does not).                           *)
(***************************************************************************)
EXTENDS RmsGateway, TLAPS

Opening == {"ua", "cancel", "closeOld"}

\* CmsSessions are numbered by the SABM that opened them: the number of the
\* SABM being served is still free until OpenCms.
Numbering ==
  /\ cms <= gen
  /\ \A i \in Gens : i > gen => sess[i] = "unused"
  /\ hpc \in Opening =>
       gen > 0 /\ cms < gen /\ rcms < gen /\ sess[gen] = "unused"
  /\ hpc \in {"login", "failDm", "failClose"} => cms = gen /\ gen > 0
  /\ hpc \in Opening \cup {"login", "failDm", "rr"} => hsrc \in Stations
  /\ cms # 0 => sess[cms] # "unused"

\* A live relay works for the current session, or for one already forgotten.
RelaySession ==
  /\ rcms <= gen
  /\ rpc # "done" => rcms # 0 /\ sess[rcms] # "unused" /\ cms \in {0, rcms}
  /\ rpc = "window" => rleft > 0

\* Whoever awaits wait_closed() awaits it on a socket already closed.
ClosingCms ==
  cms # 0 /\ (hpc \in {"closeOld", "failClose", "discClose"} \/ rpc = "closing")
    => sess[cms] = "closed"

\* Whose session self.cms is.
Ownership ==
  /\ cms # 0 /\ link # None => call[cms] = link
  /\ cms # 0 /\ hpc \in Opening \cup {"login", "rr"} => call[cms] = hsrc
  /\ hpc \in Opening \cup {"login"} => link \in {None, hsrc}

\* History pairs only name sessions that have been opened.
Forwarded ==
  \A p \in fwd : call[p[2]] = p[1] /\ sess[p[2]] # "unused"

IInv ==
  TypeOK /\ NoStaleRelay /\ NoLeakedCms /\ Numbering /\ RelaySession
    /\ ClosingCms /\ Ownership /\ Forwarded

-----------------------------------------------------------------------------
\* Only for drain() that never suspends: a relay whose session is not the
\* linked station's cannot put a frame on the air.  The listener has either
\* just answered the new station (the relay does not run), asked for the
\* relay's cancellation, or lost the KISS stream.  In the last case the relay
\* still has a fresh window for the at most two frames it holds, so it ends
\* before the stream is back.
Foreign == rpc \notin {"done", "closing"} /\ link # None /\ call[rcms] # link

ForeignRelay ==
  /\ cancelled => hpc = "cancel" /\ rpc # "done"
  /\ hpc = "cancel" => cancelled \/ rpc \in {"closing", "done"}
  /\ rpc \in {"new", "recv"} => rleft = 0
  /\ Foreign => hpc \in {"ua", "cancel", "kissDown"}
  /\ Foreign /\ hpc \in {"ua", "kissDown"} =>
       /\ va = 0 /\ vs + rleft <= 2
       /\ rpc \in {"new", "recv"} => vs = 0

Relayed ==
  \A p \in sent : call[p[1]] = p[2] /\ sess[p[1]] # "unused"

XInv == IInv /\ ForeignRelay /\ Relayed

-----------------------------------------------------------------------------
\* Masking keeps a counter in range.
LEMMA NextSeqType == ASSUME NEW n \in Seqs PROVE NextSeq(n) \in Seqs
  BY GatewayConstants DEF NextSeq, Seqs

\* A counter is its own remainder.
LEMMA SmallMod == ASSUME NEW n \in Seqs PROVE n % Modulus = n
  BY GatewayConstants DEF Seqs

\* The initial state satisfies the inductive invariants.
LEMMA InitIInv == Init => XInv
<1> SUFFICES ASSUME Init PROVE XInv
  OBVIOUS
<1> USE GatewayConstants DEF Init, Gens, Opening
<1>0. cancelled \in BOOLEAN
  BY Zenon
<1>1. TypeOK
  BY <1>0 DEF TypeOK, Seqs, SessStates, StatusStates, HandlePoints, RelayPoints
<1>2. NoStaleRelay /\ NoLeakedCms /\ Numbering
  BY DEF NoStaleRelay, NoLeakedCms, Numbering
<1>3. RelaySession /\ ClosingCms /\ Ownership /\ Forwarded
  BY DEF RelaySession, ClosingCms, Ownership, Forwarded
<1>4. ForeignRelay /\ Relayed
  BY DEF ForeignRelay, Foreign, Relayed
<1> QED
  BY <1>1, <1>2, <1>3, <1>4 DEF XInv, IInv

\* What every step of the listener leaves well typed.
LEMMA ListenerType ==
  ASSUME IInv, KissUp \/ KissError \/ HandleFrame \/ HandleStep
  PROVE  TypeOK'
<1> USE GatewayConstants, NextSeqType
        DEF IInv, TypeOK, Seqs, Gens, SessStates, StatusStates, HandlePoints, RelayPoints,
            seqs, hvars, rvars, history
<1>1. CASE KissUp
  BY <1>1 DEF KissUp
<1>2. CASE KissError
  BY <1>2 DEF KissError
<1>3. ASSUME NEW src \in Stations, HandleSabmBusy(src) PROVE TypeOK'
  BY <1>3 DEF HandleSabmBusy
<1>4. ASSUME NEW src \in Stations, HandleSabm(src) PROVE TypeOK'
  BY <1>4 DEF HandleSabm
<1>5. ASSUME NEW src \in Stations, HandleDisc(src) PROVE TypeOK'
  BY <1>5 DEF HandleDisc
<1>6. ASSUME NEW src \in Stations, NEW nr \in Seqs, HandleS(src, nr) PROVE TypeOK'
  BY <1>6 DEF HandleS
<1>7. ASSUME NEW src \in Stations, NEW ns \in Seqs, NEW nr \in Seqs,
             NEW payload \in BOOLEAN, HandleI(src, ns, nr, payload)
      PROVE  TypeOK'
  BY <1>7 DEF HandleI
<1>8. CASE UaSent
  <2>1. cancelled' \in BOOLEAN
    BY <1>8, Zenon DEF UaSent
  <2>2. cms' \in 0..MaxSabm /\ call' \in [Gens -> Stations \cup {None}]
        /\ sess' \in [Gens -> SessStates] /\ hpc' \in HandlePoints
    <3>1. CASE ReplaceCms
      BY <1>8, <3>1 DEF UaSent, ReplaceCms, OpenCms, CloseCms, Numbering, Opening
    <3>2. CASE hpc' = "cancel" /\ UNCHANGED <<cms, call, sess>>
      BY <3>2
    <3> QED
      BY <1>8, <3>1, <3>2 DEF UaSent
  <2> QED
    BY <1>8, <2>1, <2>2 DEF UaSent
<1>9. CASE StaleRelayEnded
  BY <1>9 DEF StaleRelayEnded, ReplaceCms, OpenCms, CloseCms, Numbering, Opening
<1>10. CASE OldCmsClosed
  BY <1>10 DEF OldCmsClosed, OpenCms, Numbering, Opening
<1>11. CASE LoginOk
  <2>1. sess' \in [Gens -> SessStates]
    BY <1>11 DEF LoginOk
  <2>2. cancelled' \in BOOLEAN
    BY <1>11, Zenon DEF LoginOk
  <2> QED
    BY <1>11, <2>1, <2>2 DEF LoginOk
<1>12. CASE LoginFail
  BY <1>12 DEF LoginFail
<1>13. CASE HandleCloses
  <2>1. CASE cms # 0
    BY <1>13, <2>1 DEF HandleCloses, CloseCms
  <2>2. CASE cms = 0
    BY <1>13, <2>2 DEF HandleCloses, ForgetSession
  <2> QED
    BY <2>1, <2>2
<1>14. CASE HandleClosed
  BY <1>14 DEF HandleClosed, ForgetSession
<1>15. CASE ForwardToCms
  BY <1>15 DEF ForwardToCms, Numbering
<1>16. CASE HandleReturns
  BY <1>16 DEF HandleReturns
<1> HIDE DEF IInv, TypeOK
<1> QED
  BY <1>1, <1>2, <1>3, <1>4, <1>5, <1>6, <1>7, <1>8, <1>9, <1>10, <1>11, <1>12,
     <1>13, <1>14, <1>15, <1>16 DEF HandleFrame, HandleStep

\* What every step of the listener preserves.
LEMMA ListenerIInv ==
  ASSUME IInv, KissUp \/ KissError \/ HandleFrame \/ HandleStep
  PROVE  IInv'
<1> DEFINE Rest == NoStaleRelay /\ NoLeakedCms /\ Numbering /\ RelaySession
                     /\ ClosingCms /\ Ownership /\ Forwarded
<1> USE GatewayConstants DEF IInv, TypeOK, NoStaleRelay, NoLeakedCms, Numbering,
        RelaySession, ClosingCms, Ownership, Forwarded, Opening, Gens, seqs, hvars, rvars, history
<1>1. ASSUME KissUp PROVE Rest'
  BY <1>1 DEF KissUp
<1>2. ASSUME KissError PROVE Rest'
  BY <1>2 DEF KissError, TxPoints
<1>3. ASSUME NEW src \in Stations, HandleSabmBusy(src)
      PROVE  Rest'
  BY <1>3 DEF HandleSabmBusy
<1>4. ASSUME NEW src \in Stations, HandleSabm(src)
      PROVE  Rest'
  BY <1>4 DEF HandleSabm, BusyWithOther
<1>5. ASSUME NEW src \in Stations, HandleDisc(src)
      PROVE  Rest'
  BY <1>5 DEF HandleDisc
<1>6. ASSUME NEW src \in Stations, NEW nr \in Seqs, HandleS(src, nr)
      PROVE  Rest'
  BY <1>6 DEF HandleS
<1>7. ASSUME NEW src \in Stations, NEW ns \in Seqs, NEW nr \in Seqs,
             NEW payload \in BOOLEAN, HandleI(src, ns, nr, payload)
      PROVE  Rest'
  BY <1>7 DEF HandleI, FromPeer
<1>8. ASSUME UaSent PROVE Rest'
  BY <1>8 DEF UaSent, StaleRelay, ReplaceCms, OpenCms, CloseCms
<1>9. ASSUME StaleRelayEnded PROVE Rest'
  <2>1. CASE cms # 0
    BY <1>9, <2>1 DEF StaleRelayEnded, ReplaceCms, CloseCms
  <2>2. CASE cms = 0
    BY <1>9, <2>2 DEF StaleRelayEnded, ReplaceCms, OpenCms
  <2> QED
    BY <2>1, <2>2
<1>10. ASSUME OldCmsClosed PROVE Rest'
  BY <1>10 DEF OldCmsClosed, OpenCms
<1>11. ASSUME LoginOk PROVE Rest'
  BY <1>11 DEF LoginOk
<1>12. ASSUME LoginFail PROVE Rest'
  BY <1>12 DEF LoginFail
<1>13. ASSUME HandleCloses PROVE Rest'
  BY <1>13 DEF HandleCloses, CloseCms, ForgetSession
<1>14. ASSUME HandleClosed PROVE Rest'
  BY <1>14 DEF HandleClosed, ForgetSession
<1>15. ASSUME ForwardToCms PROVE Rest'
  BY <1>15 DEF ForwardToCms
<1>16. ASSUME HandleReturns PROVE Rest'
  BY <1>16 DEF HandleReturns
<1> HIDE DEF TypeOK, NoStaleRelay, NoLeakedCms, Numbering, RelaySession, ClosingCms, Ownership,
         Forwarded
<1>17. TypeOK'
  BY ListenerType DEF IInv
<1> QED
  BY <1>1, <1>2, <1>3, <1>4, <1>5, <1>6, <1>7, <1>8, <1>9, <1>10, <1>11, <1>12,
     <1>13, <1>14, <1>15, <1>16, <1>17 DEF HandleFrame, HandleStep

\* What every step of the relay, and the CMS closing a stream, leave well typed.
LEMMA RelayType ==
  ASSUME IInv, RelayStep \/ CmsStep
  PROVE  TypeOK'
<1> DEFINE Frame == /\ UNCHANGED <<call, hvars, gen, fwd>>
                    /\ cancelled' \in BOOLEAN
<1> USE GatewayConstants DEF IInv, TypeOK, RelayPoints, seqs, hvars, rvars, history
<1>1. ASSUME NEW st \in StatusStates, Finally(st), Frame
      PROVE  TypeOK'
  <2>1. CASE cms # 0
    BY <1>1, <2>1 DEF Finally, CloseCms, SessStates
  <2>2. CASE cms = 0
    BY <1>1, <2>2 DEF Finally, ForgetSession, Seqs, StatusStates
  <2> QED
    BY <2>1, <2>2
<1>2. ASSUME LoopTop, Frame
      PROVE  TypeOK'
  <2>1. CASE link # None /\ cms # 0
    BY <1>2, <2>1 DEF LoopTop
  <2>2. CASE ~(link # None /\ cms # 0)
    BY <1>1, <1>2, <2>2 DEF LoopTop
  <2> QED
    BY <2>1, <2>2
<1>3. ASSUME NEW n \in 1 .. 2, SendNext(n), Frame, rpc # "done"
      PROVE  TypeOK'
  <2>1. CASE link = None
    BY <1>2, <1>3, <2>1 DEF SendNext
  <2>2. CASE link # None /\ WindowFull
    BY <1>3, <2>2 DEF SendNext
  <2>3. CASE link # None /\ ~WindowFull
    <3>1. NextSeq(vs) \in Seqs
      BY NextSeqType
    <3>2. sent' \subseteq Gens \X Stations
      BY <1>3, <2>3 DEF SendNext, RelaySession, Gens
    <3> QED
      BY <1>3, <2>3, <3>1, <3>2 DEF SendNext
  <2> QED
    BY <2>1, <2>2, <2>3
<1>4. RelayUnchanged => Frame
  BY DEF RelayUnchanged
<1>5. CASE RelayStart
  BY <1>2, <1>4, <1>5 DEF RelayStart
<1>6. CASE RelayData
  BY <1>3, <1>4, <1>6 DEF RelayData
<1>7. CASE RelayEof
  BY <1>1, <1>4, <1>7 DEF RelayEof
<1>8. CASE RelayError
  BY <1>1, <1>4, <1>8 DEF RelayError, StatusStates
<1>9. CASE RelayWakes
  <2>1. rleft \in 1 .. 2
    BY <1>9 DEF RelayWakes, RelaySession
  <2> QED
    BY <1>3, <1>4, <1>9, <2>1 DEF RelayWakes
<1>10. CASE RelayTxDone
  <2>1. CASE rleft > 0
    <3>1. rleft \in 1 .. 2
      BY <2>1
    <3> QED
      BY <1>3, <1>4, <1>10, <2>1, <3>1 DEF RelayTxDone
  <2>2. CASE rleft = 0
    BY <1>2, <1>4, <1>10, <2>2 DEF RelayTxDone
  <2> QED
    BY <2>1, <2>2
<1>11. CASE RelayClosed
  BY <1>4, <1>11 DEF RelayClosed, ForgetSession, Seqs, StatusStates
<1>12. CASE RelayCancelled
  <2>1. Frame
    BY <1>12, Zenon DEF RelayCancelled
  <2>2. CASE rpc \in {"new", "closing"}
    BY <1>12, <2>1, <2>2 DEF RelayCancelled
  <2>3. CASE rpc \in {"recv", "window", "tx"}
    BY <1>1, <1>12, <2>1, <2>3 DEF RelayCancelled
  <2> QED
    BY <1>12, <2>2, <2>3 DEF RelayCancelled
<1>13. ASSUME NEW i \in Gens, CmsCloses(i) PROVE TypeOK'
  BY <1>13 DEF CmsCloses, SessStates
<1> HIDE DEF IInv, TypeOK
<1> QED
  BY <1>5, <1>6, <1>7, <1>8, <1>9, <1>10, <1>11, <1>12, <1>13 DEF RelayStep, CmsStep

\* What every step of the relay, and the CMS closing a stream, preserve.
LEMMA RelayIInv ==
  ASSUME IInv, RelayStep \/ CmsStep
  PROVE  IInv'
<1> DEFINE Frame == UNCHANGED <<call, hvars, gen, fwd>>
           Rest == NoStaleRelay /\ NoLeakedCms /\ Numbering /\ RelaySession
                     /\ ClosingCms /\ Ownership /\ Forwarded
<1> USE GatewayConstants
        DEF IInv, TypeOK, NoStaleRelay, NoLeakedCms, Numbering, RelaySession, ClosingCms,
            Ownership, Forwarded, Opening, Gens, seqs, hvars, rvars, history
<1>1. ASSUME NEW st, Finally(st), Frame, rpc # "done"
      PROVE  Rest'
  <2>1. CASE cms # 0
    <3>1. /\ sess' = [sess EXCEPT ![cms] = "closed"]
          /\ rpc' = "closing" /\ rleft' = 0
          /\ UNCHANGED <<link, seqs, cms, rcms, sent>>
      BY <1>1, <2>1 DEF Finally, CloseCms
    <3>2. NoStaleRelay' /\ NoLeakedCms' /\ Numbering'
      BY <1>1, <2>1, <3>1
    <3>3. RelaySession' /\ ClosingCms' /\ Ownership' /\ Forwarded'
      BY <1>1, <2>1, <3>1
    <3> QED
      BY <3>2, <3>3
  <2>2. CASE cms = 0
    BY <1>1, <2>2 DEF Finally, ForgetSession
  <2> QED
    BY <2>1, <2>2
<1>2. ASSUME LoopTop, Frame, rpc # "done"
      PROVE  Rest'
  <2>1. CASE link # None /\ cms # 0
    BY <1>2, <2>1 DEF LoopTop
  <2>2. CASE ~(link # None /\ cms # 0)
    BY <1>1, <1>2, <2>2 DEF LoopTop
  <2> QED
    BY <2>1, <2>2
<1>3. ASSUME NEW n \in 1 .. 2, SendNext(n), Frame, rpc # "done"
      PROVE  Rest'
  <2>1. CASE link = None
    BY <1>2, <1>3, <2>1 DEF SendNext
  <2>2. CASE link # None /\ WindowFull
    BY <1>3, <2>2 DEF SendNext
  <2>3. CASE link # None /\ ~WindowFull
    BY <1>3, <2>3 DEF SendNext
  <2> QED
    BY <2>1, <2>2, <2>3
<1>4. RelayUnchanged => Frame
  BY DEF RelayUnchanged
<1>5. ASSUME RelayStart PROVE Rest'
  BY <1>2, <1>4, <1>5 DEF RelayStart
<1>6. ASSUME RelayData PROVE Rest'
  BY <1>3, <1>4, <1>6 DEF RelayData
<1>7. ASSUME RelayEof PROVE Rest'
  BY <1>1, <1>4, <1>7 DEF RelayEof
<1>8. ASSUME RelayError PROVE Rest'
  BY <1>1, <1>4, <1>8 DEF RelayError
<1>9. ASSUME RelayWakes PROVE Rest'
  <2>1. rleft \in 1 .. 2
    BY <1>9 DEF RelayWakes
  <2> QED
    BY <1>3, <1>4, <1>9, <2>1 DEF RelayWakes
<1>10. ASSUME RelayTxDone PROVE Rest'
  <2>1. CASE rleft > 0
    <3>1. rleft \in 1 .. 2
      BY <2>1
    <3> QED
      BY <1>3, <1>4, <1>10, <2>1, <3>1 DEF RelayTxDone
  <2>2. CASE rleft = 0
    BY <1>2, <1>4, <1>10, <2>2 DEF RelayTxDone
  <2> QED
    BY <2>1, <2>2
<1>11. ASSUME RelayClosed PROVE Rest'
  BY <1>4, <1>11 DEF RelayClosed, ForgetSession
<1>12. ASSUME RelayCancelled PROVE Rest'
  <2>1. CASE rpc \in {"new", "closing"}
    BY <1>12, <2>1 DEF RelayCancelled
  <2>2. CASE rpc \in {"recv", "window", "tx"}
    BY <1>1, <1>12, <2>2 DEF RelayCancelled
  <2> QED
    BY <1>12, <2>1, <2>2 DEF RelayCancelled
<1>13. ASSUME NEW i \in Gens, CmsCloses(i) PROVE Rest'
  BY <1>13 DEF CmsCloses
<1> HIDE DEF TypeOK, NoStaleRelay, NoLeakedCms, Numbering, RelaySession, ClosingCms,
         Ownership, Forwarded
<1>14. TypeOK'
  BY RelayType DEF IInv
<1> QED
  BY <1>5, <1>6, <1>7, <1>8, <1>9, <1>10, <1>11, <1>12, <1>13, <1>14
     DEF RelayStep, CmsStep

\* Every step of the gateway preserves the inductive invariant.
LEMMA NextIInv == IInv /\ [Next]_vars => IInv'
<1> SUFFICES ASSUME IInv, [Next]_vars PROVE IInv'
  OBVIOUS
<1>1. CASE UNCHANGED vars
  BY <1>1 DEF vars, seqs, hvars, rvars, history, IInv, TypeOK, NoStaleRelay, NoLeakedCms,
     Numbering, RelaySession, ClosingCms, Ownership, Forwarded
<1>2. CASE Next
  BY <1>2, ListenerIInv, RelayIInv DEF Next
<1> QED
  BY <1>1, <1>2

\* IInv holds throughout every behaviour of the gateway.
THEOREM InductiveInvariant == Spec => []IInv
<1>1. Init => IInv
  BY InitIInv DEF XInv
<1> QED
  BY <1>1, NextIInv, PTL DEF Spec

\* Whatever the stations, Dire Wolf and the CMS do, the gateway's variables
\* keep their types: in particular vs, vr and va stay below the modulus.
THEOREM TypeCorrect == Spec => []TypeOK
  BY InductiveInvariant, PTL DEF IInv

\* No CMS socket is ever forgotten while open.
THEOREM NoLeak == Spec => []NoLeakedCms
  BY InductiveInvariant, PTL DEF IInv

\* No relay outlives the session it reads from into the opening of the next.
THEOREM NoStale == Spec => []NoStaleRelay
  BY InductiveInvariant, PTL DEF IInv

\* Payloads of a station only ever reach that station's CMS sessions.
THEOREM ForwardSafe == Spec => []ForwardToOwnSession
<1>1. IInv => ForwardToOwnSession
  BY DEF IInv, Forwarded, ForwardToOwnSession
<1> QED
  BY <1>1, InductiveInvariant, PTL

\* A SABM never tears down or takes over the session of another station.
THEOREM CallerKeepsSession == Spec => []SessionOfCaller
<1>1. IInv => SessionOfCaller
  BY DEF IInv, Ownership, SessionOfCaller, Opening
<1> QED
  BY <1>1, InductiveInvariant, PTL

\* Without suspension in drain(), what the listener does preserves XInv.
LEMMA ListenerXInv ==
  ASSUME ~TxBlocks, XInv, KissUp \/ KissError \/ HandleFrame \/ HandleStep
  PROVE  (ForeignRelay /\ Relayed)'
<1> DEFINE Goal == ForeignRelay /\ Relayed
<1> USE GatewayConstants
        DEF XInv, IInv, TypeOK, NoStaleRelay, NoLeakedCms, Numbering, RelaySession,
            ClosingCms, Ownership, ForeignRelay, Foreign, Relayed, Opening, Seqs, Gens,
            ListenerRuns, seqs, hvars, rvars, history
<1>1. ASSUME KissUp PROVE Goal'
  <2>1. ~Foreign
    <3>1. SUFFICES ASSUME Foreign PROVE FALSE
      OBVIOUS
    <3>2. cms = 0 /\ sess[rcms] = "closed"
      BY <3>1
    <3>3. rpc = "window"
      BY <1>1, <3>1, <3>2 DEF KissUp, RelayPending, RelayPoints
    <3>4. va = 0 /\ vs \in 0 .. 1
      BY <1>1, <3>1, <3>3 DEF KissUp
    <3>5. (vs - va) % Modulus = vs
      BY <3>4, SmallMod
    <3> QED
      BY <1>1, <3>1, <3>3, <3>4, <3>5 DEF KissUp, RelayPending, WindowFull
  <2> QED
    BY <1>1, <2>1 DEF KissUp
<1>2. ASSUME KissError PROVE Goal'
  BY <1>2 DEF KissError, TxPoints
<1>3. ASSUME NEW src \in Stations, HandleSabmBusy(src)
      PROVE  Goal'
  BY <1>3 DEF HandleSabmBusy
<1>4. ASSUME NEW src \in Stations, HandleSabm(src)
      PROVE  Goal'
  BY <1>4 DEF HandleSabm, BusyWithOther
<1>5. ASSUME NEW src \in Stations, HandleDisc(src)
      PROVE  Goal'
  BY <1>5 DEF HandleDisc
<1>6. ASSUME NEW src \in Stations, NEW nr \in Seqs, HandleS(src, nr)
      PROVE  Goal'
  BY <1>6 DEF HandleS, FromPeer
<1>7. ASSUME NEW src \in Stations, NEW ns \in Seqs, NEW nr \in Seqs,
             NEW payload \in BOOLEAN, HandleI(src, ns, nr, payload)
      PROVE  Goal'
  BY <1>7 DEF HandleI, FromPeer
<1>8. ASSUME UaSent PROVE Goal'
  BY <1>8 DEF UaSent, StaleRelay, ReplaceCms, OpenCms, CloseCms
<1>9. ASSUME StaleRelayEnded PROVE Goal'
  BY <1>9 DEF StaleRelayEnded, ReplaceCms, OpenCms, CloseCms
<1>10. ASSUME OldCmsClosed PROVE Goal'
  BY <1>10 DEF OldCmsClosed, OpenCms
<1>11. ASSUME LoginOk PROVE Goal'
  BY <1>11 DEF LoginOk
<1>12. ASSUME LoginFail PROVE Goal'
  BY <1>12 DEF LoginFail
<1>13. ASSUME HandleCloses PROVE Goal'
  BY <1>13 DEF HandleCloses, CloseCms, ForgetSession
<1>14. ASSUME HandleClosed PROVE Goal'
  BY <1>14 DEF HandleClosed, ForgetSession
<1>15. ASSUME ForwardToCms PROVE Goal'
  BY <1>15 DEF ForwardToCms
<1>16. ASSUME HandleReturns PROVE Goal'
  BY <1>16 DEF HandleReturns
<1> HIDE DEF XInv, ForeignRelay, Relayed
<1> QED
  BY <1>1, <1>2, <1>3, <1>4, <1>5, <1>6, <1>7, <1>8, <1>9, <1>10, <1>11, <1>12,
     <1>13, <1>14, <1>15, <1>16 DEF HandleFrame, HandleStep

\* Without suspension in drain(), what the relay does preserves XInv.
LEMMA RelayXInv ==
  ASSUME ~TxBlocks, XInv, RelayStep \/ CmsStep
  PROVE  (ForeignRelay /\ Relayed)'
<1> DEFINE Goal == ForeignRelay /\ Relayed
           Frame == UNCHANGED <<call, hvars, gen, fwd>> /\ ~cancelled'
<1> USE GatewayConstants
        DEF XInv, IInv, TypeOK, NoStaleRelay, NoLeakedCms, Numbering, RelaySession,
            ClosingCms, Ownership, ForeignRelay, Foreign, Relayed, Opening, Seqs, Gens,
            RelayRuns, seqs, hvars, rvars, history
<1>1. ASSUME NEW st, Finally(st), Frame, rpc # "done" PROVE Goal'
  <2>1. CASE cms # 0
    BY <1>1, <2>1 DEF Finally, CloseCms
  <2>2. CASE cms = 0
    BY <1>1, <2>2 DEF Finally, ForgetSession
  <2> QED
    BY <2>1, <2>2
<1>2. ASSUME LoopTop, Frame, hpc # "ua", ~cancelled, rpc \in {"new", "recv", "window", "tx"}
      PROVE  Goal'
  <2>1. CASE link # None /\ cms # 0
    BY <1>2, <2>1 DEF LoopTop
  <2>2. CASE ~(link # None /\ cms # 0)
    BY <1>1, <1>2, <2>2 DEF LoopTop
  <2> QED
    BY <2>1, <2>2
<1>3. ASSUME NEW n \in 1 .. 2, SendNext(n), Frame, hpc # "ua", ~cancelled,
             rpc = "recv" \/ (rpc \in {"window", "tx"} /\ n = rleft)
      PROVE  Goal'
  <2>1. CASE link = None
    BY <1>2, <1>3, <2>1 DEF SendNext
  <2>2. CASE link # None /\ WindowFull
    BY <1>3, <2>2 DEF SendNext
  <2>3. CASE link # None /\ ~WindowFull
    <3>1. CASE Foreign
      <4>1. va = 0 /\ vs + n <= 2 /\ hpc = "kissDown"
        BY <1>3, <3>1
      <4>2. (vs + 1) \in Seqs
        BY <4>1
      <4>3. NextSeq(vs) = vs + 1
        BY <4>2, SmallMod DEF NextSeq
      <4>4. vs' = NextSeq(vs)
        BY <1>3, <2>3 DEF SendNext
      <4> QED
        BY <1>3, <2>3, <3>1, <4>1, <4>3, <4>4 DEF SendNext
    <3>2. CASE ~Foreign
      BY <1>3, <2>3, <3>2 DEF SendNext
    <3> QED
      BY <3>1, <3>2
  <2> QED
    BY <2>1, <2>2, <2>3
<1>4. RelayUnchanged /\ ~cancelled => Frame
  BY DEF RelayUnchanged
<1>5. ASSUME RelayStart PROVE Goal'
  BY <1>2, <1>4, <1>5 DEF RelayStart, TxPoints
<1>6. ASSUME RelayData PROVE Goal'
  <2>1. PICK n \in 1 .. 2 : SendNext(n)
    BY <1>6 DEF RelayData
  <2>2. rpc = "recv" /\ ~cancelled /\ hpc # "ua" /\ Frame
    BY <1>4, <1>6 DEF RelayData, TxPoints
  <2> QED
    BY <1>3, <2>1, <2>2
<1>7. ASSUME RelayEof PROVE Goal'
  BY <1>1, <1>4, <1>7 DEF RelayEof
<1>8. ASSUME RelayError PROVE Goal'
  BY <1>1, <1>4, <1>8 DEF RelayError
<1>9. ASSUME RelayWakes PROVE Goal'
  <2>1. rleft \in 1 .. 2
    BY <1>9 DEF RelayWakes
  <2> QED
    BY <1>3, <1>4, <1>9, <2>1 DEF RelayWakes, TxPoints
<1>10. ASSUME RelayTxDone PROVE Goal'
  <2>1. CASE rleft > 0
    <3>1. rleft \in 1 .. 2
      BY <2>1
    <3> QED
      BY <1>3, <1>4, <1>10, <2>1, <3>1 DEF RelayTxDone, TxPoints
  <2>2. CASE rleft = 0
    BY <1>2, <1>4, <1>10, <2>2 DEF RelayTxDone, TxPoints
  <2> QED
    BY <2>1, <2>2
<1>11. ASSUME RelayClosed PROVE Goal'
  BY <1>4, <1>11 DEF RelayClosed, ForgetSession
<1>12. ASSUME RelayCancelled PROVE Goal'
  <2>1. CASE rpc \in {"new", "closing"}
    BY <1>12, <2>1 DEF RelayCancelled
  <2>2. CASE rpc \in {"recv", "window", "tx"}
    BY <1>1, <1>12, <2>2 DEF RelayCancelled
  <2> QED
    BY <1>12, <2>1, <2>2 DEF RelayCancelled
<1>13. ASSUME NEW i \in Gens, CmsCloses(i) PROVE Goal'
  BY <1>13 DEF CmsCloses
<1> HIDE DEF XInv, ForeignRelay, Relayed
<1> QED
  BY <1>5, <1>6, <1>7, <1>8, <1>9, <1>10, <1>11, <1>12, <1>13 DEF RelayStep, CmsStep

\* When drain() never suspends, bytes read from a station's CMS session are
\* only ever transmitted to that station.
THEOREM NoCrossTalkSafe == ASSUME ~TxBlocks PROVE Spec => []NoCrossTalk
<1>1. Init => XInv
  BY InitIInv
<1>2. XInv /\ [Next]_vars => XInv'
  <2> SUFFICES ASSUME XInv, [Next]_vars PROVE XInv'
    OBVIOUS
  <2>1. IInv'
    BY NextIInv DEF XInv
  <2>2. CASE UNCHANGED vars
    BY <2>1, <2>2 DEF vars, seqs, hvars, rvars, history, XInv, ForeignRelay, Foreign, Relayed
  <2>3. CASE Next
    BY <2>1, <2>3, ListenerXInv, RelayXInv DEF Next, XInv
  <2> QED
    BY <2>2, <2>3
<1>3. XInv => NoCrossTalk
  BY DEF XInv, Relayed, NoCrossTalk
<1> QED
  BY <1>1, <1>2, <1>3, PTL DEF Spec

=============================================================================
