------------------------- MODULE MailDeliveryProofs -------------------------
(***************************************************************************)
(* Proofs about MailDelivery.  The queue's own guarantees hold however the *)
(* trustee delivers; OneConversation, SentIsFinal and                      *)
(* ReportedSentIsRecorded are guarantees of send_bulk over the CMS route,  *)
(* which is the only way to deliver that looks at the status first.        *)
(***************************************************************************)
EXTENDS MailDelivery, TLAPS

-----------------------------------------------------------------------------
(* What holds for every use of the queue.                                  *)

\* A request in a conversation has a message.
InFlightMid == \A r \in Requests : InFlight(r) => rmid[r] \in Messages

BaseInv == TypeOK /\ InFlightMid

\* BaseInv holds initially.
LEMMA InitBase == Init => BaseInv
  BY MailConstants DEF Init, BaseInv, TypeOK, InFlightMid, InFlight, STATES

\* Every step keeps the types.
LEMMA NextType == BaseInv /\ [Next]_vars => TypeOK'
<1> SUFFICES ASSUME TypeOK, InFlightMid, [Next]_vars PROVE TypeOK'
  BY DEF BaseInv
<1> USE MailConstants
<1>1. ASSUME NEW m \in Messages, Enqueue(m) PROVE TypeOK'
  BY <1>1 DEF TypeOK, Enqueue, reqVars, STATES
<1>2. ASSUME NEW ids \in SUBSET Messages, Approve(ids) \/ Reject(ids) \/ Delete(ids)
      PROVE TypeOK'
  BY <1>2 DEF TypeOK, Approve, Reject, Delete, MessagesAction, reqVars, STATES
<1>3. ASSUME NEW r \in Requests, NEW m \in Messages, NEW route \in {"cms", "rf"},
             Begin(r, m, route)
      PROVE /\ q' \in [Messages -> STATES \cup {"new", "deleted"}]
            /\ rpc' \in [Requests -> {"idle", "bulk", "talk", "body"}]
            /\ rmid' \in [Requests -> Messages \cup {NoMessage}]
            /\ rroute' \in [Requests -> {"cms", "rf"}]
            /\ report' \in [Requests -> {"none", "Sent", "Failed"}]
            /\ orphaned' \subseteq Messages
  BY <1>3 DEF TypeOK, Begin, SetStatus, STATES
<1>4. ASSUME NEW r \in Requests, NEW m \in Messages, NEW route \in Routes, SendOne(r, m, route)
      PROVE TypeOK'
  BY <1>3, <1>4 DEF TypeOK, SendOne
<1>5. ASSUME NEW r \in Requests, NEW ids \in SUBSET Messages, NEW route \in Routes,
             SendBulk(r, ids, route)
      PROVE TypeOK'
  BY <1>5 DEF TypeOK, SendBulk
<1>6. ASSUME NEW r \in Requests, NEW m \in Messages, BulkNext(r, m) PROVE TypeOK'
  <2>1. Begin(r, m, rroute[r]) /\ rroute[r] \in {"cms", "rf"}
    BY <1>6 DEF BulkNext, TypeOK
  <2>2. todo' \in [Requests -> SUBSET Messages]
    BY <1>6 DEF BulkNext, TypeOK
  <2>3. QED
    BY <1>3, <2>1, <2>2 DEF TypeOK
<1>7. ASSUME NEW r \in Requests, BulkEnds(r) PROVE TypeOK'
  BY <1>7 DEF TypeOK, BulkEnds
<1>8. ASSUME NEW r \in Requests, NEW st \in {"Sent", "Failed"}, Settle(r, st) PROVE TypeOK'
  BY <1>8 DEF TypeOK, Settle, SetStatus, Returns, STATES
<1>9. ASSUME NEW r \in Requests, Refused(r) \/ Confirmed(r) \/ Unconfirmed(r) PROVE TypeOK'
  BY <1>8, <1>9 DEF Refused, Confirmed, Unconfirmed
<1>10. ASSUME NEW r \in Requests, BodySent(r) PROVE TypeOK'
  BY <1>10 DEF TypeOK, BodySent
<1>11. ASSUME NEW r \in Requests, Raises(r) PROVE TypeOK'
  <2>1. rmid[r] \in Messages
    BY <1>11 DEF Raises, InFlightMid, InFlight
  <2>2. QED
    BY <1>11, <2>1 DEF TypeOK, Raises, Returns
<1>12. CASE Crash
  <2>1. \A s \in Requests : InFlight(s) => rmid[s] \in Messages
    BY DEF InFlightMid
  <2>2. orphaned' \subseteq Messages
    BY <1>12, <2>1 DEF TypeOK, Crash
  <2>3. QED
    BY <1>12, <2>2 DEF TypeOK, Crash
<1>13. CASE UNCHANGED vars
  BY <1>13 DEF TypeOK, vars, reqVars
<1>14. QED
  BY <1>1, <1>2, <1>4, <1>5, <1>6, <1>7, <1>9, <1>10, <1>11, <1>12, <1>13
  DEF Next, Trustee, RequestStep

\* Every step keeps InFlightMid.
LEMMA NextMid == BaseInv /\ [Next]_vars => InFlightMid'
<1> SUFFICES ASSUME TypeOK, InFlightMid, [Next]_vars PROVE InFlightMid'
  BY DEF BaseInv
<1> USE DEF InFlightMid, InFlight
<1>1. ASSUME NEW m \in Messages, Enqueue(m) PROVE InFlightMid'
  BY <1>1 DEF Enqueue, reqVars
<1>2. ASSUME NEW ids \in SUBSET Messages, Approve(ids) \/ Reject(ids) \/ Delete(ids)
      PROVE InFlightMid'
  BY <1>2 DEF Approve, Reject, Delete, MessagesAction, reqVars
<1>3. ASSUME NEW r \in Requests, NEW m \in Messages, NEW route, Begin(r, m, route)
      PROVE InFlightMid'
  BY <1>3 DEF TypeOK, Begin
<1>4. ASSUME NEW r \in Requests, NEW m \in Messages, NEW route \in Routes, SendOne(r, m, route)
      PROVE InFlightMid'
  BY <1>3, <1>4 DEF SendOne
<1>5. ASSUME NEW r \in Requests, NEW ids \in SUBSET Messages, NEW route \in Routes,
             SendBulk(r, ids, route)
      PROVE InFlightMid'
  BY <1>5 DEF TypeOK, SendBulk
<1>6. ASSUME NEW r \in Requests, NEW m \in Messages, BulkNext(r, m) PROVE InFlightMid'
  BY <1>3, <1>6 DEF BulkNext
<1>7. ASSUME NEW r \in Requests, BulkEnds(r) PROVE InFlightMid'
  BY <1>7 DEF TypeOK, BulkEnds
<1>8. ASSUME NEW r \in Requests, NEW st, Settle(r, st) PROVE InFlightMid'
  BY <1>8 DEF TypeOK, Settle, Returns
<1>9. ASSUME NEW r \in Requests, Refused(r) \/ Confirmed(r) \/ Unconfirmed(r)
      PROVE InFlightMid'
  BY <1>8, <1>9 DEF Refused, Confirmed, Unconfirmed
<1>10. ASSUME NEW r \in Requests, BodySent(r) \/ Raises(r) PROVE InFlightMid'
  BY <1>10 DEF TypeOK, BodySent, Raises, Returns
<1>11. CASE Crash
  BY <1>11 DEF Crash
<1>12. CASE UNCHANGED vars
  BY <1>12 DEF vars, reqVars
<1>13. QED
  BY <1>1, <1>2, <1>4, <1>5, <1>6, <1>7, <1>9, <1>10, <1>11, <1>12
  DEF Next, Trustee, RequestStep

\* BaseInv is inductive, so it holds in every reachable state.
THEOREM BaseInvariant == Spec => []BaseInv
<1>1. BaseInv /\ [Next]_vars => BaseInv'
  BY NextType, NextMid DEF BaseInv
<1>2. QED
  BY InitBase, <1>1, PTL DEF Spec

\* Type correctness, for any number of messages and requests.
THEOREM TypeCorrect == Spec => []TypeOK
<1>1. BaseInv => TypeOK
  BY DEF BaseInv
<1>2. QED
  BY BaseInvariant, <1>1, PTL

\* The action property DeletedStaysDeleted: set_status() reads the file before
\* it writes it, so no outcome recorded late brings a message back.
THEOREM DeletedStays == Spec => DeletedStaysDeleted
<1> DEFINE Stays == \A m \in Messages : q[m] = "deleted" => q'[m] = "deleted"
<1>1. TypeOK /\ [Next]_vars => Stays
  <2> SUFFICES ASSUME TypeOK, [Next]_vars, NEW k \in Messages, q[k] = "deleted"
               PROVE q'[k] = "deleted"
    OBVIOUS
  <2>1. ASSUME NEW m \in Messages, Enqueue(m) PROVE q'[k] = "deleted"
    BY <2>1 DEF TypeOK, Enqueue
  <2>2. ASSUME NEW ids \in SUBSET Messages, Approve(ids) \/ Reject(ids) \/ Delete(ids)
        PROVE q'[k] = "deleted"
    BY <2>2 DEF TypeOK, Approve, Reject, Delete, MessagesAction, ApproveFrom,
                APPROVE_FROM, REJECT_FROM, STATES
  <2>3. ASSUME NEW m, NEW st, SetStatus(m, st) PROVE q'[k] = "deleted"
    BY <2>3 DEF TypeOK, SetStatus, Exists, STATES
  <2>4. ASSUME NEW r, NEW m, NEW route, Begin(r, m, route) PROVE q'[k] = "deleted"
    BY <2>3, <2>4 DEF Begin
  <2>5. ASSUME NEW r, NEW st, Settle(r, st) PROVE q'[k] = "deleted"
    BY <2>3, <2>5 DEF Settle
  <2>6. ASSUME NEW r, Refused(r) \/ Confirmed(r) \/ Unconfirmed(r) PROVE q'[k] = "deleted"
    BY <2>5, <2>6 DEF Refused, Confirmed, Unconfirmed
  <2>7. ASSUME NEW r, NEW m, NEW route, SendOne(r, m, route) PROVE q'[k] = "deleted"
    BY <2>4, <2>7 DEF SendOne
  <2>8. ASSUME NEW r, NEW m, BulkNext(r, m) PROVE q'[k] = "deleted"
    BY <2>4, <2>8 DEF BulkNext
  <2>9. ASSUME NEW r, NEW ids, NEW route,
               \/ SendBulk(r, ids, route) \/ BulkEnds(r) \/ BodySent(r)
               \/ Raises(r) \/ Crash \/ UNCHANGED vars
        PROVE q' = q
    BY <2>9 DEF SendBulk, BulkEnds, BodySent, Raises, Crash, vars
  <2>10. QED
    BY <2>1, <2>2, <2>6, <2>7, <2>8, <2>9 DEF Next, Trustee, RequestStep
<1>2. QED
  BY TypeCorrect, <1>1, PTL DEF Spec, DeletedStaysDeleted

-----------------------------------------------------------------------------
(* What send_bulk over the CMS guarantees.                                 *)

\* Only the CMS route is in use, and a request that has reported a result
\* keeps the message it is about.
CmsOnly ==
  \A r \in Requests :
    /\ rroute[r] = "cms"
    /\ report[r] = "Sent" => rmid[r] \in Messages /\ ~InFlight(r)

BulkInv == BaseInv /\ CmsOnly /\ OneConversation /\ ReportedSentIsRecorded

\* A step of send_bulk keeps BulkInv, and takes no message out of Sent.  The
\* Sending mark is what keeps a second request away: it is set in the step that
\* reads the status, and nothing but the request that set it, or Delete, removes
\* it.
LEMMA BulkStep ==
  ASSUME ~Single, Routes = {"cms"}, BulkInv, [Next]_vars
  PROVE  /\ CmsOnly' /\ OneConversation' /\ ReportedSentIsRecorded'
         /\ \A k \in Messages : q[k] = "Sent" => q'[k] \in {"Sent", "deleted"}
<1> DEFINE Good == /\ CmsOnly' /\ OneConversation' /\ ReportedSentIsRecorded'
                   /\ \A k \in Messages : q[k] = "Sent" => q'[k] \in {"Sent", "deleted"}
<1> USE DEF BulkInv, BaseInv, CmsOnly, OneConversation, ReportedSentIsRecorded, InFlight
<1>1. ASSUME NEW m \in Messages, Enqueue(m) PROVE Good
  BY <1>1 DEF TypeOK, InFlightMid, Enqueue, reqVars
<1>2. ASSUME NEW ids \in SUBSET Messages, Approve(ids) \/ Reject(ids) \/ Delete(ids)
      PROVE Good
  BY <1>2 DEF TypeOK, InFlightMid, Approve, Reject, Delete, MessagesAction, reqVars,
              ApproveFrom, APPROVE_FROM, REJECT_FROM, STATES
<1>3. ASSUME NEW r \in Requests, NEW m \in Messages, BulkNext(r, m) PROVE Good
  <2>1. /\ q' = [q EXCEPT ![m] = "Sending"]
        /\ q[m] \in {"Approved", "Failed"}
        /\ rpc' = [rpc EXCEPT ![r] = "talk"]
        /\ rmid' = [rmid EXCEPT ![r] = m]
        /\ rroute' = rroute
        /\ report' = [report EXCEPT ![r] = "none"]
    BY <1>3 DEF TypeOK, BulkNext, BulkSends, Begin, SetStatus, Exists, STATES
  <2>2. QED
    BY <2>1 DEF TypeOK, InFlightMid
<1>4. ASSUME NEW r \in Requests, NEW ids \in SUBSET Messages, SendBulk(r, ids, "cms")
      PROVE Good
  BY <1>4 DEF TypeOK, InFlightMid, SendBulk
<1>5. ASSUME NEW r \in Requests, BulkEnds(r) PROVE Good
  BY <1>5 DEF TypeOK, InFlightMid, BulkEnds
<1>6. ASSUME NEW r \in Requests, NEW st \in {"Sent", "Failed"},
             InFlight(r), Settle(r, st)
      PROVE Good
  <2>1. /\ rmid[r] \in Messages
        /\ q' = [q EXCEPT ![rmid[r]] = IF Exists(rmid[r]) THEN st ELSE @]
        /\ q[rmid[r]] \in {"Sending", "deleted"}
        /\ rpc' \in [Requests -> {"idle", "bulk", "talk", "body"}]
        /\ ~ InFlight(r)'
        /\ \A s \in Requests \ {r} : rpc'[s] = rpc[s]
        /\ UNCHANGED <<rmid, rroute>>
        /\ report' = [report EXCEPT ![r] = st]
    BY <1>6 DEF TypeOK, InFlightMid, Settle, SetStatus, Returns
  <2>2. /\ q'[rmid[r]] \in {st, "deleted"}
        /\ q[rmid[r]] = "deleted" => q'[rmid[r]] = "deleted"
        /\ \A k \in Messages \ {rmid[r]} : q'[k] = q[k]
    BY <2>1 DEF TypeOK, Exists, STATES
  <2>3. CmsOnly'
    BY <2>1 DEF TypeOK, InFlightMid
  <2>4. OneConversation'
    <3> SUFFICES ASSUME NEW s \in Requests, InFlight(s)'
                 PROVE /\ q'[rmid[s]] \in {"Sending", "deleted"}
                       /\ \A t \in Requests \ {s} : InFlight(t)' => rmid[t] # rmid[s]
      BY <2>1
    <3>1. s # r /\ InFlight(s) /\ rmid[s] # rmid[r] /\ rmid[s] \in Messages
      BY <1>6, <2>1 DEF InFlightMid
    <3>2. QED
      BY <2>1, <2>2, <3>1
  <2>5. ReportedSentIsRecorded'
    <3> SUFFICES ASSUME NEW s \in Requests, report'[s] = "Sent"
                 PROVE q'[rmid[s]] \in {"Sent", "deleted"}
      BY <2>1
    <3>1. CASE s = r
      BY <2>1, <2>2, <3>1 DEF TypeOK
    <3>2. CASE s # r
      <4>1. report[s] = "Sent" /\ rmid[s] \in Messages /\ q[rmid[s]] \in {"Sent", "deleted"}
        BY <2>1, <3>2 DEF TypeOK
      <4>2. QED
        BY <2>1, <2>2, <4>1
    <3>3. QED
      BY <3>1, <3>2
  <2>6. QED
    BY <2>1, <2>2, <2>3, <2>4, <2>5
<1>7. ASSUME NEW r \in Requests, Refused(r) \/ Confirmed(r) \/ Unconfirmed(r) PROVE Good
  BY <1>6, <1>7 DEF Refused, Confirmed, Unconfirmed
<1>8. ASSUME NEW r \in Requests, BodySent(r) \/ Raises(r) PROVE Good
  BY <1>8 DEF TypeOK, InFlightMid, BodySent, Raises, Returns
<1>9. CASE Crash
  BY <1>9 DEF TypeOK, Crash
<1>10. CASE UNCHANGED vars
  BY <1>10 DEF vars, reqVars
<1>11. QED
  BY <1>1, <1>2, <1>3, <1>4, <1>5, <1>7, <1>8, <1>9, <1>10
  DEF Next, Trustee, RequestStep, SendOne

\* BulkInv holds in every reachable state when the trustee only uses send_bulk
\* over the CMS.
THEOREM BulkInvariant ==
  ASSUME ~Single, Routes = {"cms"} PROVE Spec => []BulkInv
<1>1. Init => CmsOnly /\ OneConversation /\ ReportedSentIsRecorded
  BY DEF Init, CmsOnly, OneConversation, ReportedSentIsRecorded, InFlight
<1>2. BaseInv /\ BaseInv' /\ BulkInv /\ [Next]_vars => BulkInv'
  BY BulkStep DEF BulkInv
<1>3. QED
  BY BaseInvariant, InitBase, <1>1, <1>2, PTL DEF Spec, BulkInv

\* OneConversation: a message is in one conversation at most and keeps its mark
\* while it is, for any number of concurrent send_bulk requests, trustee
\* actions, exceptions and restarts.
THEOREM OneAtATime ==
  ASSUME ~Single, Routes = {"cms"} PROVE Spec => []OneConversation
<1>1. BulkInv => OneConversation
  BY DEF BulkInv
<1>2. QED
  BY BulkInvariant, <1>1, PTL

\* ReportedSentIsRecorded: no batch reports a message as sent that the queue
\* shows otherwise, under the same assumptions.
THEOREM ReportsRecorded ==
  ASSUME ~Single, Routes = {"cms"} PROVE Spec => []ReportedSentIsRecorded
<1>1. BulkInv => ReportedSentIsRecorded
  BY DEF BulkInv
<1>2. QED
  BY BulkInvariant, <1>1, PTL

\* The action property SentIsFinal under the same assumptions.
THEOREM SentFinal ==
  ASSUME ~Single, Routes = {"cms"} PROVE Spec => SentIsFinal
<1> DEFINE Final == \A m \in Messages : q[m] = "Sent" => q'[m] \in {"Sent", "deleted"}
<1>1. BulkInv /\ [Next]_vars => Final
  BY BulkStep
<1>2. QED
  BY BulkInvariant, <1>1, PTL DEF Spec, SentIsFinal

-----------------------------------------------------------------------------
(* Who settles a message that is Sending.                                  *)

\* A step of one request that leaves the queue alone and its own conversation,
\* if it is in one, as it is.
LEMMA OwnedAlone ==
  ASSUME SendingOwned, UNCHANGED <<q, orphaned>>,
         \A s \in Requests : InFlight(s) /\ rroute[s] = "cms" =>
           InFlight(s)' /\ rroute'[s] = rroute[s] /\ rmid'[s] = rmid[s]
  PROVE  SendingOwned'
  BY DEF SendingOwned

\* The trustee marks nothing Sending.
LEMMA OwnedByHand ==
  ASSUME SendingOwned, UNCHANGED <<rpc, rroute, rmid, orphaned>>,
         \A m \in Messages : q'[m] = "Sending" => q[m] = "Sending"
  PROVE  SendingOwned'
  BY DEF SendingOwned, InFlight

\* A delivery that begins has the message it marks.
LEMMA OwnedBegins ==
  ASSUME TypeOK, SendingOwned, NEW r \in Requests, NEW m \in Messages,
         NEW route \in {"cms", "rf"}, ~InFlight(r), Begin(r, m, route)
  PROVE  SendingOwned'
<1>1. /\ InFlight(r)' /\ rroute'[r] = route /\ rmid'[r] = m
      /\ \A s \in Requests : s # r =>
           (InFlight(s)' <=> InFlight(s)) /\ rroute'[s] = rroute[s] /\ rmid'[s] = rmid[s]
  BY DEF Begin, InFlight, TypeOK
<1>2. \A k \in Messages : q'[k] = "Sending" => q[k] = "Sending" \/ (k = m /\ route = "cms")
  BY DEF Begin, SetStatus, TypeOK
<1>3. orphaned' = orphaned
  BY DEF Begin
<1>4. QED
  BY <1>1, <1>2, <1>3 DEF SendingOwned

\* A delivery that ends takes the mark of its message with it.
LEMMA OwnedSettles ==
  ASSUME BaseInv, SendingOwned, NEW r \in Requests, InFlight(r),
         NEW st \in {"Sent", "Failed"}, Settle(r, st)
  PROVE  SendingOwned'
<1>1. /\ UNCHANGED <<rroute, rmid>>
      /\ \A s \in Requests : s # r => (InFlight(s)' <=> InFlight(s))
  BY DEF Settle, Returns, InFlight, BaseInv, TypeOK
<1>2. \A k \in Messages : q'[k] = "Sending" => q[k] = "Sending"
  BY DEF Settle, SetStatus, BaseInv, TypeOK
<1>3. rroute[r] = "cms" => q'[rmid[r]] # "Sending"
  BY DEF Settle, SetStatus, Exists, STATES, BaseInv, TypeOK, InFlightMid
<1>4. rroute[r] = "rf" => orphaned' = orphaned
  BY DEF Settle
<1>5. rroute[r] = "cms" => orphaned' = orphaned \ {rmid[r]}
  BY DEF Settle
<1>6. rroute[r] \in {"cms", "rf"}
  BY DEF BaseInv, TypeOK
<1>7. QED
  BY <1>1, <1>2, <1>3, <1>4, <1>5, <1>6 DEF SendingOwned

\* An exception, or a restart, orphans what it cuts.
LEMMA OwnedCut ==
  ASSUME TypeOK, SendingOwned, UNCHANGED q, orphaned \subseteq orphaned',
         \A s \in Requests : InFlight(s) /\ rroute[s] = "cms" =>
           \/ rmid[s] \in orphaned'
           \/ InFlight(s)' /\ rroute'[s] = rroute[s] /\ rmid'[s] = rmid[s]
  PROVE  SendingOwned'
  BY DEF SendingOwned

\* SendingOwned, by whichever handlers and routes the trustee delivers, however
\* many deliveries of a message overlap, whatever is approved, rejected or
\* deleted meanwhile, and with exceptions and restarts anywhere: without them
\* (orphaned stays empty) every message that is Sending has a delivery that
\* will record its outcome, which is what SendingSettles rests on.
THEOREM SendingIsOwned == Spec => []SendingOwned
<1> DEFINE I == BaseInv /\ SendingOwned
<1>1. Init => I
  BY InitBase DEF Init, SendingOwned
<1>2. I /\ [Next]_vars => I'
  <2> SUFFICES ASSUME I, [Next]_vars PROVE SendingOwned'
    BY NextType, NextMid DEF BaseInv
  <2> USE DEF BaseInv
  <2>1. ASSUME NEW m \in Messages, Enqueue(m) PROVE SendingOwned'
    BY <2>1, OwnedByHand DEF Enqueue, reqVars, TypeOK
  <2>2. ASSUME NEW ids \in SUBSET Messages, Approve(ids) \/ Reject(ids) \/ Delete(ids)
        PROVE  SendingOwned'
    BY <2>2, OwnedByHand DEF Approve, Reject, Delete, MessagesAction, reqVars
  <2>3. ASSUME NEW r \in Requests, NEW m \in Messages, NEW route \in Routes,
               SendOne(r, m, route)
        PROVE  SendingOwned'
    BY <2>3, OwnedBegins, MailConstants DEF SendOne, InFlight
  <2>4. ASSUME NEW r \in Requests, NEW ids \in SUBSET Messages, NEW route \in Routes,
               SendBulk(r, ids, route)
        PROVE  SendingOwned'
    BY <2>4, OwnedAlone DEF SendBulk, InFlight, TypeOK
  <2>5. ASSUME NEW r \in Requests, NEW m \in Messages, BulkNext(r, m) PROVE SendingOwned'
    BY <2>5, OwnedBegins DEF BulkNext, InFlight, TypeOK
  <2>6. ASSUME NEW r \in Requests, BulkEnds(r) \/ BodySent(r) PROVE SendingOwned'
    BY <2>6, OwnedAlone DEF BulkEnds, BodySent, InFlight, TypeOK
  <2>7. ASSUME NEW r \in Requests, Refused(r) \/ Confirmed(r) \/ Unconfirmed(r)
        PROVE  SendingOwned'
    BY <2>7, OwnedSettles DEF Refused, Confirmed, Unconfirmed, InFlight
  <2>8. ASSUME NEW r \in Requests, Raises(r) PROVE SendingOwned'
    BY <2>8, OwnedCut DEF Raises, Returns, InFlight, TypeOK
  <2>9. CASE Crash
    BY <2>9, OwnedCut DEF Crash
  <2>10. CASE UNCHANGED vars
    BY <2>10, OwnedByHand DEF vars, reqVars
  <2>11. QED
    BY <2>1, <2>2, <2>3, <2>4, <2>5, <2>6, <2>7, <2>8, <2>9, <2>10
    DEF Next, Trustee, RequestStep
<1>3. QED
  BY <1>1, <1>2, PTL DEF Spec
=============================================================================
