---------------------------- MODULE MailDelivery ----------------------------
(***************************************************************************)
(* The web mail holding queue and the requests that deliver from it:       *)
(* src/web/mailqueue.py, the /api/messages/ handlers of                    *)
(* src/web/web_app.py, b2fsend.send() and rfsend.send().                   *)
(*                                                                         *)
(* Every handler is a coroutine of one event loop.  Reading, changing and  *)
(* writing a message file involves no await, so it is one step; the        *)
(* conversation with the CMS, or with a remote RMS, is where the requests  *)
(* interleave and where the web service may be restarted.  With dry_run    *)
(* on, send() returns before it changes anything; that is not a step.      *)
(***************************************************************************)
EXTENDS FiniteSets

CONSTANTS
  Messages,   \* message ids
  Requests,   \* delivery requests that may be in progress at once
  NoMessage,  \* the mid of a request that is not delivering
  Routes,     \* routes the trustee uses: "cms", "rf"
  Single,     \* does the trustee use /api/messages/send as well as send_bulk?
  Faults      \* "raise": an exception send() does not expect; "crash"

ASSUME MailConstants ==
  /\ NoMessage \notin Messages
  /\ Routes \subseteq {"cms", "rf"}
  /\ Single \in BOOLEAN
  /\ Faults \subseteq {"raise", "crash"}

VARIABLES
  q,          \* status in each message's file; "new" and "deleted": no file
  rpc,        \* where each request is: "idle", "bulk" (between two messages of
              \* send_bulk), "talk" (up to FS), "body" (after the binary block)
  rmid,       \* the message each request delivers, or delivered last
  rroute,     \* "cms" or "rf"
  todo,       \* the ids send_bulk has not come to
  report,     \* final_status of each request's last delivery, or "none"
  orphaned    \* history: messages whose last delivery over CMS was cut by an
              \* exception or a restart, before it recorded an outcome

reqVars == <<rpc, rmid, rroute, todo, report>>
vars == <<q, reqVars, orphaned>>

STATES == {"Holding", "Approved", "Sending", "Sent", "Failed", "Rejected"}
APPROVE_FROM == {"Holding", "Rejected", "Failed"}
REJECT_FROM == {"Holding", "Approved", "Failed"}

Init ==
  /\ q = [m \in Messages |-> "new"]
  /\ rpc = [r \in Requests |-> "idle"]
  /\ rmid = [r \in Requests |-> NoMessage]
  /\ rroute = [r \in Requests |-> "cms"]
  /\ todo = [r \in Requests |-> {}]
  /\ report = [r \in Requests |-> "none"]
  /\ orphaned = {}

-----------------------------------------------------------------------------
(* mailqueue.py                                                            *)

Exists(m) == q[m] \in STATES

\* Faulty variant of SetStatus: the file is written without looking for it.
SetStatusBlind(m, st) == q' = [q EXCEPT ![m] = st]

\* set_status(): a message that has been deleted stays deleted.
SetStatus(m, st) == q' = [q EXCEPT ![m] = IF Exists(m) THEN st ELSE @]

\* enqueue(), called by /mail/submit
Enqueue(m) ==
  /\ q[m] = "new"
  /\ q' = [q EXCEPT ![m] = "Holding"]
  /\ UNCHANGED <<reqVars, orphaned>>

-----------------------------------------------------------------------------
(* /api/messages/action: one action on a list of messages.                 *)

\* Faulty variant of ApproveFrom: whatever is not Sent may be approved again.
ApproveFromUnsent == STATES \ {"Sent"}

ApproveFrom == APPROVE_FROM

\* ids are the selected messages that are not skipped.
MessagesAction(ids, from, to) ==
  /\ ids # {} /\ \A m \in ids : q[m] \in from
  /\ q' = [m \in Messages |-> IF m \in ids THEN to ELSE q[m]]
  /\ UNCHANGED <<reqVars, orphaned>>

Approve(ids) == MessagesAction(ids, ApproveFrom, "Approved")
Reject(ids) == MessagesAction(ids, REJECT_FROM, "Rejected")
Delete(ids) == MessagesAction(ids, STATES, "deleted")

-----------------------------------------------------------------------------
(* Starting a delivery.                                                    *)

\* The synchronous part of send(): the CMS driver marks the message, the RF
\* driver does not touch the queue.
Begin(r, m, route) ==
  /\ \/ route = "cms" /\ SetStatus(m, "Sending")
     \/ route = "rf" /\ UNCHANGED q
  /\ rpc' = [rpc EXCEPT ![r] = "talk"]
  /\ rmid' = [rmid EXCEPT ![r] = m]
  /\ rroute' = [rroute EXCEPT ![r] = route]
  /\ report' = [report EXCEPT ![r] = "none"]
  /\ UNCHANGED orphaned

\* /api/messages/send.  Only b2fsend refuses a message already Sent, and
\* neither driver looks for any other status.
SendOne(r, m, route) ==
  /\ Single
  /\ rpc[r] = "idle" /\ Exists(m)
  /\ route = "cms" => q[m] # "Sent"
  /\ Begin(r, m, route)
  /\ todo' = [todo EXCEPT ![r] = {}]

\* /api/messages/send_bulk
SendBulk(r, ids, route) ==
  /\ rpc[r] = "idle" /\ ids # {}
  /\ rpc' = [rpc EXCEPT ![r] = "bulk"]
  /\ rroute' = [rroute EXCEPT ![r] = route]
  /\ todo' = [todo EXCEPT ![r] = ids]
  /\ UNCHANGED <<q, rmid, report, orphaned>>

\* Faulty variant of BulkSends: only a message already Sent is passed over.
BulkSendsUnsent(m) == Exists(m) /\ q[m] # "Sent"

\* rec.get("status") in ("Approved", "Failed"), read when its turn comes
BulkSends(m) == q[m] \in {"Approved", "Failed"}

\* The loop goes on to the next message that may be sent, past any that may not.
BulkNext(r, m) ==
  /\ rpc[r] = "bulk"
  /\ m \in todo[r] /\ BulkSends(m)
  /\ Begin(r, m, rroute[r])
  /\ \E past \in SUBSET {k \in todo[r] : ~BulkSends(k)} :
       todo' = [todo EXCEPT ![r] = @ \ (past \cup {m})]

BulkEnds(r) ==
  /\ rpc[r] = "bulk"
  /\ \A m \in todo[r] : ~BulkSends(m)
  /\ rpc' = [rpc EXCEPT ![r] = "idle"]
  /\ todo' = [todo EXCEPT ![r] = {}]
  /\ UNCHANGED <<q, rmid, rroute, report, orphaned>>

-----------------------------------------------------------------------------
(* The conversation and what send() makes of its outcome.                  *)

\* The request is over; send_bulk goes on with its list.
Returns(r) == rpc' = [rpc EXCEPT ![r] = IF todo[r] = {} THEN "idle" ELSE "bulk"]

\* final_status: recorded in the queue by the CMS driver only.
Settle(r, st) ==
  /\ \/ /\ rroute[r] = "cms" /\ SetStatus(rmid[r], st)
        /\ orphaned' = orphaned \ {rmid[r]}
     \/ rroute[r] = "rf" /\ UNCHANGED <<q, orphaned>>
  /\ report' = [report EXCEPT ![r] = st]
  /\ Returns(r)
  /\ UNCHANGED <<rmid, rroute, todo>>

\* No connection, no login, a timeout, or an FS answer other than Y.
Refused(r) == rpc[r] = "talk" /\ Settle(r, "Failed")

\* FS Y: the binary block goes out and F is awaited.
BodySent(r) ==
  /\ rpc[r] = "talk"
  /\ rpc' = [rpc EXCEPT ![r] = "body"]
  /\ UNCHANGED <<q, rmid, rroute, todo, report, orphaned>>

\* A byte F has been read: the FF of a peer that took the message or, since
\* nothing more is looked at, an F in any other answer.
Confirmed(r) == rpc[r] = "body" /\ Settle(r, "Sent")

\* Faulty variant of Unconfirmed: a timeout is left to the caller.
UnconfirmedIgnored(r) ==
  /\ rpc[r] = "body" /\ Returns(r)
  /\ UNCHANGED <<q, rmid, rroute, todo, report, orphaned>>

\* Timeout, or the stream ended, before that byte: taken or not.
Unconfirmed(r) == rpc[r] = "body" /\ Settle(r, "Failed")

\* An exception that b2fsend.send() does not turn into "Failed" (BuildError,
\* an answer that cannot be encoded): the handler reports it and is done.
Raises(r) ==
  /\ "raise" \in Faults
  /\ rpc[r] = "talk" /\ rroute[r] = "cms"
  /\ Returns(r)
  /\ orphaned' = orphaned \cup {rmid[r]}
  /\ UNCHANGED <<q, rmid, rroute, todo, report>>

InFlight(r) == rpc[r] \in {"talk", "body"}

\* The web service is restarted: requests are gone, the files are not.
Crash ==
  /\ "crash" \in Faults
  /\ \E r \in Requests : rpc[r] # "idle"
  /\ rpc' = [r \in Requests |-> "idle"]
  /\ rmid' = [r \in Requests |-> NoMessage]
  /\ todo' = [r \in Requests |-> {}]
  /\ report' = [r \in Requests |-> "none"]
  /\ orphaned' = orphaned \cup
                    {rmid[r] : r \in {s \in Requests : InFlight(s) /\ rroute[s] = "cms"}}
  /\ UNCHANGED <<q, rroute>>

-----------------------------------------------------------------------------
Trustee ==
  \/ \E ids \in SUBSET Messages : Approve(ids) \/ Reject(ids) \/ Delete(ids)
  \/ \E r \in Requests, m \in Messages, route \in Routes : SendOne(r, m, route)
  \/ \E r \in Requests, ids \in SUBSET Messages, route \in Routes : SendBulk(r, ids, route)

\* What a request does by itself once it has been started.
RequestStep(r) ==
  \/ \E m \in Messages : BulkNext(r, m)
  \/ BulkEnds(r)
  \/ Refused(r) \/ BodySent(r) \/ Confirmed(r) \/ Unconfirmed(r) \/ Raises(r)

Next ==
  \/ \E m \in Messages : Enqueue(m)
  \/ Trustee
  \/ \E r \in Requests : RequestStep(r)
  \/ Crash

Spec == Init /\ [][Next]_vars

\* The event loop runs every request, and OVERALL_TIMEOUT bounds each of its
\* conversations; nothing is assumed of the trustee or of the peer.
FairSpec == Spec /\ \A r \in Requests : WF_vars(RequestStep(r))

-----------------------------------------------------------------------------
(* Properties.                                                             *)

TypeOK ==
  /\ q \in [Messages -> STATES \cup {"new", "deleted"}]
  /\ rpc \in [Requests -> {"idle", "bulk", "talk", "body"}]
  /\ rmid \in [Requests -> Messages \cup {NoMessage}]
  /\ rroute \in [Requests -> {"cms", "rf"}]
  /\ todo \in [Requests -> SUBSET Messages]
  /\ report \in [Requests -> {"none", "Sent", "Failed"}]
  /\ orphaned \subseteq Messages

\* No two requests deliver the same message at the same time, and the one that
\* does finds its Sending mark untouched (or the message deleted) whatever the
\* trustee does to the queue meanwhile.
OneConversation ==
  \A r \in Requests : InFlight(r) =>
    /\ q[rmid[r]] \in {"Sending", "deleted"}
    /\ \A s \in Requests \ {r} : InFlight(s) => rmid[s] # rmid[r]

\* A message the trustee was told is Sent is Sent in the queue (or deleted), so
\* the duplicate-send guard of b2fsend.send() and the status check of send_bulk
\* both keep it from going out again.
ReportedSentIsRecorded ==
  \A r \in Requests : report[r] = "Sent" => q[rmid[r]] \in {"Sent", "deleted"}

\* Sent is final: no late outcome of another delivery, and no action of the
\* trustee but Delete, takes a message out of it ("refuses to re-send").
SentIsFinal ==
  [][\A m \in Messages : q[m] = "Sent" => q'[m] \in {"Sent", "deleted"}]_vars

\* A deleted message does not come back when a delivery that was in progress
\* records its outcome.
DeletedStaysDeleted ==
  [][\A m \in Messages : q[m] = "deleted" => q'[m] = "deleted"]_vars

\* The Sending mark, which no action of the trustee but Delete takes away, is
\* always some delivery's to take away: a message is Sending only while a
\* delivery over CMS has it, or after an unexpected exception or a restart cut
\* the last one, until a new one settles it.  Two deliveries of one message, by
\* either handler, do not leave it behind.
SendingOwned ==
  \A m \in Messages : q[m] = "Sending" =>
    \/ m \in orphaned
    \/ \E r \in Requests : InFlight(r) /\ rroute[r] = "cms" /\ rmid[r] = m

\* A message does not stay Sending: its delivery is recorded as Sent or Failed
\* (or it is deleted), so the trustee can go on with it.
SendingSettles ==
  \A m \in Messages : (q[m] = "Sending") ~> (q[m] # "Sending")

=============================================================================
