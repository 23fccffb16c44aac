------------------------------ MODULE AprsChat ------------------------------
(***************************************************************************)
(* APRS text chat: the message store, acknowledgements and retries         *)
(* (src/web/aprschat.py), driven by the session's receive, retry and       *)
(* beacon tasks (src/web/aprssession.py) over Dire Wolf and, when enabled, *)
(* APRS-IS (src/web/aprs_transports.py).                                   *)
(*                                                                         *)
(* The tasks share one event loop and interleave where they await a write. *)
(* The store outlives the session, the message numbers do not: each start  *)
(* makes an AprsChat whose MsgNoGen begins at 1 again.  One peer is        *)
(* modelled: threads are looked up by peer and never meet.                 *)
(***************************************************************************)
EXTENDS Integers, Sequences, FiniteSets

CONSTANTS
  MaxOut,      \* bound: messages sent from the page
  MaxStarts,   \* bound: sessions started
  MaxNo,       \* MsgNoGen counts 1..MaxNo (99999 in the code)
  MaxRetries   \* aprs.max_retries

ASSUME ChatConstants ==
  /\ {MaxOut, MaxRetries} \subseteq Nat
  /\ {MaxStarts, MaxNo} \subseteq Nat \ {0}

VARIABLES
  active,    \* AprsSession.active
  starts,    \* sessions started so far
  link,      \* the KISS connection: "up", at "eof" after Dire Wolf went, or "lost"
  value,     \* MsgNoGen.value
  out,       \* the outgoing messages of the store, in order of seq
  rx,        \* the receive task of each path: "idle", "acking", "dead"
  batch,     \* what resend_due() still has to send
  retry,     \* the retry loop: "sleep", "resend", "written" or "dead"
  air,       \* messages that went out on the air
  taken,     \* messages the peer has
  replies    \* acknowledgements and rejects under way to us

sessVars == <<active, starts, link, retry, batch>>
peerVars == <<air, taken, replies>>
vars == <<sessVars, value, out, rx, peerVars>>

Paths == {"rf", "aprsis"}
Statuses == {"sending", "acked", "sent", "failed"}
Kinds == {"ack", "reject"}
Ids == 1..Len(out)

Init ==
  /\ active = FALSE /\ starts = 0 /\ link = "lost" /\ value = 1
  /\ out = <<>>
  /\ rx = [p \in Paths |-> "dead"]
  /\ batch = <<>> /\ retry = "dead"
  /\ air = {} /\ taken = {} /\ replies = {}

-----------------------------------------------------------------------------
(* AprsSession.start() and stop()                                          *)

\* A new AprsChat over the old store, with or without APRS-IS.
Start ==
  /\ ~active /\ starts < MaxStarts
  /\ active' = TRUE /\ starts' = starts + 1 /\ link' = "up"
  /\ value' = 1
  /\ \E isEnabled \in BOOLEAN :
       rx' = [rf |-> "idle", aprsis |-> IF isEnabled THEN "idle" ELSE "dead"]
  /\ retry' = "sleep"
  /\ UNCHANGED <<out, batch, peerVars>>

\* The tasks are cancelled wherever they are.
Stop ==
  /\ active
  /\ active' = FALSE /\ link' = "lost"
  /\ rx' = [p \in Paths |-> "dead"] /\ retry' = "dead"
  /\ batch' = <<>>
  /\ UNCHANGED <<starts, value, out, peerVars>>

\* Dire Wolf closes the connection.
DireWolfGoes ==
  /\ link = "up"
  /\ link' = "eof"
  /\ UNCHANGED <<active, starts, retry, batch, value, out, rx, peerVars>>

\* A write and its drain().  Behind an EOF a write may still be taken.
WriteOk == link # "lost" /\ UNCHANGED link
WriteRaises == link # "up" /\ link' = "lost"

-----------------------------------------------------------------------------
(* Outbound                                                                *)

\* MsgNoGen.next()
NextNo == (value % MaxNo) + 1

\* send_text(): the message is in the store before the write.
SendText ==
  /\ active /\ Len(out) < MaxOut
  /\ \E wantAck \in BOOLEAN :
       /\ value' = IF wantAck THEN NextNo ELSE value
       /\ out' = Append(out, [no |-> IF wantAck THEN value ELSE 0,
                              status |-> IF wantAck THEN "sending" ELSE "sent",
                              retries |-> 0, tries |-> 1, rejected |-> FALSE])
  /\ \/ WriteOk /\ air' = (IF link = "up" THEN air \cup {Len(out) + 1} ELSE air)
     \/ WriteRaises /\ UNCHANGED air
  /\ UNCHANGED <<active, starts, retry, batch, rx, taken, replies>>

\* Faulty variant of Exhausted: one retry short.
ExhaustedEarly(m) == out[m].retries + 1 >= MaxRetries

\* m.retries >= self.max_retries
Exhausted(m) == out[m].retries >= MaxRetries

\* The messages of this set, in order of seq, are the batch.
Due(ms) ==
  \E s \in [1..Cardinality(ms) -> ms] :
    /\ \A i, j \in DOMAIN s : i < j => s[i] < s[j]
    /\ batch' = s

\* Faulty variant of DueRetries: a message past its retries is only skipped.
DueRetriesSkips(elapsed) ==
  /\ Due({m \in elapsed : ~Exhausted(m)})
  /\ UNCHANGED out

\* due_retries(): of the messages whose interval has elapsed, the exhausted
\* ones fail and the others are due.
DueRetries(elapsed) ==
  /\ Due({m \in elapsed : ~Exhausted(m)})
  /\ out' = [m \in Ids |-> IF m \in elapsed /\ Exhausted(m)
                           THEN [out[m] EXCEPT !.status = "failed"] ELSE out[m]]

Waiting == {m \in Ids : out[m].status = "sending"}

\* A tick of the retry loop that finds the interval of these messages over.
RetryTick(elapsed) ==
  /\ active /\ retry = "sleep"
  /\ elapsed # {} /\ elapsed \subseteq Waiting
  /\ DueRetries(elapsed)
  /\ retry' = IF batch' = <<>> THEN "sleep" ELSE "resend"
  /\ UNCHANGED <<active, starts, link, value, rx, peerVars>>

\* resend_due() writes the next one, whatever has become of it since.  A
\* write that raises ends the loop.
Resend ==
  /\ retry = "resend"
  /\ LET m == Head(batch) IN
       \/ /\ WriteOk
          /\ out' = [out EXCEPT ![m].tries = @ + 1]
          /\ air' = (IF link = "up" THEN air \cup {m} ELSE air)
          /\ retry' = "written" /\ UNCHANGED batch
       \/ /\ WriteRaises
          /\ batch' = <<>> /\ retry' = "dead"
          /\ UNCHANGED <<out, air>>
  /\ UNCHANGED <<active, starts, value, rx, taken, replies>>

\* drain() is through: mark the message retried and go on.
Resent ==
  /\ retry = "written"
  /\ out' = [out EXCEPT ![Head(batch)].retries = @ + 1]
  /\ batch' = Tail(batch)
  /\ retry' = IF Tail(batch) = <<>> THEN "sleep" ELSE "resend"
  /\ UNCHANGED <<active, starts, link, value, rx, peerVars>>

\* beacon_now(), from the beacon loop or from the page.
BeaconNow ==
  /\ active
  /\ WriteOk \/ WriteRaises
  /\ UNCHANGED <<active, starts, retry, batch, value, out, rx, peerVars>>

-----------------------------------------------------------------------------
(* The air and the peer, which acknowledges or rejects each copy it hears. *)

PeerTakes(m) ==
  /\ m \in air
  /\ taken' = taken \cup {m}
  /\ replies' = IF out[m].no = 0 THEN replies
                ELSE replies \cup {[kind |-> "ack", no |-> out[m].no]}
  /\ UNCHANGED <<sessVars, value, out, rx, air>>

PeerRejects(m) ==
  /\ m \in air /\ out[m].no # 0
  /\ replies' = replies \cup {[kind |-> "reject", no |-> out[m].no]}
  /\ UNCHANGED <<sessVars, value, out, rx, air, taken>>

-----------------------------------------------------------------------------
(* Inbound: run_rx() of the two transports and on_frame()                  *)

\* Faulty variant of FindOutgoing: the latest message, whatever its number.
FindOutgoingLatest(n) == IF Ids = {} THEN {} ELSE {Len(out)}

\* find_outgoing(): the first outgoing message with this number.
FindOutgoing(n) ==
  {m \in Ids : out[m].no = n /\ \A k \in 1..(m - 1) : out[k].no # n}

\* An acknowledgement or a reject, which may be heard again later.
OnReply(p, r) ==
  /\ rx[p] = "idle" /\ (p = "rf" => link = "up")
  /\ r \in replies
  /\ out' = [m \in Ids |->
       IF m \notin FindOutgoing(r.no) THEN out[m]
       ELSE IF r.kind = "reject" THEN [out[m] EXCEPT !.status = "failed", !.rejected = TRUE]
       ELSE [out[m] EXCEPT !.status = "acked"]]
  /\ UNCHANGED <<sessVars, value, rx, peerVars>>

\* A message for us that asks for it is acknowledged, over RF also when it
\* came from APRS-IS.  (One that does not ask is only stored.)
OnMessage(p) ==
  /\ rx[p] = "idle" /\ (p = "rf" => link = "up")
  /\ \/ WriteOk /\ rx' = [rx EXCEPT ![p] = "acking"]
     \/ WriteRaises /\ rx' = [rx EXCEPT ![p] = "dead"]
  /\ UNCHANGED <<active, starts, retry, batch, value, out, peerVars>>

\* The acknowledgement is through, or drain() raises and the receive task ends.
AckWritten(p) ==
  /\ rx[p] = "acking"
  /\ \/ UNCHANGED link /\ rx' = [rx EXCEPT ![p] = "idle"]
     \/ WriteRaises /\ rx' = [rx EXCEPT ![p] = "dead"]
  /\ UNCHANGED <<active, starts, retry, batch, value, out, peerVars>>

\* An empty read ends the receive task.
RxEof(p) ==
  /\ rx[p] = "idle" /\ (p = "rf" => link # "up")
  /\ rx' = [rx EXCEPT ![p] = "dead"]
  /\ UNCHANGED <<sessVars, value, out, peerVars>>

-----------------------------------------------------------------------------
Next ==
  \/ Start \/ Stop \/ DireWolfGoes
  \/ SendText \/ Resend \/ Resent \/ BeaconNow
  \/ \E elapsed \in SUBSET Ids : RetryTick(elapsed)
  \/ \E m \in Ids : PeerTakes(m) \/ PeerRejects(m)
  \/ \E p \in Paths : OnMessage(p) \/ AckWritten(p) \/ RxEof(p)
                      \/ \E r \in replies : OnReply(p, r)

Spec == Init /\ [][Next]_vars

\* The event loop runs the tasks, and every interval elapses (a tick with
\* that message in it comes round).  Nobody has to answer.
FairSpec ==
  /\ Spec
  /\ WF_vars(Resend \/ Resent)
  /\ \A m \in 1..MaxOut : SF_vars(\E elapsed \in SUBSET Ids : m \in elapsed /\ RetryTick(elapsed))

-----------------------------------------------------------------------------
(* Properties.                                                             *)

TypeOK ==
  /\ active \in BOOLEAN /\ starts \in 0..MaxStarts
  /\ link \in {"up", "eof", "lost"} /\ value \in 1..MaxNo
  /\ Len(out) <= MaxOut
  /\ \A m \in Ids : /\ out[m].no \in 0..MaxNo /\ out[m].status \in Statuses
                    /\ out[m].retries \in 0..MaxRetries
                    /\ out[m].tries \in Nat /\ out[m].rejected \in BOOLEAN
  /\ rx \in [Paths -> {"idle", "acking", "dead"}]
  /\ \A i \in 1..Len(batch) : batch[i] \in Ids
  /\ retry \in {"sleep", "resend", "written", "dead"}
  /\ air \subseteq Ids /\ taken \subseteq air
  /\ replies \subseteq [kind : Kinds, no : 1..MaxNo]

\* A number that no other outgoing message of the thread carries.
UniqueNo(m) == \A k \in Ids \ {m} : out[k].no # out[m].no

\* The double tick of "peer acknowledged": unless its number has been used
\* again, an acknowledged message is one the peer has, however late, repeated
\* or out of order the acknowledgements come and whichever path they take.
AckedMeansTaken == \A m \in Ids : out[m].status = "acked" /\ UniqueNo(m) => m \in taken

\* "Retries exhausted, no ack": a message that failed without a reject was
\* tried at least max_retries times after the first, whatever stops, restarts and
\* lost connections came between.
FailedMeansTried ==
  \A m \in Ids : out[m].status = "failed" /\ ~out[m].rejected
                   => out[m].tries > MaxRetries

\* A message does not stay at its single tick: while the session runs on a
\* live connection it ends up acknowledged or failed.
ChatSettles ==
  \A m \in 1..MaxOut :
    (m \in Waiting) ~> (m \notin Waiting \/ ~active \/ link # "up")

=============================================================================
