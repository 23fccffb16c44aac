--------------------------- MODULE AprsChatProofs ---------------------------
(***************************************************************************)
(* Proofs about APRS text chat: type correctness, what the double tick of  *)
(* an acknowledged message means, and what a failed one was given, for any *)
(* number of messages, sessions, message numbers and retries.              *)
(***************************************************************************)
EXTENDS AprsChat, FiniteSetTheorems, TLAPS

\* A message of the store.
Message == [no : 0..MaxNo, status : Statuses, retries : 0..MaxRetries,
            tries : Nat, rejected : BOOLEAN]

(***************************************************************************)
(* The inductive invariant.                                                *)
(***************************************************************************)

\* The retry loop has a batch exactly while it is sending one.  No message is
\* in it twice, and each has a retry left, so that none is retried more often
\* than configured.
BatchInv ==
  /\ batch \in Seq(Ids)
  /\ batch # <<>> <=> retry \in {"resend", "written"}
  /\ \A i, j \in 1..Len(batch) : i < j => batch[i] # batch[j]
  /\ \A i \in 1..Len(batch) : out[batch[i]].retries < MaxRetries
  /\ ~active => retry = "dead"

\* Every retry that is counted was written, and one that is written and not
\* counted yet is one more.
TriesInv ==
  \A m \in Ids :
    /\ out[m].retries < out[m].tries
    /\ retry = "written" /\ m = Head(batch) => out[m].retries + 1 < out[m].tries

\* An acknowledgement under way has the number of a message the peer has.
RepliesInv ==
  \A r \in replies : r.kind = "ack" => \E m \in taken : out[m].no = r.no

ChatInv ==
  /\ TypeOK /\ out \in Seq(Message)
  /\ BatchInv /\ TriesInv /\ RepliesInv
  /\ AckedMeansTaken /\ FailedMeansTried

(***************************************************************************)
(* The store.                                                              *)
(***************************************************************************)

\* A sequence is a function from an interval, and the other way round.
LEMMA SeqFun ==
  ASSUME NEW S, NEW n \in Nat, NEW f \in [1..n -> S] PROVE f \in Seq(S) /\ Len(f) = n
  OBVIOUS

\* The store is such a function, of messages.
LEMMA StoreFun ==
  ASSUME out \in Seq(Message)
  PROVE  out \in [Ids -> Message] /\ Ids = 1..Len(out) /\ Len(out) \in Nat
  BY DEF Ids

\* A store with the messages of the old one, some of them changed.
LEMMA StoreUpdated ==
  ASSUME out \in Seq(Message), out' \in [Ids -> Message]
  PROVE  out' \in Seq(Message) /\ Len(out') = Len(out) /\ Ids' = Ids
  BY StoreFun, SeqFun DEF Ids

\* The updates of a message, and the fields each of them leaves.
LEMMA StatusUpdate ==
  ASSUME NEW msg \in Message, NEW s \in Statuses
  PROVE  LET new == [msg EXCEPT !.status = s] IN
         /\ new \in Message /\ new.status = s
         /\ new.no = msg.no /\ new.retries = msg.retries
         /\ new.tries = msg.tries /\ new.rejected = msg.rejected
  BY DEF Message

\* A reject, which marks the message as failed by the peer.
LEMMA RejectUpdate ==
  ASSUME NEW msg \in Message
  PROVE  LET new == [msg EXCEPT !.status = "failed", !.rejected = TRUE] IN
         /\ new \in Message /\ new.status = "failed" /\ new.rejected
         /\ new.no = msg.no /\ new.retries = msg.retries /\ new.tries = msg.tries
  BY DEF Message, Statuses

\* A write that went out counts as a try.
LEMMA TriesUpdate ==
  ASSUME NEW msg \in Message
  PROVE  LET new == [msg EXCEPT !.tries = @ + 1] IN
         /\ new \in Message /\ new.tries = msg.tries + 1
         /\ new.no = msg.no /\ new.status = msg.status
         /\ new.retries = msg.retries /\ new.rejected = msg.rejected
<1>1. msg.tries \in Nat
  BY DEF Message
<1>2. QED
  BY <1>1 DEF Message

\* A retry that is counted.
LEMMA RetriesUpdate ==
  ASSUME NEW msg \in Message, msg.retries < MaxRetries
  PROVE  LET new == [msg EXCEPT !.retries = @ + 1] IN
         /\ new \in Message /\ new.retries = msg.retries + 1
         /\ new.no = msg.no /\ new.status = msg.status
         /\ new.tries = msg.tries /\ new.rejected = msg.rejected
<1>1. msg.retries \in 0..MaxRetries /\ msg.retries + 1 \in 0..MaxRetries
  BY ChatConstants DEF Message
<1>2. QED
  BY <1>1 DEF Message

(***************************************************************************)
(* The steps that leave the store alone.                                   *)
(***************************************************************************)

\* Start, stop, the link and the receive tasks.
LEMMA SessionKeeps ==
  ASSUME ChatInv,
         \/ Start \/ Stop \/ DireWolfGoes \/ BeaconNow
         \/ \E p \in Paths : OnMessage(p) \/ AckWritten(p) \/ RxEof(p)
  PROVE  ChatInv'
<1> USE DEF ChatInv
<1>1. UNCHANGED <<out, air, taken, replies>>
  BY DEF Start, Stop, DireWolfGoes, BeaconNow, OnMessage, AckWritten, RxEof, peerVars
<1>2. Ids' = Ids
  BY <1>1 DEF Ids
<1>3. RepliesInv' /\ AckedMeansTaken' /\ FailedMeansTried' /\ out' \in Seq(Message)
  BY <1>1, <1>2 DEF RepliesInv, AckedMeansTaken, UniqueNo, FailedMeansTried
<1>4. \/ UNCHANGED <<active, retry, batch>>
      \/ batch' = batch /\ batch = <<>> /\ retry' = "sleep" /\ active'
      \/ batch' = <<>> /\ retry' = "dead"
  BY DEF BatchInv, Start, Stop, DireWolfGoes, BeaconNow, OnMessage, AckWritten, RxEof, sessVars
<1>5. BatchInv' /\ TriesInv'
  <2>1. CASE UNCHANGED <<active, retry, batch>>
    BY <1>1, <1>2, <2>1 DEF BatchInv, TriesInv
  <2>2. CASE batch' = <<>> /\ retry' \in {"sleep", "dead"} /\ (active' \/ retry' = "dead")
    <3>1. BatchInv'
      BY <2>2 DEF BatchInv
    <3>2. TriesInv'
      BY <1>1, <1>2, <2>2 DEF TriesInv
    <3>3. QED
      BY <3>1, <3>2
  <2>3. QED
    BY <1>4, <2>1, <2>2
<1>6. rx' \in [Paths -> {"idle", "acking", "dead"}]
  BY DEF TypeOK, Paths, Start, Stop, DireWolfGoes, BeaconNow, OnMessage, AckWritten, RxEof
<1>7. active' \in BOOLEAN
  BY Zenon DEF TypeOK, Start, Stop, DireWolfGoes, BeaconNow, OnMessage, AckWritten, RxEof,
               sessVars
<1>8. starts' \in 0..MaxStarts /\ link' \in {"up", "eof", "lost"} /\ value' \in 1..MaxNo
  BY ChatConstants
  DEF TypeOK, Start, Stop, DireWolfGoes, BeaconNow, OnMessage, AckWritten, RxEof,
      WriteOk, WriteRaises, sessVars
<1>9. TypeOK'
  BY <1>1, <1>2, <1>4, <1>6, <1>7, <1>8 DEF TypeOK
<1>10. QED
  BY <1>3, <1>5, <1>9

\* The peer.
LEMMA PeerKeeps ==
  ASSUME ChatInv, NEW m \in Ids, PeerTakes(m) \/ PeerRejects(m)
  PROVE  ChatInv'
<1> USE DEF ChatInv
<1>1. UNCHANGED <<active, starts, link, retry, batch, value, out, rx, air>> /\ Ids' = Ids
  BY DEF PeerTakes, PeerRejects, sessVars, Ids
<1>2. taken \subseteq taken' /\ taken' \subseteq air
  BY DEF PeerTakes, PeerRejects, TypeOK
<1>3. BatchInv' /\ TriesInv' /\ FailedMeansTried' /\ AckedMeansTaken' /\ out' \in Seq(Message)
  BY <1>1, <1>2 DEF BatchInv, TriesInv, FailedMeansTried, AckedMeansTaken, UniqueNo
<1>4. out[m].no \in 0..MaxNo
  BY DEF TypeOK
<1>5. /\ replies' \subseteq [kind : Kinds, no : 1..MaxNo]
      /\ \A r \in replies' \ replies : r.kind = "ack" => m \in taken' /\ r.no = out[m].no
  BY <1>4, ChatConstants DEF PeerTakes, PeerRejects, Kinds, TypeOK
<1>6. RepliesInv'
  BY <1>1, <1>2, <1>5 DEF RepliesInv
<1>7. TypeOK'
  BY <1>1, <1>2, <1>5 DEF TypeOK
<1>8. QED
  BY <1>3, <1>6, <1>7

(***************************************************************************)
(* The steps that change the store.                                        *)
(***************************************************************************)

\* What TypeOK says of the messages.
LEMMA StoreTypes ==
  ASSUME NEW store \in Seq(Message)
  PROVE  \A m \in 1..Len(store) :
           /\ store[m].no \in 0..MaxNo /\ store[m].status \in Statuses
           /\ store[m].retries \in 0..MaxRetries
           /\ store[m].tries \in Nat /\ store[m].rejected \in BOOLEAN
<1>1. \A m \in 1..Len(store) : store[m] \in Message
  OBVIOUS
<1>2. QED
  BY <1>1 DEF Message

\* Numbers stay, so that a number once used again is never unique any more and
\* what the acknowledgements refer to is still there.
LEMMA NumbersStay ==
  ASSUME ChatInv, Ids \subseteq Ids', \A m \in Ids : out'[m].no = out[m].no,
         UNCHANGED <<taken, replies>>
  PROVE  /\ RepliesInv'
         /\ \A m \in Ids : UniqueNo(m)' => UniqueNo(m)
<1>1. taken \subseteq Ids
  BY DEF ChatInv, TypeOK
<1>2. RepliesInv'
  BY <1>1 DEF ChatInv, RepliesInv
<1>3. \A m \in Ids : UniqueNo(m)' => UniqueNo(m)
  BY DEF UniqueNo
<1>4. QED
  BY <1>2, <1>3

\* send_text()
LEMMA SendKeeps == ASSUME ChatInv, SendText PROVE ChatInv'
<1> USE DEF ChatInv
<1> DEFINE new == Len(out) + 1
<1>1. PICK msg \in Message :
        /\ out' = Append(out, msg)
        /\ msg.status \in {"sending", "sent"} /\ msg.retries = 0 /\ msg.tries = 1
  <2>1. PICK wantAck \in BOOLEAN :
          out' = Append(out, [no |-> IF wantAck THEN value ELSE 0,
                              status |-> IF wantAck THEN "sending" ELSE "sent",
                              retries |-> 0, tries |-> 1, rejected |-> FALSE])
    BY DEF SendText
  <2> DEFINE msg == [no |-> IF wantAck THEN value ELSE 0,
                     status |-> IF wantAck THEN "sending" ELSE "sent",
                     retries |-> 0, tries |-> 1, rejected |-> FALSE]
  <2>2. msg \in Message
    BY ChatConstants DEF Message, Statuses, TypeOK
  <2>3. QED
    BY <2>1, <2>2
<1>2. /\ out' \in Seq(Message) /\ Len(out) \in Nat /\ Len(out') = new
      /\ Ids' = Ids \cup {new} /\ new \notin Ids
      /\ \A m \in Ids : out'[m] = out[m]
      /\ out'[new] = msg
  BY <1>1 DEF Ids
<1>3. UNCHANGED <<active, starts, retry, batch, rx, taken, replies>>
  BY DEF SendText
<1>4. RepliesInv' /\ \A m \in Ids : UniqueNo(m)' => UniqueNo(m)
  BY <1>2, <1>3, NumbersStay
<1>5. AckedMeansTaken'
  BY <1>1, <1>2, <1>3, <1>4 DEF AckedMeansTaken
<1>6. FailedMeansTried'
  BY <1>1, <1>2 DEF FailedMeansTried
<1>7. BatchInv' /\ TriesInv'
  <2>1. batch \in Seq(Ids) /\ (batch # <<>> => Head(batch) \in Ids)
    BY DEF BatchInv
  <2>2. batch \in Seq(Ids')
    BY <2>1, <1>2
  <2>3. BatchInv'
    BY <1>2, <1>3, <2>1, <2>2 DEF BatchInv
  <2>4. retry = "written" => Head(batch) # new
    BY <2>1, <1>2 DEF BatchInv
  <2>5. TriesInv'
    <3>1. ASSUME NEW m \in Ids
          PROVE  /\ out'[m].retries < out'[m].tries
                 /\ retry' = "written" /\ m = Head(batch')
                      => out'[m].retries + 1 < out'[m].tries
      BY <1>2, <1>3 DEF TriesInv
    <3>2. out'[new].retries < out'[new].tries
      BY <1>1, <1>2
    <3>3. QED
      BY <3>1, <3>2, <1>2, <1>3, <2>4 DEF TriesInv
  <2>6. QED
    BY <2>3, <2>5
<1>8. TypeOK'
  <2>1. link' \in {"up", "eof", "lost"}
    BY DEF SendText, WriteOk, WriteRaises, TypeOK
  <2>2. value' \in 1..MaxNo
    BY ChatConstants DEF SendText, NextNo, TypeOK
  <2>3. air' \subseteq Ids' /\ taken' \subseteq air'
    BY <1>2, <1>3 DEF SendText, TypeOK
  <2>4. Len(out') <= MaxOut
    BY <1>2, ChatConstants DEF SendText
  <2>5. \A j \in 1..Len(batch') : batch'[j] \in Ids'
    BY <1>7 DEF BatchInv
  <2>6. QED
    BY <1>2, <1>3, <2>1, <2>2, <2>3, <2>4, <2>5, StoreTypes DEF TypeOK, Ids
<1>9. QED
  BY <1>2, <1>4, <1>5, <1>6, <1>7, <1>8

\* due_retries(): what fails now has been retried as often as configured.
LEMMA TickKeeps ==
  ASSUME ChatInv, NEW elapsed \in SUBSET Ids, RetryTick(elapsed) PROVE ChatInv'
<1> USE DEF ChatInv
<1> DEFINE due == {m \in elapsed : ~Exhausted(m)}
<1>1. out \in [Ids -> Message] /\ Ids = 1..Len(out) /\ Len(out) \in Nat
  BY StoreFun
<1>2. out' = [m \in Ids |-> IF m \in elapsed /\ Exhausted(m)
                           THEN [out[m] EXCEPT !.status = "failed"] ELSE out[m]]
  BY DEF RetryTick, DueRetries
<1>3. \A m \in Ids : out[m] \in Message /\ "failed" \in Statuses
  BY <1>1 DEF Statuses
<1>4. out' \in Seq(Message) /\ Len(out') = Len(out) /\ Ids' = Ids
  <2>1. \A m \in Ids : [out[m] EXCEPT !.status = "failed"] \in Message
    BY <1>3, StatusUpdate
  <2>2. out' \in [Ids -> Message]
    BY <1>2, <1>3, <2>1
  <2>3. QED
    BY <2>2, StoreUpdated
<1>5. \A m \in Ids :
        /\ out'[m].no = out[m].no /\ out'[m].retries = out[m].retries
        /\ out'[m].tries = out[m].tries /\ out'[m].rejected = out[m].rejected
        /\ \/ out'[m].status = out[m].status
           \/ out'[m].status = "failed" /\ out[m].retries >= MaxRetries
  <2> SUFFICES ASSUME NEW m \in Ids
               PROVE  /\ out'[m].no = out[m].no /\ out'[m].retries = out[m].retries
                      /\ out'[m].tries = out[m].tries /\ out'[m].rejected = out[m].rejected
                      /\ \/ out'[m].status = out[m].status
                         \/ out'[m].status = "failed" /\ out[m].retries >= MaxRetries
    OBVIOUS
  <2>1. CASE m \in elapsed /\ Exhausted(m)
    <3> DEFINE new == [out[m] EXCEPT !.status = "failed"]
    <3>1. out'[m] = new
      BY <1>2, <2>1
    <3>2. /\ new.no = out[m].no /\ new.retries = out[m].retries /\ new.status = "failed"
          /\ new.tries = out[m].tries /\ new.rejected = out[m].rejected
      BY <1>3, StatusUpdate
    <3>3. out[m].retries >= MaxRetries
      BY <2>1 DEF Exhausted
    <3> HIDE DEF new
    <3>4. QED
      BY <3>1, <3>2, <3>3
  <2>2. CASE ~(m \in elapsed /\ Exhausted(m))
    BY <1>2, <2>2
  <2>3. QED
    BY <2>1, <2>2
<1>6. UNCHANGED <<active, starts, link, value, rx, air, taken, replies>>
  BY DEF RetryTick, peerVars
<1>7. RepliesInv' /\ \A m \in Ids : UniqueNo(m)' => UniqueNo(m)
  BY <1>4, <1>5, <1>6, NumbersStay
<1>8. AckedMeansTaken'
  BY <1>4, <1>5, <1>6, <1>7 DEF AckedMeansTaken
<1>9. FailedMeansTried'
  <2>1. \A m \in Ids : out[m].retries >= MaxRetries => out[m].tries > MaxRetries
    BY ChatConstants, StoreTypes DEF TriesInv, Ids
  <2>2. QED
    BY <1>4, <1>5, <2>1 DEF FailedMeansTried
<1>10. BatchInv' /\ TriesInv'
  <2>1. PICK s \in [1..Cardinality(due) -> due] :
          /\ \A i, j \in DOMAIN s : i < j => s[i] < s[j]
          /\ batch' = s
    BY DEF RetryTick, DueRetries, Due
  <2>2. Cardinality(due) \in Nat
    <3>1. IsFiniteSet(1..Len(out))
      BY <1>1, FS_Interval
    <3>2. QED
      BY <1>1, <3>1, FS_Subset, FS_CardinalityType
  <2>3. batch' \in Seq(due) /\ Len(batch') = Cardinality(due)
    BY <2>1, <2>2, SeqFun
  <2>4. \A m \in due : m \in Ids /\ out'[m].retries < MaxRetries
    BY <1>1, <1>5, StoreTypes, ChatConstants DEF Exhausted
  <2>5. \A i, j \in 1..Len(batch') : i < j => batch'[i] # batch'[j]
    <3>1. \A i \in 1..Len(batch') : batch'[i] \in Int
      <4>1. \A m \in due : m \in Ids
        OBVIOUS
      <4> HIDE DEF due
      <4>2. \A i \in 1..Len(batch') : batch'[i] \in due
        BY <2>3
      <4>3. QED
        BY <1>1, <4>1, <4>2
    <3>2. QED
      BY <2>1, <2>2, <2>3, <3>1
  <2> HIDE DEF due
  <2>6. batch' \in Seq(Ids') /\ \A i \in 1..Len(batch') : out'[batch'[i]].retries < MaxRetries
    BY <1>4, <2>3, <2>4
  <2>7. active' /\ retry' = IF batch' = <<>> THEN "sleep" ELSE "resend"
    BY DEF RetryTick
  <2>8. BatchInv'
    BY <2>5, <2>6, <2>7 DEF BatchInv
  <2>9. TriesInv'
    BY <1>4, <1>5, <2>7 DEF TriesInv
  <2>10. QED
    BY <2>8, <2>9
<1>11. TypeOK'
  <2>1. \A i \in 1..Len(batch') : batch'[i] \in Ids'
    BY <1>10 DEF BatchInv
  <2>2. retry' \in {"sleep", "resend"}
    BY DEF RetryTick
  <2>3. QED
    BY <1>4, <1>6, <2>1, <2>2, StoreTypes DEF TypeOK, Ids
<1>12. QED
  BY <1>4, <1>7, <1>8, <1>9, <1>10, <1>11

\* One message is replaced.
LEMMA StoreReplaced ==
  ASSUME out \in Seq(Message), NEW m \in Ids, NEW msg \in Message,
         out' = [out EXCEPT ![m] = msg]
  PROVE  /\ out' \in Seq(Message) /\ Len(out') = Len(out) /\ Ids' = Ids
         /\ out'[m] = msg /\ \A k \in Ids \ {m} : out'[k] = out[k]
<1>1. out \in [Ids -> Message]
  BY StoreFun
<1>2. out' \in [Ids -> Message] /\ out'[m] = msg /\ \A k \in Ids \ {m} : out'[k] = out[k]
  BY <1>1
<1>3. QED
  BY <1>2, StoreUpdated

\* resend_due(): the write.
LEMMA ResendKeeps == ASSUME ChatInv, Resend PROVE ChatInv'
<1> USE DEF ChatInv
<1> DEFINE m == Head(batch)
           new == [out[m] EXCEPT !.tries = @ + 1]
<1>1. m \in Ids /\ batch # <<>> /\ UNCHANGED <<active, starts, value, rx, taken, replies>>
  BY DEF Resend, BatchInv
<1>2. out[m] \in Message
  BY <1>1, StoreFun
<1>3. /\ new \in Message /\ new.tries = out[m].tries + 1
      /\ new.no = out[m].no /\ new.status = out[m].status
      /\ new.retries = out[m].retries /\ new.rejected = out[m].rejected
  BY <1>2, TriesUpdate
<1>4. out[m].tries \in Nat /\ out[m].retries \in Nat
  BY <1>1 DEF TypeOK
<1>5. CASE /\ WriteOk /\ out' = [out EXCEPT ![m].tries = @ + 1]
           /\ air' = (IF link = "up" THEN air \cup {m} ELSE air)
           /\ retry' = "written" /\ UNCHANGED batch
  <2>1. out' = [out EXCEPT ![m] = new]
    BY <1>5
  <2> HIDE DEF new
  <2>2. /\ out' \in Seq(Message) /\ Len(out') = Len(out) /\ Ids' = Ids
        /\ out'[m] = new /\ \A k \in Ids \ {m} : out'[k] = out[k]
    BY <1>1, <1>3, <2>1, StoreReplaced
  <2> HIDE DEF m
  <2>3. RepliesInv' /\ \A k \in Ids : UniqueNo(k)' => UniqueNo(k)
    BY <1>1, <1>3, <2>2, NumbersStay
  <2>4. AckedMeansTaken'
    BY <1>1, <1>3, <2>2, <2>3 DEF AckedMeansTaken
  <2>5. FailedMeansTried'
    BY <1>1, <1>3, <1>4, <2>2, ChatConstants DEF FailedMeansTried
  <2>6. BatchInv'
    <3>1. \A k \in Ids : out'[k].retries = out[k].retries
      BY <1>3, <2>2
    <3>2. \A i \in 1..Len(batch) : batch[i] \in Ids
      BY DEF BatchInv
    <3>3. QED
      BY <1>1, <1>5, <2>2, <3>1, <3>2 DEF BatchInv, Resend
  <2>7. TriesInv'
    BY <1>1, <1>3, <1>4, <1>5, <2>2 DEF TriesInv, m
  <2>8. TypeOK'
    BY <1>1, <1>5, <2>2, StoreTypes DEF TypeOK, Ids, WriteOk
  <2>9. QED
    BY <2>2, <2>3, <2>4, <2>5, <2>6, <2>7, <2>8
<1>6. CASE /\ WriteRaises /\ batch' = <<>> /\ retry' = "dead"
           /\ UNCHANGED <<out, air>>
  <2>1. Ids' = Ids
    BY <1>6 DEF Ids
  <2>2. RepliesInv' /\ AckedMeansTaken' /\ FailedMeansTried'
    BY <1>1, <1>6, <2>1 DEF RepliesInv, AckedMeansTaken, FailedMeansTried, UniqueNo
  <2>3. BatchInv'
    BY <1>6 DEF BatchInv
  <2>4. TriesInv'
    BY <1>6, <2>1 DEF TriesInv
  <2>5. TypeOK'
    BY <1>1, <1>6, <2>1 DEF TypeOK, WriteRaises
  <2>6. QED
    BY <1>6, <2>2, <2>3, <2>4, <2>5
<1>7. QED
  BY <1>5, <1>6 DEF Resend

\* resend_due(): the write is through, and counted.
LEMMA ResentKeeps == ASSUME ChatInv, Resent PROVE ChatInv'
<1> USE DEF ChatInv
<1> DEFINE m == Head(batch)
           new == [out[m] EXCEPT !.retries = @ + 1]
<1>1. /\ m \in Ids /\ batch # <<>> /\ batch' = Tail(batch) /\ out[m].retries < MaxRetries
      /\ retry' = IF Tail(batch) = <<>> THEN "sleep" ELSE "resend"
      /\ UNCHANGED <<active, starts, link, value, rx, air, taken, replies>>
  BY DEF Resent, BatchInv, peerVars
<1>2. out[m] \in Message
  BY <1>1, StoreFun
<1>3. /\ new \in Message /\ new.retries = out[m].retries + 1
      /\ new.no = out[m].no /\ new.status = out[m].status
      /\ new.tries = out[m].tries /\ new.rejected = out[m].rejected
  BY <1>1, <1>2, RetriesUpdate
<1>4. out[m].tries \in Nat /\ out[m].retries \in Nat /\ out[m].retries + 1 < out[m].tries
  BY <1>1 DEF TypeOK, TriesInv, Resent
<1>5. out' = [out EXCEPT ![m] = new]
  BY DEF Resent
<1> HIDE DEF new
<1>6. /\ out' \in Seq(Message) /\ Len(out') = Len(out) /\ Ids' = Ids
      /\ out'[m] = new /\ \A k \in Ids \ {m} : out'[k] = out[k]
  BY <1>1, <1>3, <1>5, StoreReplaced
<1>7. BatchInv'
  <2>1. /\ batch' \in Seq(Ids) /\ Len(batch') = Len(batch) - 1
        /\ \A i \in 1..Len(batch') : batch'[i] = batch[i + 1] /\ batch'[i] \in Ids
    BY <1>1 DEF BatchInv
  <2>2. \A i \in 1..Len(batch') : batch'[i] # m
    BY <1>1, <2>1 DEF BatchInv
  <2>3. \A i \in 1..Len(batch') : out'[batch'[i]].retries < MaxRetries
    BY <1>6, <2>1, <2>2 DEF BatchInv
  <2>4. \A i, j \in 1..Len(batch') : i < j => batch'[i] # batch'[j]
    BY <2>1 DEF BatchInv
  <2>5. ~active' => FALSE
    BY <1>1 DEF BatchInv, Resent
  <2>6. QED
    BY <1>1, <1>6, <2>1, <2>3, <2>4, <2>5 DEF BatchInv
<1> HIDE DEF m
<1>8. RepliesInv' /\ \A k \in Ids : UniqueNo(k)' => UniqueNo(k)
  BY <1>1, <1>3, <1>6, NumbersStay
<1>9. AckedMeansTaken'
  BY <1>1, <1>3, <1>6, <1>8 DEF AckedMeansTaken
<1>10. FailedMeansTried'
  BY <1>1, <1>3, <1>6 DEF FailedMeansTried
<1>11. TriesInv'
  BY <1>1, <1>3, <1>4, <1>6 DEF TriesInv
<1>12. TypeOK'
  <2>1. \A i \in 1..Len(batch') : batch'[i] \in Ids'
    BY <1>7 DEF BatchInv
  <2>2. QED
    BY <1>1, <1>6, <2>1, StoreTypes DEF TypeOK, Ids
<1>13. QED
  BY <1>6, <1>7, <1>8, <1>9, <1>10, <1>11, <1>12

\* on_frame() with an acknowledgement or a reject, late and repeated ones too.
LEMMA ReplyKeeps ==
  ASSUME ChatInv, NEW p \in Paths, NEW r \in replies, OnReply(p, r) PROVE ChatInv'
<1> USE DEF ChatInv
<1> DEFINE Rejected(m) == [out[m] EXCEPT !.status = "failed", !.rejected = TRUE]
           Acked(m) == [out[m] EXCEPT !.status = "acked"]
<1>1. out' = [m \in Ids |-> IF m \notin FindOutgoing(r.no) THEN out[m]
                            ELSE IF r.kind = "reject" THEN Rejected(m) ELSE Acked(m)]
  BY DEF OnReply
<1>2. UNCHANGED <<active, starts, link, retry, batch, value, rx, air, taken, replies>>
  BY DEF OnReply, sessVars, peerVars
<1>3. r.kind \in Kinds
  BY DEF TypeOK
<1>4. \A m \in Ids : out[m] \in Message /\ "acked" \in Statuses
  BY StoreFun DEF Statuses
<1>5. \A m \in Ids :
        /\ Rejected(m) \in Message /\ Rejected(m).status = "failed" /\ Rejected(m).rejected
        /\ Rejected(m).no = out[m].no /\ Rejected(m).retries = out[m].retries
        /\ Rejected(m).tries = out[m].tries
  BY <1>4, RejectUpdate
<1>6. \A m \in Ids :
        /\ Acked(m) \in Message /\ Acked(m).status = "acked"
        /\ Acked(m).no = out[m].no /\ Acked(m).retries = out[m].retries
        /\ Acked(m).tries = out[m].tries
  BY <1>4, StatusUpdate
<1> HIDE DEF Rejected, Acked
<1>7. out' \in Seq(Message) /\ Len(out') = Len(out) /\ Ids' = Ids
  <2>1. out' \in [Ids -> Message]
    BY <1>1, <1>4, <1>5, <1>6
  <2>2. QED
    BY <2>1, StoreUpdated
<1>8. \A m \in Ids :
        /\ out'[m].no = out[m].no /\ out'[m].retries = out[m].retries
        /\ out'[m].tries = out[m].tries
  BY <1>1, <1>5, <1>6
<1>9. \A m \in Ids :
        \/ out'[m] = out[m]
        \/ out'[m].status = "failed" /\ out'[m].rejected
        \/ out'[m].status = "acked" /\ r.kind = "ack" /\ out[m].no = r.no
  BY <1>1, <1>3, <1>5, <1>6 DEF FindOutgoing, Kinds
<1>10. RepliesInv' /\ \A m \in Ids : UniqueNo(m)' => UniqueNo(m)
  BY <1>2, <1>7, <1>8, NumbersStay
<1>11. AckedMeansTaken'
  <2> SUFFICES ASSUME NEW m \in Ids, out'[m].status = "acked", UniqueNo(m)
               PROVE  m \in taken
    BY <1>2, <1>7, <1>10 DEF AckedMeansTaken
  <2>1. CASE out'[m] = out[m]
    BY <2>1 DEF AckedMeansTaken
  <2>2. CASE r.kind = "ack" /\ out[m].no = r.no
    <3>1. PICK k \in taken : out[k].no = r.no
      BY <2>2 DEF RepliesInv
    <3>2. k \in Ids
      BY DEF TypeOK
    <3>3. QED
      BY <2>2, <3>1, <3>2 DEF UniqueNo
  <2>3. QED
    BY <1>9, <2>1, <2>2
<1>12. FailedMeansTried'
  BY <1>7, <1>8, <1>9 DEF FailedMeansTried
<1>13. BatchInv' /\ TriesInv'
  <2>1. \A i \in 1..Len(batch) : batch[i] \in Ids
    BY DEF BatchInv
  <2>2. BatchInv'
    BY <1>2, <1>7, <1>8, <2>1 DEF BatchInv
  <2>3. TriesInv'
    BY <1>2, <1>7, <1>8 DEF TriesInv
  <2>4. QED
    BY <2>2, <2>3
<1>14. TypeOK'
  BY <1>2, <1>7, StoreTypes DEF TypeOK, Ids
<1>15. QED
  BY <1>7, <1>10, <1>11, <1>12, <1>13, <1>14

(***************************************************************************)
(* The theorems.                                                           *)
(***************************************************************************)

\* ChatInv holds in every reachable state.
THEOREM ChatInvariant == Spec => []ChatInv
<1>1. Init => ChatInv
  <2> SUFFICES ASSUME Init PROVE ChatInv
    OBVIOUS
  <2>1. out = <<>> /\ Ids = {} /\ batch = <<>> /\ retry = "dead" /\ replies = {}
    BY DEF Init, Ids
  <2>2. out \in Seq(Message) /\ BatchInv /\ TriesInv /\ RepliesInv
    BY <2>1 DEF BatchInv, TriesInv, RepliesInv
  <2>3. AckedMeansTaken /\ FailedMeansTried
    BY <2>1 DEF AckedMeansTaken, FailedMeansTried
  <2>4. active \in BOOLEAN
    BY Zenon DEF Init
  <2>5. TypeOK
    BY <2>1, <2>4, ChatConstants DEF Init, TypeOK, Paths
  <2>6. QED
    BY <2>2, <2>3, <2>5 DEF ChatInv
<1>2. ChatInv /\ [Next]_vars => ChatInv'
  <2> SUFFICES ASSUME ChatInv, [Next]_vars PROVE ChatInv'
    OBVIOUS
  <2>1. CASE UNCHANGED vars
    <3>1. UNCHANGED <<active, starts, link, retry, batch, value, out, rx, air, taken, replies>>
          /\ Ids' = Ids
      BY <2>1 DEF vars, sessVars, peerVars, Ids
    <3>2. QED
      BY <3>1 DEF ChatInv, TypeOK, BatchInv, TriesInv, RepliesInv, AckedMeansTaken,
                  FailedMeansTried, UniqueNo
  <2>2. CASE Next
    BY <2>2, SessionKeeps, PeerKeeps, SendKeeps, TickKeeps, ResendKeeps, ResentKeeps,
       ReplyKeeps DEF Next
  <2>3. QED
    BY <2>1, <2>2
<1>3. QED
  BY <1>1, <1>2, PTL DEF Spec

\* TypeOK; with it, that no message is retried more often than max_retries,
\* whatever stops and restarts come between.
THEOREM TypeCorrect == Spec => []TypeOK
<1>1. ChatInv => TypeOK
  BY DEF ChatInv
<1>2. QED
  BY <1>1, ChatInvariant, PTL

\* AckedMeansTaken: the double tick of on_frame() is one the peer stands for,
\* unless the message's number has been used again.
THEOREM AckedTaken == Spec => []AckedMeansTaken
<1>1. ChatInv => AckedMeansTaken
  BY DEF ChatInv
<1>2. QED
  BY <1>1, ChatInvariant, PTL

\* FailedMeansTried: due_retries() gives a message up only after it was tried
\* more than max_retries times.
THEOREM FailedTried == Spec => []FailedMeansTried
<1>1. ChatInv => FailedMeansTried
  BY DEF ChatInv
<1>2. QED
  BY <1>1, ChatInvariant, PTL

\* A session on a live connection has its receive task, and one whose connection
\* no write has found lost has its retry loop.
TasksAlive ==
  active => /\ link = "up" => rx["rf"] # "dead"
            /\ link # "lost" => retry # "dead"

\* Every step keeps it: what ends a task has found the connection gone.
LEMMA TasksStep == ASSUME TypeOK, TasksAlive, [Next]_vars PROVE TasksAlive'
<1> USE DEF TasksAlive
<1>1. rx \in [Paths -> {"idle", "acking", "dead"}] /\ "rf" \in Paths /\ "aprsis" # "rf"
  BY DEF TypeOK, Paths
<1>2. CASE Start \/ Stop \/ DireWolfGoes
  <2>1. CASE Start
    <3>1. rx'["rf"] = "idle" /\ retry' = "sleep"
      BY <2>1 DEF Start
    <3>2. QED
      BY <3>1
  <2>2. CASE Stop
    <3>1. active' = FALSE
      BY <2>2 DEF Stop
    <3>2. QED
      BY <3>1
  <2>3. CASE DireWolfGoes
    BY <2>3 DEF DireWolfGoes
  <2>4. QED
    BY <1>2, <2>1, <2>2, <2>3
<1>3. CASE SendText \/ BeaconNow
  BY <1>3 DEF SendText, BeaconNow, WriteOk, WriteRaises
<1>4. CASE Resend
  BY <1>4 DEF Resend, WriteOk, WriteRaises
<1>5. ASSUME NEW elapsed, Resent \/ RetryTick(elapsed) PROVE TasksAlive'
  BY <1>5 DEF Resent, RetryTick
<1>6. ASSUME NEW p \in Paths, OnMessage(p) PROVE TasksAlive'
  BY <1>1, <1>6 DEF OnMessage, WriteOk, WriteRaises
<1>7. ASSUME NEW p \in Paths, AckWritten(p) PROVE TasksAlive'
  BY <1>1, <1>7 DEF AckWritten, WriteRaises
<1>8. ASSUME NEW p \in Paths, RxEof(p) PROVE TasksAlive'
  BY <1>1, <1>8 DEF RxEof, sessVars
<1>9. ASSUME NEW p, NEW r, NEW m, OnReply(p, r) \/ PeerTakes(m) \/ PeerRejects(m)
      PROVE  TasksAlive'
  BY <1>9 DEF OnReply, PeerTakes, PeerRejects, sessVars
<1>10. CASE UNCHANGED vars
  BY <1>10 DEF vars, sessVars
<1>11. QED
  BY <1>2, <1>3, <1>4, <1>5, <1>6, <1>7, <1>8, <1>9, <1>10 DEF Next

\* run_rx() and the retry loop of a session end only with the connection: while
\* Dire Wolf is there neither has died unnoticed, whichever writes of the page,
\* the beacon and the acknowledgements failed meanwhile.  This is the safety
\* that ChatSettles rests on.
THEOREM TasksKeepOn == Spec => []TasksAlive
<1>1. Init => TasksAlive
  BY DEF Init, TasksAlive
<1>2. TypeOK /\ TasksAlive /\ [Next]_vars => TasksAlive'
  BY TasksStep
<1>3. QED
  BY <1>1, <1>2, TypeCorrect, PTL DEF Spec
=============================================================================
