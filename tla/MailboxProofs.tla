---------------------------- MODULE MailboxProofs ----------------------------
(***************************************************************************)
(* The mailbox server keeps its promise to the client, for any number of   *)
(* requests, lives and failed writes: safety only, without the fairness.   *)
(***************************************************************************)
EXTENDS Mailbox, SequenceTheorems, TLAPS

----------------------------------------------------------------------------
(* The inductive invariant *)

\* The old answer is gone before the server says that it is ready, if it can be
\* removed.
AnswerCleared == pc = "mark" /\ "resp" \notin kept => resp = Absent

\* What the server has read was written by the client, and what the client
\* waits for or still writes has a number.
Asked ==
  /\ last_seq <= seq
  /\ req # Absent => req.seq <= seq
  /\ waiting \/ sending > 0 => seq >= 1

MailboxInv == InStep /\ AnswersAreLive /\ AnswerCleared /\ Asked

\* A file is no request when it is absent.
LEMMA RequestFields ==
  /\ Absent \notin Requests
  /\ \A r \in Requests : r.seq \in 1 .. MaxSeq /\ r.whole \in BOOLEAN
BY MailboxAssumption DEF Requests, MailboxAssumption

\* The first life begins before anything was asked.
LEMMA InitInv == Init => MailboxInv
<1> SUFFICES ASSUME Init PROVE MailboxInv
  OBVIOUS
<1> USE DEF Init
<1>1. TypeOK
  <2>1. image \in Seq(Requests) /\ 0 \in 0 .. MaxSeq /\ 0 \in 0 .. MaxLives /\ 0 \in 0 .. MaxFailures
    BY EmptySeq, MailboxAssumption DEF MailboxAssumption
  <2>2. waiting \in BOOLEAN /\ ready \in BOOLEAN /\ kept \subseteq {"req", "resp"} /\ early \in BOOLEAN
    OBVIOUS
  <2> QED
    BY <2>1, <2>2 DEF TypeOK
<1>2. InStep
  BY <1>1 DEF InStep, RunsInOrder, Serving
<1>3. AnswersAreLive /\ AnswerCleared /\ Asked
  BY DEF AnswersAreLive, AnswerCleared, Asked, Serving
<1> QED
  BY <1>2, <1>3 DEF MailboxInv

----------------------------------------------------------------------------
(* The steps *)

\* Taking a request: it is newer than everything that was run.
LEMMA PollStep == MailboxInv /\ Poll => MailboxInv'
<1> SUFFICES ASSUME MailboxInv, Poll PROVE MailboxInv'
  OBVIOUS
<1> USE RequestFields, MailboxAssumption
<1>1. req \in Requests /\ req.seq \in 1 .. MaxSeq /\ req.seq > last_seq
  BY DEF MailboxInv, InStep, TypeOK, Poll, New
<1>2. TypeOK'
  BY <1>1 DEF MailboxInv, InStep, TypeOK, Poll, asking, counts, noted, MailboxAssumption
<1>3. \A i \in DOMAIN image : image[i].seq < req.seq
  <2> TAKE i \in DOMAIN image
  <2>1. image[i] \in Requests
    BY ElementOfSeq DEF MailboxInv, InStep, TypeOK
  <2>2. image[i].seq <= last_seq
    BY DEF MailboxInv, InStep
  <2> QED
    BY <1>1, <2>1, <2>2 DEF MailboxInv, InStep, TypeOK, MailboxAssumption
<1>4. InStep'
  <2>1. \A i \in DOMAIN image : image[i].seq <= req.seq
    <3> TAKE i \in DOMAIN image
    <3>1. image[i] \in Requests
      BY ElementOfSeq DEF MailboxInv, InStep, TypeOK
    <3> QED
      BY <1>1, <1>3, <3>1 DEF MailboxAssumption
  <2> QED
    BY <1>1, <1>2, <1>3, <2>1 DEF MailboxInv, InStep, RunsInOrder, Poll, Serving
<1>5. AnswersAreLive' /\ AnswerCleared'
  BY DEF MailboxInv, AnswersAreLive, AnswerCleared, Serving, Poll, noted
<1>6. Asked'
  BY <1>1 DEF MailboxInv, Asked, Poll, asking
<1> QED
  BY <1>4, <1>5, <1>6 DEF MailboxInv

\* Running it: it becomes the last and highest of what was run.
LEMMA RunStep == MailboxInv /\ Run => MailboxInv'
<1> SUFFICES ASSUME MailboxInv, Run PROVE MailboxInv'
  OBVIOUS
<1> USE RequestFields, MailboxAssumption
<1>1. /\ taken \in Requests /\ taken.seq = last_seq /\ last_seq \in 0 .. MaxSeq
      /\ image \in Seq(Requests) /\ \A i \in DOMAIN image : image[i].seq < last_seq
  BY DEF MailboxInv, InStep, TypeOK, Run
<1>2. /\ image' \in Seq(Requests) /\ Len(image') = Len(image) + 1
      /\ \A i \in 1 .. Len(image) : image'[i] = image[i]
      /\ image'[Len(image) + 1] = taken
      /\ Len(image) \in Nat /\ DOMAIN image = 1 .. Len(image)
      /\ DOMAIN image' = 1 .. Len(image) + 1
  BY <1>1, AppendProperties, LenProperties DEF Run
<1>3. TypeOK'
  BY <1>2 DEF MailboxInv, InStep, TypeOK, Run, asking, counts, noted
<1>4. \A i \in DOMAIN image' : image'[i].seq <= last_seq
  <2> TAKE i \in DOMAIN image'
  <2>1. CASE i = Len(image) + 1
    BY <1>1, <1>2, <2>1 DEF MailboxAssumption
  <2>2. CASE i \in DOMAIN image
    <3>1. image[i] \in Requests
      BY <1>1, ElementOfSeq, <1>2, <2>2
    <3> QED
      BY <1>1, <1>2, <2>2, <3>1 DEF MailboxAssumption
  <2> QED
    BY <1>2, <2>1, <2>2
<1>5. RunsInOrder'
  <2> SUFFICES ASSUME NEW i \in DOMAIN image', NEW j \in DOMAIN image', i < j
               PROVE  image'[i].seq < image'[j].seq
    BY DEF RunsInOrder
  <2>1. i \in DOMAIN image
    BY <1>2
  <2>2. CASE j \in DOMAIN image
    BY <1>2, <2>1, <2>2 DEF MailboxInv, InStep, RunsInOrder
  <2>3. CASE j = Len(image) + 1
    BY <1>1, <1>2, <2>1, <2>3
  <2> QED
    BY <1>2, <2>2, <2>3
<1>6. image' # <<>> /\ image'[Len(image')] = taken
  BY <1>1, <1>2, EmptySeq
<1>7. InStep'
  BY <1>1, <1>3, <1>4, <1>5, <1>6 DEF MailboxInv, InStep, Run, Serving
<1>8. AnswersAreLive' /\ AnswerCleared' /\ Asked'
  BY <1>2 DEF MailboxInv, AnswersAreLive, AnswerCleared, Asked, Serving, Run, asking, noted
<1> QED
  BY <1>7, <1>8 DEF MailboxInv

\* Showing the answer: it is that of what was run last.
LEMMA RenameStep == MailboxInv /\ Rename => MailboxInv'
<1> SUFFICES ASSUME MailboxInv, Rename PROVE MailboxInv'
  OBVIOUS
<1>1. /\ resp' = taken /\ taken \in Requests
      /\ image # <<>> /\ image[Len(image)] = taken /\ image \in Seq(Requests)
  BY RequestFields DEF MailboxInv, InStep, TypeOK, Rename
<1>2. Len(image) \in DOMAIN image
  BY <1>1, EmptySeq, LenProperties
<1>3. InStep'
  BY <1>1 DEF MailboxInv, InStep, TypeOK, RunsInOrder, Rename, Serving, asking, counts, noted
<1>4. AnswersAreLive'
  BY <1>1, <1>2 DEF AnswersAreLive, Rename
<1>5. AnswerCleared' /\ Asked'
  BY DEF MailboxInv, AnswerCleared, Asked, Rename, asking
<1> QED
  BY <1>3, <1>4, <1>5 DEF MailboxInv

\* Starting: the session is new, the files of the last life are removed one by
\* one, and only then the server says that it is ready.
LEMMA StartStep ==
  ASSUME MailboxInv, Start \/ ClearReq \/ ClearResp \/ MarkReady
  PROVE  MailboxInv'
<1> USE RequestFields, MailboxAssumption
<1>1. image = <<>> /\ image' = <<>> /\ DOMAIN image' = {}
  BY DEF MailboxInv, InStep, Serving, Start, ClearReq, ClearResp, MarkReady
<1>2. TypeOK'
  <2>1. CASE Start
    <3>1. ready' \in BOOLEAN /\ lives' \in 0 .. MaxLives /\ 0 \in 0 .. MaxSeq
      BY <2>1 DEF MailboxInv, InStep, TypeOK, Start, MailboxAssumption
    <3> QED
      BY <2>1, <3>1 DEF MailboxInv, InStep, TypeOK, Start, asking
  <2>2. ASSUME Fails PROVE failures' \in 0 .. MaxFailures
    BY <2>2 DEF MailboxInv, InStep, TypeOK, Fails, MailboxAssumption
  <2>3. CASE ClearReq
    <3>1. failures' \in 0 .. MaxFailures /\ kept' \subseteq {"req", "resp"} /\ req' \in Requests \cup {Absent}
      BY <2>2, <2>3 DEF MailboxInv, InStep, TypeOK, ClearReq
    <3> QED
      BY <2>3, <3>1 DEF MailboxInv, InStep, TypeOK, ClearReq, asking
  <2>4. CASE ClearResp
    <3>1. failures' \in 0 .. MaxFailures /\ kept' \subseteq {"req", "resp"} /\ resp' \in Requests \cup {Absent}
      BY <2>2, <2>4 DEF MailboxInv, InStep, TypeOK, ClearResp
    <3> QED
      BY <2>4, <3>1 DEF MailboxInv, InStep, TypeOK, ClearResp, asking
  <2>5. CASE MarkReady
    <3>1. failures' \in 0 .. MaxFailures
      BY <2>2, <2>5 DEF MailboxInv, InStep, TypeOK, MarkReady
    <3>2. ready' \in BOOLEAN
      BY <2>5 DEF MailboxInv, InStep, TypeOK, MarkReady
    <3> QED
      BY <2>5, <3>1, <3>2 DEF MailboxInv, InStep, TypeOK, MarkReady, asking, noted
  <2> QED
    BY <2>1, <2>3, <2>4, <2>5
<1>3. InStep'
  BY <1>1, <1>2 DEF InStep, RunsInOrder, Start, ClearReq, ClearResp, MarkReady
<1>4. AnswersAreLive' /\ AnswerCleared'
  <2>1. CASE Start \/ ClearReq
    BY <2>1 DEF AnswersAreLive, AnswerCleared, Serving, Start, ClearReq
  <2>2. CASE ClearResp
    BY <2>2 DEF AnswersAreLive, AnswerCleared, Serving, ClearResp
  <2>3. CASE MarkReady
    BY <2>3 DEF MailboxInv, AnswersAreLive, AnswerCleared, Serving, MarkReady, noted
  <2> QED
    BY <2>1, <2>2, <2>3
<1>5. Asked'
  BY DEF MailboxInv, InStep, TypeOK, Asked, Start, ClearReq, ClearResp, MarkReady, asking, MailboxAssumption
<1> QED
  BY <1>3, <1>4, <1>5 DEF MailboxInv

\* Writing the answer aside, failing to, or the end of the process.
LEMMA WriteStep ==
  ASSUME MailboxInv, Write \/ WriteFails \/ Crash
  PROVE  MailboxInv'
<1>1. CASE Crash
  <2>1. image' = <<>> /\ DOMAIN image' = {}
    BY <1>1 DEF Crash
  <2>2. InStep'
    BY <1>1, <2>1, EmptySeq DEF MailboxInv, InStep, TypeOK, RunsInOrder, Crash, asking, counts, noted
  <2> QED
    BY <1>1, <2>2 DEF MailboxInv, AnswersAreLive, AnswerCleared, Asked, Serving, Crash, asking
<1>2. CASE Write
  <2>1. InStep'
    BY <1>2 DEF MailboxInv, InStep, TypeOK, RunsInOrder, Write, Serving, asking, counts, noted
  <2> QED
    BY <1>2, <2>1 DEF MailboxInv, AnswersAreLive, AnswerCleared, Asked, Serving, Write, asking, noted
<1>3. CASE WriteFails
  <2>1. InStep'
    BY <1>3, MailboxAssumption
    DEF MailboxInv, InStep, TypeOK, RunsInOrder, WriteFails, Fails, Serving, asking, noted, MailboxAssumption
  <2> QED
    BY <1>3, <2>1 DEF MailboxInv, AnswersAreLive, AnswerCleared, Asked, Serving, WriteFails, asking, noted
<1> QED
  BY <1>1, <1>2, <1>3

\* The client changes the request file and its own counters only.
LEMMA ClientStep ==
  ASSUME MailboxInv, Send \/ WriteOn \/ Retry \/ GiveUp \/ Accept
  PROVE  MailboxInv'
<1> USE RequestFields, MailboxAssumption
<1>1. /\ UNCHANGED <<server, resp, resp_tmp, ready, counts, kept>>
      /\ seq' \in 0 .. MaxSeq /\ seq' >= seq
  BY DEF MailboxInv, InStep, TypeOK, Send, WriteOn, Retry, GiveUp, Accept, PutRequest, Writes, noted,
         MailboxAssumption, server, counts
<1>2. sending' \in 0 .. 2 /\ waiting' \in BOOLEAN /\ answered' \subseteq 1 .. MaxSeq
  <2>1. CASE Accept
    <3>1. seq \in 1 .. MaxSeq
      BY <2>1 DEF MailboxInv, InStep, TypeOK, Accept
    <3> QED
      BY <2>1, <3>1 DEF MailboxInv, InStep, TypeOK, Accept
  <2>2. CASE Send \/ Retry
    <3>1. sending' \in 0 .. 2
      BY <2>2 DEF Send, Retry, PutRequest
    <3>2. waiting' \in BOOLEAN
      BY <2>2 DEF MailboxInv, InStep, TypeOK, Send, Retry
    <3>3. answered' \subseteq 1 .. MaxSeq
      BY <2>2 DEF MailboxInv, InStep, TypeOK, Send, Retry
    <3> QED
      BY <3>1, <3>2, <3>3
  <2>3. CASE WriteOn
    BY <2>3 DEF MailboxInv, InStep, TypeOK, WriteOn
  <2>4. CASE GiveUp
    BY <2>4 DEF MailboxInv, InStep, TypeOK, GiveUp
  <2> QED
    BY <2>1, <2>2, <2>3, <2>4
<1>3. /\ req' \in Requests \cup {Absent}
      /\ req' # Absent => req'.seq <= seq'
      /\ waiting' \/ sending' > 0 => seq' >= 1
  <2>1. seq \in 0 .. MaxSeq /\ MaxSeq \in Nat /\ sending \in 0 .. 2
    BY DEF MailboxInv, InStep, TypeOK, MailboxAssumption
  <2>2. CASE Send
    <3>1. seq + 1 \in 1 .. MaxSeq
      BY <2>1, <2>2 DEF Send
    <3>2. [seq |-> seq + 1, whole |-> TRUE] \in Requests
      BY <3>1 DEF Requests
    <3> QED
      BY <2>1, <2>2, <3>1, <3>2 DEF Send, PutRequest
  <2>3. CASE WriteOn
    <3>1. seq \in 1 .. MaxSeq
      BY <2>1, <2>3 DEF MailboxInv, Asked, WriteOn
    <3>2. req' = [seq |-> seq, whole |-> (sending = 1)] /\ req' \in Requests
      BY <2>3, <3>1 DEF WriteOn, Request, Requests
    <3> QED
      BY <2>1, <2>3, <3>1, <3>2 DEF WriteOn
  <2>4. CASE Retry
    <3>1. seq \in 1 .. MaxSeq
      BY <2>1, <2>4 DEF MailboxInv, Asked, Retry
    <3>2. [seq |-> seq, whole |-> TRUE] \in Requests
      BY <3>1 DEF Requests
    <3> QED
      BY <2>1, <2>4, <3>1, <3>2 DEF Retry, PutRequest
  <2>5. CASE GiveUp \/ Accept
    BY <2>1, <2>5 DEF MailboxInv, InStep, TypeOK, Asked, GiveUp, Accept
  <2> QED
    BY <2>2, <2>3, <2>4, <2>5
<1>4. InStep'
  <2>1. early' \in BOOLEAN
    <3>1. CASE Writes
      BY <3>1 DEF MailboxInv, InStep, TypeOK, Writes
    <3>2. CASE UNCHANGED noted
      BY <3>2 DEF MailboxInv, InStep, TypeOK, noted
    <3> QED
      BY <3>1, <3>2 DEF Send, WriteOn, Retry, GiveUp, Accept, PutRequest
  <2> QED
    BY <1>1, <1>2, <1>3, <2>1 DEF MailboxInv, InStep, TypeOK, RunsInOrder, Serving, server, counts
<1>5. AnswersAreLive' /\ AnswerCleared'
  BY <1>1 DEF MailboxInv, AnswersAreLive, AnswerCleared, Serving, server
<1>6. Asked'
  <2>1. last_seq \in 0 .. MaxSeq /\ seq \in 0 .. MaxSeq /\ MaxSeq \in Nat /\ last_seq <= seq
    BY DEF MailboxInv, InStep, TypeOK, Asked, MailboxAssumption
  <2> QED
    BY <2>1, <1>1, <1>3 DEF Asked, server
<1> QED
  BY <1>4, <1>5, <1>6 DEF MailboxInv

\* What changes nothing keeps the invariant.
LEMMA StutterStep == MailboxInv /\ UNCHANGED vars => MailboxInv'
BY DEF MailboxInv, InStep, TypeOK, RunsInOrder, AnswersAreLive, AnswerCleared, Asked,
       Serving, vars, server, asking, counts, noted

\* Every step keeps the invariant, by the lemmas above.
LEMMA NextStep == MailboxInv /\ [Next]_vars => MailboxInv'
BY PollStep, RunStep, RenameStep, StartStep, WriteStep, ClientStep, StutterStep DEF Next, Server

----------------------------------------------------------------------------
(* The theorems *)

\* The invariant of the server holds throughout.
LEMMA Invariance == Spec => []MailboxInv
<1>1. Init => MailboxInv
  BY InitInv
<1>2. MailboxInv /\ [Next]_vars => MailboxInv'
  BY NextStep
<1> QED
  BY <1>1, <1>2, PTL DEF Spec

\* Where the server is agrees with what it holds; in one life it runs no request
\* twice and none behind a later one (the loop in serve_mailbox).
THEOREM ServerInStep == Spec => []InStep
<1>1. MailboxInv => InStep
  BY DEF MailboxInv
<1> QED
  BY <1>1, Invariance, PTL

\* A client that finds a server serving never reads an answer of an earlier
\* session, if it can be removed (the removals at the start of serve_mailbox).
THEOREM AnswersLive == Spec => []AnswersAreLive
<1>1. MailboxInv => AnswersAreLive
  BY DEF MailboxInv
<1> QED
  BY <1>1, Invariance, PTL

----------------------------------------------------------------------------
(* What was answered is not run again *)

\* The client asks no more for what was answered; so, if it wrote nothing while
\* this life was starting and the old files are gone, a number that was answered
\* is either behind the server's last one or not in the request file.
AnsweredBehind ==
  /\ answered \subseteq 1 .. seq
  /\ sending > 0 => waiting
  /\ waiting => seq \notin answered
  /\ ~early /\ kept = {} =>
       /\ pc \in {"clear_resp", "mark"} => req = Absent
       /\ Serving /\ req # Absent /\ req.seq \in answered => req.seq <= last_seq
       /\ pc = "run" => taken.seq \notin answered

\* At first nothing is answered.
LEMMA InitBehind == Init => AnsweredBehind
BY DEF Init, AnsweredBehind, Serving

\* The numbers of the files and of the two processes.
LEMMA Numbers ==
  ASSUME MailboxInv
  PROVE  /\ seq \in Nat /\ last_seq \in Nat /\ answered \subseteq Nat
         /\ req # Absent => req.seq \in Nat
         /\ resp # Absent => resp.seq \in Nat
         /\ pc = "run" => taken.seq = last_seq
BY RequestFields, MailboxAssumption DEF MailboxInv, InStep, TypeOK, MailboxAssumption

\* The answer the client accepts from a server that serves is one of this life:
\* it is not ahead of the last number, and behind the one that is being run.
LEMMA AcceptedBehind ==
  ASSUME MailboxInv, Serving, resp # Absent, kept = {}
  PROVE  resp.seq <= last_seq /\ (pc = "run" => resp.seq < last_seq)
<1>1. PICK i \in DOMAIN image : image[i] = resp
  BY DEF MailboxInv, AnswersAreLive
<1> QED
  BY <1>1 DEF MailboxInv, InStep

\* Every step keeps it.
LEMMA NextBehind == MailboxInv /\ AnsweredBehind /\ [Next]_vars => AnsweredBehind'
<1> SUFFICES ASSUME MailboxInv, AnsweredBehind, [Next]_vars PROVE AnsweredBehind'
  OBVIOUS
<1> USE DEF AnsweredBehind, Serving
<1>1. CASE Start
  BY <1>1 DEF Start, asking
<1>2. CASE ClearReq
  BY <1>2 DEF ClearReq, asking
<1>3. CASE ClearResp
  <2>1. kept' = {} => kept = {}
    BY <1>3 DEF ClearResp
  <2> QED
    BY <1>3, <2>1 DEF ClearResp, asking
<1>4. CASE MarkReady
  BY <1>4 DEF MarkReady, asking, noted
<1>5. CASE Poll
  BY <1>5, Numbers DEF Poll, New, asking, noted
<1>6. CASE Run \/ Write \/ Rename \/ WriteFails \/ Crash
  <2>1. /\ pc' \in {"write", "rename", "poll", "down"} /\ UNCHANGED <<last_seq, req, asking, noted>>
        /\ pc' \in {"write", "rename", "poll"} => Serving
    BY <1>6 DEF Run, Write, Rename, WriteFails, Crash
  <2> QED
    BY <2>1 DEF asking, noted
<1>7. CASE Send
  <2>1. /\ req' = Absent \/ req' = [seq |-> seq + 1, whole |-> TRUE]
        /\ seq' = seq + 1 /\ waiting' /\ kept' = kept /\ (~early' => ~early /\ ~Starting)
        /\ UNCHANGED <<server, answered>>
    BY <1>7 DEF Send, PutRequest, Writes
  <2>2. seq + 1 \notin answered /\ answered \subseteq 1 .. seq + 1
    BY Numbers
  <2> QED
    BY <2>1, <2>2 DEF server, Starting
<1>8. CASE Retry
  <2>1. /\ req' = Absent \/ req' = [seq |-> seq, whole |-> TRUE]
        /\ waiting /\ kept' = kept /\ (~early' => ~early /\ ~Starting)
        /\ UNCHANGED <<server, answered, seq, waiting>>
    BY <1>8 DEF Retry, PutRequest, Writes
  <2> QED
    BY <2>1 DEF server, Starting
<1>9. CASE WriteOn
  <2>1. /\ req' = [seq |-> seq, whole |-> (sending = 1)]
        /\ waiting /\ kept' = kept /\ (~early' => ~early /\ ~Starting)
        /\ UNCHANGED <<server, answered, seq, waiting>>
    BY <1>9 DEF WriteOn, Writes, Request
  <2> QED
    BY <2>1 DEF server, Starting
<1>10. CASE GiveUp
  <2>1. sending' = 0 /\ UNCHANGED <<server, req, seq, answered, noted>>
    BY <1>10 DEF GiveUp
  <2> QED
    BY <1>10, <2>1 DEF GiveUp, server, noted
<1>11. CASE Accept
  <2>1. /\ resp # Absent /\ resp.seq = seq /\ ~waiting' /\ answered' = answered \cup {seq}
        /\ waiting /\ sending = 0 /\ UNCHANGED <<server, req, ready, seq, sending, noted>>
    BY <1>11 DEF Accept
  <2>2. seq \in 1 .. seq
    BY <2>1, Numbers DEF MailboxInv, Asked
  <2>3. Serving /\ kept = {} => seq <= last_seq /\ (pc = "run" => taken.seq # seq)
    BY <2>1, Numbers, AcceptedBehind
  <2>4. answered' \subseteq 1 .. seq' /\ ~(sending' > 0) /\ ~waiting'
    <3>1. seq' = seq /\ sending' = 0 /\ ~waiting'
      BY <2>1
    <3>2. answered' \subseteq 1 .. seq'
      BY <2>1, <2>2, <3>1
    <3> QED
      BY <3>1, <3>2
  <2>5. ASSUME ~early', kept' = {}
        PROVE  /\ pc' \in {"clear_resp", "mark"} => req' = Absent
               /\ Serving' /\ req' # Absent /\ req'.seq \in answered' => req'.seq <= last_seq'
               /\ pc' = "run" => taken'.seq \notin answered'
    <3>1. ~early /\ kept = {}
      BY <2>1, <2>5 DEF noted
    <3>2. UNCHANGED <<pc, req, last_seq, taken>>
      BY <2>1 DEF server
    <3> QED
      BY <2>1, <2>3, <3>1, <3>2
  <2> QED
    BY <2>4, <2>5
<1>12. CASE UNCHANGED vars
  BY <1>12 DEF vars, server, asking, noted
<1> QED
  BY <1>1, <1>2, <1>3, <1>4, <1>5, <1>6, <1>7, <1>8, <1>9, <1>10, <1>11, <1>12 DEF Next, Server

\* A request whose answer the client has taken is never run again, by no later
\* life of the server either, unless the client wrote to that life before it was
\* ready, or that life could not remove an old file: last_seq starts at 0 in every
\* life of serve_mailbox, which removes the request file first.
THEOREM AnsweredNeverRedone == Spec => NeverRedone
<1>1. Spec => []AnsweredBehind
  BY InitBehind, NextBehind, Invariance, PTL DEF Spec
<1>2. AnsweredBehind => (~early /\ kept = {} /\ Run => taken.seq \notin answered)
  BY DEF AnsweredBehind, Run
<1> QED
  BY <1>1, <1>2, PTL DEF NeverRedone

----------------------------------------------------------------------------
(* The promise *)

\* The server starts as the abstract exchange does.
LEMMA PromiseInit == Init => Promise!Init
BY DEF Init, Promise!Init

\* A step of the server is one of the promise or cannot be seen by the client.
LEMMA PromiseStep == MailboxInv /\ [Next]_vars => [Promise!Next]_<<seq, image, resp>>
<1> SUFFICES ASSUME MailboxInv, [Next]_vars PROVE [Promise!Next]_<<seq, image, resp>>
  OBVIOUS
<1>1. CASE Run
  <2>1. /\ taken \in Requests /\ taken.seq = last_seq /\ last_seq <= seq /\ seq \in Nat
        /\ \A i \in DOMAIN image : image[i].seq < taken.seq
    BY <1>1, RequestFields, MailboxAssumption
    DEF MailboxInv, InStep, TypeOK, Asked, Run, MailboxAssumption
  <2>2. taken \in [seq : 1 .. seq, whole : BOOLEAN]
    BY <2>1, MailboxAssumption DEF Requests, MailboxAssumption
  <2> QED
    BY <1>1, <2>1, <2>2 DEF Run, asking, Promise!Run, Promise!Next
<1>2. CASE Rename
  BY <1>2 DEF MailboxInv, InStep, Rename, asking, Promise!Answer, Promise!Next
<1>3. CASE Crash
  BY <1>3 DEF Crash, asking, Promise!Stop, Promise!Next
<1>4. CASE ClearResp
  BY <1>4 DEF ClearResp, asking, Promise!Forget, Promise!Next
<1>5. CASE Send
  BY <1>5 DEF Send, server, Promise!Ask, Promise!Next
<1>6. CASE Start \/ ClearReq \/ MarkReady \/ Poll \/ Write \/ WriteFails
  BY <1>6 DEF Start, ClearReq, MarkReady, Poll, Write, WriteFails, asking
<1>7. CASE WriteOn \/ Retry \/ GiveUp \/ Accept
  BY <1>7 DEF WriteOn, Retry, GiveUp, Accept, server
<1>8. CASE UNCHANGED vars
  BY <1>8 DEF vars, server, asking
<1> QED
  BY <1>1, <1>2, <1>3, <1>4, <1>5, <1>6, <1>7, <1>8 DEF Next, Server

\* The server with its files, crashes and retries does nothing that one session
\* that runs each request once, in order, would not do.
THEOREM KeepsPromise == Spec => ImplementsExchange
<1>1. MailboxInv /\ [Next]_vars => [Promise!Next]_<<seq, image, resp>>
  BY PromiseStep
<1> QED
  BY <1>1, PromiseInit, Invariance, PTL DEF Spec, ImplementsExchange, Promise!Spec
=============================================================================
