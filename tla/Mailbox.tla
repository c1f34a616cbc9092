------------------------------ MODULE Mailbox ------------------------------
(***************************************************************************)
(* The mailbox server (serve_mailbox in src/wsdriver.rs): a process that   *)
(* polls a request file, runs each new request in its one session and      *)
(* writes the answer to another file.  The client is not part of the       *)
(* repository: it is modelled by what the server needs of it, together     *)
(* with the faults both have to live with.                                 *)
(*                                                                         *)
(* A request is its number and whether the server read all of it.          *)
(***************************************************************************)
EXTENDS Integers, Sequences

CONSTANTS
  MaxSeq,      \* bound: the requests of the client
  MaxLives,    \* bound: the times the server is started
  MaxFailures, \* bound: the files that cannot be written or removed
  Absent       \* no file

ASSUME MailboxAssumption ==
  /\ MaxSeq \in Nat /\ MaxLives \in Nat /\ MaxFailures \in Nat
  /\ Absent \notin [seq : Nat, whole : BOOLEAN]

VARIABLES
  pc,          \* where the server is
  last_seq, taken, image,  \* its last number, the request it runs, its session
  req, resp, resp_tmp, ready,  \* the files
  seq, sending, waiting, answered,  \* the client: the number of its request, the
                                    \* parts of it still to write, whether it waits
                                    \* for the answer, the numbers answered
  client,      \* its manners: whether it writes a request in one piece, and
               \* whether `ready` is removed before the server is started again
  lives, failures,
  kept,        \* the files of an earlier life that this one could not remove
  early        \* whether the client wrote while this life was starting

server == <<pc, last_seq, taken, image>>
asking == <<seq, sending, waiting, answered>>
counts == <<client, lives, failures>>
noted == <<kept, early>>
vars == <<server, req, resp, resp_tmp, ready, asking, counts, noted>>

Request(whole) == [seq |-> seq, whole |-> whole]
Requests == [seq : 1 .. MaxSeq, whole : BOOLEAN]

Starting == pc \in {"clear_req", "clear_resp", "mark"}
Serving == pc \in {"poll", "run", "write", "rename"}

Init ==
  /\ pc = "down" /\ last_seq = 0 /\ taken = Absent /\ image = <<>>
  /\ req = Absent /\ resp = Absent /\ resp_tmp = Absent /\ ready = FALSE
  /\ seq = 0 /\ sending = 0 /\ waiting = FALSE /\ answered = {}
  /\ client \in [atomic : BOOLEAN, fresh : BOOLEAN]
  /\ lives = 0 /\ failures = 0 /\ kept = {} /\ early = FALSE

----------------------------------------------------------------------------
(* The server *)

StartKeepingSeq ==                                               \* (mutant)
  /\ pc = "down" /\ lives < MaxLives
  /\ pc' = "clear_req" /\ lives' = lives + 1
  /\ ready' = (ready /\ ~client.fresh)
  /\ kept' = {} /\ early' = FALSE
  /\ UNCHANGED <<last_seq, taken, image, req, resp, resp_tmp, asking, client, failures>>
Start ==
  /\ pc = "down" /\ lives < MaxLives
  /\ pc' = "clear_req" /\ lives' = lives + 1
  /\ last_seq' = 0 /\ taken' = Absent
  /\ ready' = (ready /\ ~client.fresh)
  /\ kept' = {} /\ early' = FALSE
  /\ UNCHANGED <<image, req, resp, resp_tmp, asking, client, failures>>

\* A file that cannot be removed or written: the server goes on without.
Fails == failures < MaxFailures /\ failures' = failures + 1

ClearReqNot ==                                                   \* (mutant)
  pc = "clear_req" /\ pc' = "clear_resp"
  /\ UNCHANGED <<last_seq, taken, image, req, resp, resp_tmp, ready, asking, counts, noted>>
ClearReq ==
  /\ pc = "clear_req" /\ pc' = "clear_resp"
  /\ \/ req' = Absent /\ UNCHANGED <<failures, kept>>
     \/ req # Absent /\ Fails /\ kept' = {"req"} /\ req' = req
  /\ UNCHANGED <<last_seq, taken, image, resp, resp_tmp, ready, asking, client, lives, early>>
ClearRespNot ==                                                  \* (mutant)
  pc = "clear_resp" /\ pc' = "mark"
  /\ UNCHANGED <<last_seq, taken, image, req, resp, resp_tmp, ready, asking, counts, noted>>
ClearResp ==
  /\ pc = "clear_resp" /\ pc' = "mark"
  /\ \/ resp' = Absent /\ UNCHANGED <<failures, kept>>
     \/ resp # Absent /\ Fails /\ kept' = kept \cup {"resp"} /\ resp' = resp
  /\ UNCHANGED <<last_seq, taken, image, req, resp_tmp, ready, asking, client, lives, early>>
MarkReady ==
  /\ pc = "mark" /\ pc' = "poll"
  /\ \/ ready' = TRUE /\ UNCHANGED failures
     \/ Fails /\ ready' = ready
  /\ UNCHANGED <<last_seq, taken, image, req, resp, resp_tmp, asking, client, lives, noted>>

\* A request is new when its number is higher than the last one's.
NewOrSame(r) == r # Absent /\ r.seq >= last_seq                  \* (mutant)
New(r) == r # Absent /\ r.seq > last_seq
PollNoting ==                                                    \* (mutant)
  /\ pc = "poll" /\ New(req)
  /\ pc' = "run" /\ taken' = req
  /\ UNCHANGED <<last_seq, image, req, resp, resp_tmp, ready, asking, counts, noted>>
Poll ==
  /\ pc = "poll" /\ New(req)
  /\ pc' = "run"
  /\ last_seq' = req.seq /\ taken' = req
  /\ UNCHANGED <<image, req, resp, resp_tmp, ready, asking, counts, noted>>
Run ==
  /\ pc = "run" /\ pc' = "write"
  /\ image' = Append(image, taken)
  /\ UNCHANGED <<last_seq, taken, req, resp, resp_tmp, ready, asking, counts, noted>>
WriteReread ==                                                   \* (mutant)
  /\ pc = "write" /\ pc' = "rename"
  /\ resp_tmp' = req
  /\ UNCHANGED <<last_seq, taken, image, req, resp, ready, asking, counts, noted>>
Write ==
  /\ pc = "write" /\ pc' = "rename"
  /\ resp_tmp' = taken
  /\ UNCHANGED <<last_seq, taken, image, req, resp, ready, asking, counts, noted>>
RenameKeeping ==                                                 \* (mutant)
  /\ pc = "rename" /\ pc' = "poll"
  /\ resp' = IF resp = Absent THEN resp_tmp ELSE resp
  /\ resp_tmp' = Absent
  /\ UNCHANGED <<last_seq, taken, image, req, ready, asking, counts, noted>>
Rename ==
  /\ pc = "rename" /\ pc' = "poll"
  /\ resp' = resp_tmp /\ resp_tmp' = Absent
  /\ UNCHANGED <<last_seq, taken, image, req, ready, asking, counts, noted>>
\* Neither is tried again when it fails.
WriteFails ==
  /\ pc \in {"write", "rename"} /\ Fails
  /\ pc' = "poll"
  /\ UNCHANGED <<last_seq, taken, image, req, resp, resp_tmp, ready, asking, client, lives, noted>>

\* The process ends, with the session it holds; the files stay.  The last life
\* does not: crashes are finitely many.
Crash ==
  /\ pc # "down" /\ lives < MaxLives
  /\ pc' = "down" /\ image' = <<>>
  /\ UNCHANGED <<last_seq, taken, req, resp, resp_tmp, ready, asking, counts, noted>>

----------------------------------------------------------------------------
(* The client *)

Writes == early' = (early \/ Starting) /\ UNCHANGED kept
\* It replaces the request file, or empties it and then writes the number's
\* line and the rest.
PutRequest(n) ==
  /\ req' = IF client.atomic THEN [seq |-> n, whole |-> TRUE] ELSE Absent
  /\ sending' = IF client.atomic THEN 0 ELSE 2
  /\ Writes

Send ==
  /\ ~waiting /\ ready /\ seq < MaxSeq
  /\ seq' = seq + 1 /\ waiting' = TRUE
  /\ PutRequest(seq + 1)
  /\ UNCHANGED <<server, resp, resp_tmp, ready, answered, counts>>
WriteOn ==
  /\ sending > 0 /\ sending' = sending - 1
  /\ req' = Request(sending = 1)
  /\ Writes
  /\ UNCHANGED <<server, resp, resp_tmp, ready, seq, waiting, answered, counts>>
\* It was kept waiting for too long, and writes the same request again ...
Retry ==
  /\ waiting /\ sending = 0 /\ ready
  /\ PutRequest(seq)
  /\ UNCHANGED <<server, resp, resp_tmp, ready, seq, waiting, answered, counts>>
\* ... or does without the answer.
GiveUp ==
  /\ waiting /\ sending = 0
  /\ waiting' = FALSE
  /\ UNCHANGED <<server, req, resp, resp_tmp, ready, seq, sending, answered, counts, noted>>
Accept ==
  /\ waiting /\ sending = 0
  /\ resp # Absent /\ resp.seq = seq
  /\ waiting' = FALSE /\ answered' = answered \cup {seq}
  /\ UNCHANGED <<server, req, resp, resp_tmp, ready, seq, sending, counts, noted>>

----------------------------------------------------------------------------

Server == Start \/ ClearReq \/ ClearResp \/ MarkReady \/ Poll \/ Run \/ Write \/ Rename
Next ==
  \/ Server \/ WriteFails \/ Crash
  \/ Send \/ WriteOn \/ Retry \/ GiveUp \/ Accept

\* The server's loop goes on, someone starts it again, and a client that waits
\* reads the answer when there is one and tries again when there is none.  A
\* client that rewrites its file over and over does not forever meet the poll
\* just when the file is empty: the two are not in step.
Fairness ==
  /\ WF_vars(Server) /\ SF_vars(Poll)
  /\ WF_vars(WriteOn) /\ WF_vars(Retry) /\ SF_vars(Accept)
Spec == Init /\ [][Next]_vars /\ Fairness

----------------------------------------------------------------------------
(* Properties *)

TypeOK ==
  /\ pc \in {"down", "clear_req", "clear_resp", "mark", "poll", "run", "write", "rename"}
  /\ last_seq \in 0 .. MaxSeq /\ taken \in Requests \cup {Absent} /\ image \in Seq(Requests)
  /\ req \in Requests \cup {Absent} /\ resp \in Requests \cup {Absent}
  /\ resp_tmp \in Requests \cup {Absent} /\ ready \in BOOLEAN
  /\ seq \in 0 .. MaxSeq /\ sending \in 0 .. 2
  /\ waiting \in BOOLEAN /\ answered \subseteq 1 .. MaxSeq
  /\ client \in [atomic : BOOLEAN, fresh : BOOLEAN]
  /\ lives \in 0 .. MaxLives /\ failures \in 0 .. MaxFailures
  /\ kept \subseteq {"req", "resp"} /\ early \in BOOLEAN
\* One life of the server runs no request twice and none behind a later one,
\* however often the client writes it again.
RunsInOrder == \A i, j \in DOMAIN image : i < j => image[i].seq < image[j].seq

\* Where the server is agrees with what it holds: it answers the request it
\* took and ran, whose number is the last one, ran nothing before it is ready,
\* and nothing twice.
InStep ==
  /\ TypeOK
  /\ RunsInOrder
  /\ ~Serving => image = <<>>
  /\ \A i \in DOMAIN image : image[i].seq <= last_seq
  /\ pc \in {"run", "write", "rename"} => taken # Absent /\ taken.seq = last_seq
  /\ pc = "run" => \A i \in DOMAIN image : image[i].seq < last_seq
  /\ pc \in {"write", "rename"} => image # <<>> /\ image[Len(image)] = taken
  /\ pc = "rename" => resp_tmp = taken

\* The answer that can be seen while the server serves is that of a request
\* its own session ran, not one of a session that is gone; unless the old answer
\* could not be removed.
AnswersAreLive ==
  Serving /\ resp # Absent /\ "resp" \notin kept => \E i \in DOMAIN image : image[i] = resp

\* A request whose answer the client has taken is never run again, by no later
\* life of the server either, unless the client wrote to that life before it was
\* ready or the life could not remove an old file.  (A request that comes between
\* the removals of the two files meets the old answer and is run again.)
NeverRedone == [][~early /\ kept = {} /\ Run => taken.seq \notin answered]_vars

\* A client that waits gets its answer or gives up, across crashes, lost and
\* half-written requests, unless a file could not be written or removed.
WaitEnds == waiting ~> (~waiting \/ failures > 0)

Promise == INSTANCE Exchange WITH asked <- seq, answer <- resp, NoAnswer <- Absent
ImplementsExchange == Promise!Spec
=============================================================================
