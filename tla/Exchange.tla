------------------------------ MODULE Exchange ------------------------------
(***************************************************************************)
(* What the mailbox server promises (the comment above serve_mailbox in    *)
(* src/wsdriver.rs): one session for the life of the server, that runs     *)
(* each new request once, in the order of the numbers, and an answer that  *)
(* belongs to what the session ran last.                                   *)
(***************************************************************************)
EXTENDS Integers, Sequences

CONSTANT NoAnswer

VARIABLES
  asked,    \* the number of the client's last request
  image,    \* the requests the session has run since the server started
  answer    \* the answer the client can see

Init == asked = 0 /\ image = <<>> /\ answer = NoAnswer

Ask == asked' = asked + 1 /\ UNCHANGED <<image, answer>>
Run == \E r \in [seq : 1 .. asked, whole : BOOLEAN] :
         /\ \A i \in DOMAIN image : image[i].seq < r.seq
         /\ image' = Append(image, r)
         /\ UNCHANGED <<asked, answer>>
Answer ==
  /\ image # <<>>
  /\ answer' = image[Len(image)]
  /\ UNCHANGED <<asked, image>>
Stop == image' = <<>> /\ UNCHANGED <<asked, answer>>
Forget == answer' = NoAnswer /\ UNCHANGED <<asked, image>>

Next == Ask \/ Run \/ Answer \/ Stop \/ Forget
Spec == Init /\ [][Next]_<<asked, image, answer>>
=============================================================================
