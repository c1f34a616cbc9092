------------------------------ MODULE WordList ------------------------------
(***************************************************************************)
(* What the dictionary promises: a list of words, oldest first, of which   *)
(* the newest of a name is the one found.                                  *)
(***************************************************************************)
EXTENDS Naturals, Sequences

CONSTANTS
  Names,   \* the names words may have
  Long     \* names that can be defined but are never found

VARIABLES
  words,   \* the list: records of a name and the word's header
  answer   \* what the last search answered, <<>> when there is none

Newest(n) ==
  IF n \in Long \/ \A k \in 1 .. Len(words) : words[k].name # n THEN 0
  ELSE words[CHOOSE k \in 1 .. Len(words) :
               /\ words[k].name = n
               /\ \A j \in k + 1 .. Len(words) : words[j].name # n].header

Init == words = <<>> /\ answer = <<>>

Define ==
  /\ words' # <<>>
  /\ LET w == words'[Len(words')]
     IN  /\ words' = Append(words, w)
         /\ w.name \in Names
         /\ \A k \in 1 .. Len(words) : words[k].header # w.header
  /\ answer = <<>> /\ UNCHANGED answer

Find(n) == answer = <<>> /\ answer' = <<n, Newest(n)>> /\ UNCHANGED words
Return == answer # <<>> /\ answer' = <<>> /\ UNCHANGED words

Cut(k) == words' = SubSeq(words, 1, k - 1) /\ answer' = <<>>

\* forget cuts the list before the word its search found.
Forget == \E k \in 1 .. Len(words) : answer # <<>> /\ answer[2] = words[k].header /\ Cut(k)
RunMarker == \E k \in 1 .. Len(words) : answer = <<>> /\ Cut(k)

Next == Define \/ (\E n \in Names : Find(n)) \/ Return \/ Forget \/ RunMarker

Spec == Init /\ [][Next]_<<words, answer>>
=============================================================================
