----------------------------- MODULE AppendLog -----------------------------
(***************************************************************************)
(* What the buffer of a service's output promises to those who read it: a  *)
(* log that only grows, whose oldest part is forgotten.  A reader gets the *)
(* log in order and without a hole; one that was overtaken by the writer   *)
(* is told so, once, before it goes on with what is left.                  *)
(***************************************************************************)
EXTENDS Integers, Sequences

CONSTANTS Symbol,   \* what the log is made of
          Reader,
          Lost,     \* the place of a reader that was overtaken
          Gap       \* what tells a reader that it was overtaken

VARIABLES log,      \* all that was ever appended
          oldest,   \* the number of symbols that were forgotten
          place,    \* reader -> the number of symbols before its next one, or Lost
          owed,     \* the readers that have yet to be told that they were overtaken
          given     \* reader -> what it was handed last

vars == <<log, oldest, place, owed, given>>

Init ==
  /\ log = <<>>
  /\ oldest = 0
  /\ place = [r \in Reader |-> 0]
  /\ owed = {}
  /\ given = [r \in Reader |-> <<>>]

\* The log grows and may forget what is old
Grow ==
  /\ \E n \in 1 .. Len(log') :
       /\ Len(log') = Len(log) + n
       /\ SubSeq(log', 1, Len(log)) = log
  /\ oldest' \in oldest .. Len(log')
  /\ UNCHANGED <<place, owed, given>>

\* A new reader takes r's name: from the oldest symbol or from somewhere before the end
Open(r) ==
  /\ place'[r] \in Int
  /\ place'[r] <= Len(log)
  /\ place' = [place EXCEPT ![r] = place'[r]]
  /\ owed' = owed \ {r}
  /\ given' = [given EXCEPT ![r] = <<>>]
  /\ UNCHANGED <<log, oldest>>

\* Only a reader whose next symbol is gone is lost, and it is owed a Gap
Lose(r) ==
  /\ place[r] # Lost
  /\ place[r] < oldest
  /\ place' = [place EXCEPT ![r] = Lost]
  /\ owed' = owed \cup {r}
  /\ UNCHANGED <<log, oldest, given>>

Announce(r) ==
  /\ r \in owed
  /\ owed' = owed \ {r}
  /\ given' = [given EXCEPT ![r] = <<Gap>>]
  /\ UNCHANGED <<log, oldest, place>>

\* The next symbols of the log, from the oldest one for a reader that was lost
Take(r) ==
  /\ r \notin owed
  /\ place[r] = Lost \/ place[r] >= oldest
  /\ LET from == IF place[r] = Lost THEN oldest ELSE place[r]
     IN \E n \in 1 .. Len(log) - from :
          /\ given' = [given EXCEPT ![r] = SubSeq(log, from + 1, from + n)]
          /\ place' = [place EXCEPT ![r] = from + n]
  /\ UNCHANGED <<log, oldest, owed>>

Next ==
  \/ Grow
  \/ \E r \in Reader : Open(r) \/ Lose(r) \/ Announce(r) \/ Take(r)

Spec == Init /\ [][Next]_vars
=============================================================================
