------------------------------ MODULE YfsFiles ------------------------------
(***************************************************************************)
(* What the block layer promises: files that hold words.  A file grows at  *)
(* its end and keeps the words it has, a store fills a run of words of one *)
(* file, and no step touches two files.                                    *)
(***************************************************************************)
EXTENDS Integers

CONSTANTS Name, Word

VARIABLES exists, \* the files there are
          words   \* a file's words by position; none for a name without a file

vars == <<exists, words>>

Empty == [p \in {} |-> 0]

OnlyThis(i) == \A j \in Name \ {i} : words'[j] = words[j]

Create(i) ==
  /\ i \notin exists
  /\ exists' = exists \union {i}
  /\ words[i] = Empty
  /\ UNCHANGED words

Remove(i) ==
  /\ exists' = exists \ {i}
  /\ words' = [words EXCEPT ![i] = Empty]

\* What the new words are is not promised.
Grow(i) ==
  /\ i \in exists
  /\ UNCHANGED exists
  /\ DOMAIN words[i] \subseteq DOMAIN words'[i]
  /\ \A p \in DOMAIN words[i] : words'[i][p] = words[i][p]
  /\ OnlyThis(i)

Store(i, w) ==
  /\ i \in exists
  /\ UNCHANGED exists
  /\ \E first, last \in DOMAIN words[i] :
       words' = [words EXCEPT ![i] = [p \in DOMAIN @ |-> IF p \in first .. last THEN w ELSE @[p]]]

Init == \A i \in Name \ exists : words[i] = Empty

Next ==
  \E i \in Name :
    \/ Create(i) \/ Remove(i) \/ Grow(i)
    \/ \E w \in Word : Store(i, w)

Spec == Init /\ [][Next]_vars
=============================================================================
