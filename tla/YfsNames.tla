------------------------------ MODULE YfsNames ------------------------------
(***************************************************************************)
(* What the name space of YFS keeps: objects, and in each of them a        *)
(* binding of names to objects.  A step makes one object, binds or unbinds *)
(* one name; an object goes away only when no name is left that leads to   *)
(* it.  That a new name may push another one out of its directory is what  *)
(* the server really does when a directory is full.                        *)
(***************************************************************************)
CONSTANTS
  Object,   \* names of objects
  None,     \* no object
  Label     \* names in directories

VARIABLES
  objects,  \* the objects there are
  bind      \* Object -> Label -> Object or None

names == <<objects, bind>>

NamesTypeOK ==
  /\ objects \subseteq Object
  /\ bind \in [Object -> [Label -> Object \union {None}]]

Unbound == [n \in Label |-> None]

\* Names are in objects that are there, and lead to such.
NamesLead ==
  \A d \in Object, n \in Label : bind[d][n] # None => d \in objects /\ bind[d][n] \in objects

NamesInit == NamesTypeOK /\ NamesLead

OnlyIn(d)  == \A x \in Object \ {d} : bind'[x] = bind[x]
Changed(d) == {n \in Label : bind'[d][n] # bind[d][n]}

\* Name n of d, which led nowhere, leads to o, and another name may be lost.
Bind(d, n, o) ==
  /\ OnlyIn(d)
  /\ bind[d][n] = None /\ bind'[d][n] = o
  /\ \E m \in Label : Changed(d) \subseteq {m, n} /\ (m # n => bind'[d][m] = None)

\* A new object is empty; it may stay without a name.
Make(o) ==
  /\ o \notin objects /\ objects' = objects \union {o}
  /\ bind' = bind \/ \E d \in objects : \E n \in Changed(d) : Bind(d, n, o)

\* An object gets one more name.
NewName ==
  /\ objects' = objects
  /\ \E d, o \in objects : \E n \in Changed(d) : Bind(d, n, o)

\* Name n of d leads nowhere; if it was the last one its object may go, unless
\* it has names itself.
Unbind(d, n) ==
  LET o == bind[d][n] IN
  /\ OnlyIn(d) /\ Changed(d) = {n} /\ bind'[d][n] = None
  /\ \/ objects' = objects
     \/ /\ objects' = objects \ {o} /\ bind[o] = Unbound
        /\ \A x \in Object, m \in Label : bind'[x][m] # o

NamesNext ==
  /\ names' # names /\ NamesTypeOK'
  /\ \/ \E o \in Object : Make(o)
     \/ NewName
     \/ \E d \in objects : \E n \in Changed(d) : Unbind(d, n)

NamesSpec == NamesInit /\ [][NamesNext]_names
=============================================================================
