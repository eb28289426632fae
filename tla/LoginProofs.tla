----------------------------- MODULE LoginProofs ----------------------------
(***************************************************************************)
(* Proofs about module Login, for servers, gates and clients of any        *)
(* number.                                                                 *)
(*                                                                         *)
(* The tables of a server are fed by messages that come in pairs: START    *)
(* and END of a save, CONSTRUCT and DESTRUCT of an account object.  What   *)
(* counts is what a table will say once its messages are taken (Settles).  *)
(* An account that is frozen then has an END to come, which a server still *)
(* has to say or its database still has to answer (FreezeInv); all tables  *)
(* will say the same of who is online, and if they say that somebody is    *)
(* then there is an account object, or a server has something to say of it *)
(* (OnlineInv).  A server says the second of a pair after the first        *)
(* (SavesTold, ObjectsTold).  At rest nothing is left to say, which gives  *)
(* NobodyLockedOut.                                                        *)
(***************************************************************************)
EXTENDS Login, SequenceTheorems, TLAPS

Has(msgs, m) == \E i \in 1..Len(msgs) : msgs[i] = m

\* Each m of msgs is followed by an n.
Closed(msgs, m, n) ==
    \A i \in 1..Len(msgs) : msgs[i] = m => \E j \in (i + 1)..Len(msgs) : msgs[j] = n

\* A mark that m sets and n takes away is off when msgs are taken.
Settles(msgs, mark, m, n) == Closed(msgs, m, n) /\ (mark => Has(msgs, n))

\* A client that is let in, or may be, has a server.
PlacesInv ==
    \A a \in Agents : agent[a] \in {"open", "relayed"} \/ a \in checking => server[a] \in Servers

\* A save that has been announced has an end that is told, or statements to be
\* answered.
SavesTold ==
    \A s \in Servers : saves[s] = <<>> \/ Gates = {} => Closed(out[s], "START", "END")

\* A server that has no account object any more has said so.
ObjectsTold ==
    \A s \in Servers : account[s] = None => Closed(out[s], "CONSTRUCT", "DESTRUCT")

EndToCome == \E s \in Servers : saves[s] # <<>> \/ Has(out[s], "END")

FreezeInv ==
    /\ \A s \in Gates : Settles(inbox[s], freeze[s], "START", "END") \/ EndToCome
    /\ \A s \in Servers \ Gates : ~freeze[s] /\ ~Has(inbox[s], "START")

NewsToCome ==
    \E s \in Servers : account[s] # None \/ Has(out[s], "CONSTRUCT") \/ Has(out[s], "DESTRUCT")

OnlineInv ==
    \/ \A s \in Servers : Settles(inbox[s], online[s], "CONSTRUCT", "DESTRUCT")
    \/ /\ \A s \in Servers : Settles(inbox[s], ~online[s], "DESTRUCT", "CONSTRUCT")
       /\ NewsToCome

\* What was begun is ended, and what the tables will say is true.
Told == SavesTold /\ ObjectsTold
TablesSettle == FreezeInv /\ OnlineInv

LoginInv ==
    /\ TypeOK /\ PlacesInv /\ Told
    /\ ~interrupted => TablesSettle

-----------------------------------------------------------------------------
(***************************************************************************)
(* Messages.                                                               *)
(***************************************************************************)
LEMMA TailFacts ==
    ASSUME NEW S, NEW q \in Seq(S), q # <<>>
    PROVE  /\ Len(q) \in Nat \ {0} /\ Head(q) = q[1] /\ Head(q) \in S
           /\ Tail(q) \in Seq(S) /\ Len(Tail(q)) = Len(q) - 1
           /\ \A i \in 1..(Len(q) - 1) : Tail(q)[i] = q[i + 1]
  BY EmptySeq, HeadTailProperties, LenProperties

\* The end of a pair that comes last settles the mark, and any message of another
\* kind leaves it as it was.
LEMMA SettledByLast ==
    ASSUME NEW q \in Seq(Messages), NEW mark \in BOOLEAN,
           NEW m \in Messages, NEW n \in Messages, m # n
    PROVE  Settles(Append(q, n), mark, m, n)
<1> DEFINE p == Append(q, n)
<1>1. /\ Len(q) \in Nat /\ Len(p) = Len(q) + 1 /\ p[Len(q) + 1] = n
  BY AppendProperties, LenProperties
<1> HIDE DEF p
<1>2. Has(p, n)
  BY <1>1 DEF Has
<1>3. Closed(p, m, n)
  <2> SUFFICES ASSUME NEW i \in 1..Len(p), p[i] = m
               PROVE  \E j \in (i + 1)..Len(p) : p[j] = n
    BY DEF Closed
  <2>1. i # Len(q) + 1
    BY <1>1
  <2>2. Len(q) + 1 \in (i + 1)..Len(p)
    BY <1>1, <2>1
  <2> QED
    BY <1>1, <2>2
<1> QED
  BY <1>2, <1>3 DEF Settles, p

LEMMA SettledStill ==
    ASSUME NEW q \in Seq(Messages), NEW mark \in BOOLEAN,
           NEW m \in Messages, NEW n \in Messages,
           Settles(q, mark, m, n), NEW x \in Messages, x # m
    PROVE  Settles(Append(q, x), mark, m, n)
<1> DEFINE p == Append(q, x)
<1>1. /\ Len(q) \in Nat /\ Len(p) = Len(q) + 1 /\ p[Len(q) + 1] = x
      /\ \A i \in 1..Len(q) : p[i] = q[i]
  BY AppendProperties, LenProperties
<1> HIDE DEF p
<1>2. mark => Has(p, n)
  BY <1>1 DEF Settles, Has
<1>3. Closed(p, m, n)
  <2> SUFFICES ASSUME NEW i \in 1..Len(p), p[i] = m
               PROVE  \E j \in (i + 1)..Len(p) : p[j] = n
    BY DEF Closed
  <2>1. i \in 1..Len(q) /\ q[i] = m
    BY <1>1
  <2>2. PICK j \in (i + 1)..Len(q) : q[j] = n
    BY <2>1 DEF Settles, Closed
  <2>3. j \in 1..Len(q) /\ j \in (i + 1)..Len(p)
    BY <1>1, <2>1, <2>2
  <2> QED
    BY <1>1, <2>2, <2>3
<1> QED
  BY <1>2, <1>3 DEF Settles, p

\* To take a message and to do what it says settles no less.
LEMMA SettledByTaking ==
    ASSUME NEW q \in Seq(Messages), q # <<>>, NEW mark \in BOOLEAN, NEW mark2 \in BOOLEAN,
           NEW m \in Messages, NEW n \in Messages, m # n,
           Settles(q, mark, m, n),
           Head(q) = n => ~mark2,
           Head(q) \notin {m, n} => mark2 = mark
    PROVE  Settles(Tail(q), mark2, m, n)
<1> DEFINE p == Tail(q)
<1>1. /\ Len(q) \in Nat \ {0} /\ Head(q) = q[1] /\ Len(p) = Len(q) - 1
      /\ \A i \in 1..(Len(q) - 1) : p[i] = q[i + 1]
  BY TailFacts
<1> HIDE DEF p
<1>2. \A j \in 2..Len(q) : q[j] = n => Has(p, n)
  <2> SUFFICES ASSUME NEW j \in 2..Len(q), q[j] = n PROVE Has(p, n)
    OBVIOUS
  <2>1. j - 1 \in 1..Len(p) /\ p[j - 1] = n
    BY <1>1
  <2> QED
    BY <2>1 DEF Has
<1>3. mark2 => Has(p, n)
  <2> SUFFICES ASSUME mark2 PROVE Has(p, n)
    OBVIOUS
  <2>1. CASE Head(q) = m
    <3>1. PICK j \in 2..Len(q) : q[j] = n
      BY <1>1, <2>1 DEF Settles, Closed
    <3> QED
      BY <1>2, <3>1
  <2>2. CASE Head(q) \notin {m, n}
    <3>1. PICK j \in 1..Len(q) : q[j] = n
      BY <2>2 DEF Settles, Has
    <3>2. j \in 2..Len(q)
      BY <1>1, <2>2, <3>1
    <3> QED
      BY <1>2, <3>1, <3>2
  <2> QED
    BY <2>1, <2>2
<1>4. Closed(p, m, n)
  <2> SUFFICES ASSUME NEW i \in 1..Len(p), p[i] = m
               PROVE  \E j \in (i + 1)..Len(p) : p[j] = n
    BY DEF Closed
  <2>1. i + 1 \in 1..Len(q) /\ q[i + 1] = m
    BY <1>1
  <2>2. PICK j \in ((i + 1) + 1)..Len(q) : q[j] = n
    BY <2>1 DEF Settles, Closed
  <2>3. j - 1 \in (i + 1)..Len(p) /\ p[j - 1] = n
    BY <1>1, <2>2
  <2> QED
    BY <2>3
<1> QED
  BY <1>3, <1>4 DEF Settles, p

\* What is said after q.
LEMMA SaidAfter ==
    ASSUME NEW q \in Seq(Messages), NEW msgs \in Seq(Messages)
    PROVE  /\ q \o msgs \in Seq(Messages)
           /\ Len(q) \in Nat /\ Len(msgs) \in Nat /\ Len(q \o msgs) = Len(q) + Len(msgs)
           /\ \A i \in 1..Len(q) : (q \o msgs)[i] = q[i]
           /\ \A i \in 1..Len(msgs) : (q \o msgs)[Len(q) + i] = msgs[i]
<1>1. /\ q \o msgs \in Seq(Messages)
      /\ Len(q \o msgs) = Len(q) + Len(msgs)
      /\ \A i \in 1..(Len(q) + Len(msgs)) :
            (q \o msgs)[i] = IF i <= Len(q) THEN q[i] ELSE msgs[i - Len(q)]
  BY ConcatProperties
<1>2. Len(q) \in Nat /\ Len(msgs) \in Nat
  BY LenProperties
<1> DEFINE p == q \o msgs
<1> HIDE DEF p
<1>3. \A i \in 1..Len(q) : p[i] = q[i]
  BY <1>1, <1>2 DEF p
<1>4. ASSUME NEW i \in 1..Len(msgs) PROVE p[Len(q) + i] = msgs[i]
  <2>1. Len(q) + i \in 1..(Len(q) + Len(msgs)) /\ ~(Len(q) + i <= Len(q))
        /\ (Len(q) + i) - Len(q) = i
    BY <1>2
  <2> QED
    BY <1>1, <2>1 DEF p
<1> QED
  BY <1>1, <1>2, <1>3, <1>4 DEF p

LEMMA HasAfter ==
    ASSUME NEW q \in Seq(Messages), NEW msgs \in Seq(Messages), NEW m \in Messages,
           Has(q, m) \/ Has(msgs, m)
    PROVE  Has(q \o msgs, m)
<1> DEFINE p == q \o msgs
<1>1. /\ Len(q) \in Nat /\ Len(msgs) \in Nat /\ Len(p) = Len(q) + Len(msgs)
      /\ \A i \in 1..Len(q) : p[i] = q[i]
      /\ \A i \in 1..Len(msgs) : p[Len(q) + i] = msgs[i]
  BY SaidAfter
<1> HIDE DEF p
<1>2. CASE Has(q, m)
  BY <1>1, <1>2 DEF Has, p
<1>3. CASE Has(msgs, m)
  <2>1. PICK i \in 1..Len(msgs) : msgs[i] = m
    BY <1>3 DEF Has
  <2>2. Len(q) + i \in 1..Len(p) /\ p[Len(q) + i] = m
    BY <1>1, <2>1
  <2> QED
    BY <2>2 DEF Has, p
<1> QED
  BY <1>2, <1>3

LEMMA ClosedAfter ==
    ASSUME NEW q \in Seq(Messages), NEW msgs \in Seq(Messages),
           NEW m \in Messages, NEW n \in Messages,
           Closed(q, m, n) \/ Has(msgs, n), Closed(msgs, m, n)
    PROVE  Closed(q \o msgs, m, n)
<1> DEFINE p == q \o msgs
<1>1. /\ Len(q) \in Nat /\ Len(msgs) \in Nat /\ Len(p) = Len(q) + Len(msgs)
      /\ \A i \in 1..Len(q) : p[i] = q[i]
      /\ \A i \in 1..Len(msgs) : p[Len(q) + i] = msgs[i]
  BY SaidAfter
<1> HIDE DEF p
<1> SUFFICES ASSUME NEW i \in 1..Len(p), p[i] = m
             PROVE  \E j \in (i + 1)..Len(p) : p[j] = n
  BY DEF Closed, p
<1>2. CASE i \in 1..Len(q) /\ Closed(q, m, n)
  <2>1. PICK j \in (i + 1)..Len(q) : q[j] = n
    BY <1>1, <1>2 DEF Closed
  <2>2. j \in 1..Len(q) /\ j \in (i + 1)..Len(p)
    BY <1>1, <1>2, <2>1
  <2> QED
    BY <1>1, <2>1, <2>2
<1>3. CASE i \in 1..Len(q) /\ Has(msgs, n)
  <2>1. PICK j \in 1..Len(msgs) : msgs[j] = n
    BY <1>3 DEF Has
  <2>2. Len(q) + j \in (i + 1)..Len(p)
    BY <1>1, <1>3, <2>1
  <2> QED
    BY <1>1, <2>1, <2>2
<1>4. CASE i \notin 1..Len(q)
  <2>1. i - Len(q) \in 1..Len(msgs) /\ Len(q) + (i - Len(q)) = i
    BY <1>1, <1>4
  <2>2. msgs[i - Len(q)] = m
    BY <1>1, <2>1
  <2>3. PICK j \in ((i - Len(q)) + 1)..Len(msgs) : msgs[j] = n
    BY <2>1, <2>2 DEF Closed
  <2>4. j \in 1..Len(msgs) /\ Len(q) + j \in (i + 1)..Len(p)
    BY <1>1, <2>1, <2>3
  <2> QED
    BY <1>1, <2>3, <2>4
<1> QED
  BY <1>2, <1>3, <1>4

\* What is left of q when its first message is gone.
LEMMA LeftOf ==
    ASSUME NEW q \in Seq(Messages), q # <<>>, NEW m \in Messages, NEW n \in Messages, m # n
    PROVE  /\ Closed(q, m, n) => Closed(Tail(q), m, n)
           /\ Closed(q, m, n) /\ Head(q) = m => Has(Tail(q), n)
           /\ Has(q, n) /\ Head(q) # n => Has(Tail(q), n)
<1> DEFINE Unmarked == Settles(q, FALSE, m, n) => Settles(Tail(q), Head(q) = m, m, n)
<1>1. Unmarked
  BY SettledByTaking
<1>2. /\ Len(q) \in Nat \ {0} /\ Head(q) = q[1] /\ Len(Tail(q)) = Len(q) - 1
      /\ \A i \in 1..(Len(q) - 1) : Tail(q)[i] = q[i + 1]
  BY TailFacts
<1>3. ASSUME Has(q, n), Head(q) # n PROVE Has(Tail(q), n)
  <2>1. PICK j \in 1..Len(q) : q[j] = n
    BY <1>3 DEF Has
  <2>2. j - 1 \in 1..Len(Tail(q)) /\ (j - 1) + 1 = j
    BY <1>2, <1>3, <2>1
  <2>3. Tail(q)[j - 1] = n
    BY <1>2, <2>1, <2>2
  <2> QED
    BY <2>2, <2>3 DEF Has
<1> QED
  BY <1>1, <1>3 DEF Settles

\* What servers say at once.
LEMMA Said ==
    /\ <<>> \in Seq(Messages)
    /\ \A m \in Messages : <<m>> \in Seq(Messages) /\ Has(<<m>>, m)
    /\ \A m, n \in Messages : Closed(<<>>, m, n)
    /\ \A l, m, n \in Messages : l # m => Closed(<<l>>, m, n)
    /\ \A m, n \in Messages : <<m, n>> \in Seq(Messages) /\ Has(<<m, n>>, n)
    /\ \A m, n \in Messages : m # n => Closed(<<m, n>>, m, n)
    /\ \A k, l, m, n \in Messages : k # m /\ l # m => Closed(<<k, l>>, m, n)
    /\ \A m, n \in Messages :
          /\ <<m, n, n>> \in Seq(Messages) /\ (m # n => Closed(<<m, n, n>>, m, n))
          /\ \A k, l \in Messages : k # m /\ k # n => Closed(<<m, n, n>>, k, l)
  BY DEF Has, Closed

LEMMA Marks == Messages = {"NOTIFY", "WAIT", "CONSTRUCT", "DESTRUCT", "START", "END"}
  BY DEF Messages

LEMMA Opposite == \A b \in BOOLEAN : (~b) \in BOOLEAN
  OBVIOUS

-----------------------------------------------------------------------------
(***************************************************************************)
(* What a step of a server means to the others.                            *)
(***************************************************************************)

\* A server says the second of a pair if it is the time to.
Speaks(s, msgs) ==
    /\ out' = [out EXCEPT ![s] = @ \o msgs]
    /\ \A t \in Servers \ {s} : account'[t] = account[t] /\ saves'[t] = saves[t]
    /\ account'[s] = None =>
          Closed(msgs, "CONSTRUCT", "DESTRUCT") /\ (account[s] # None => Has(msgs, "DESTRUCT"))
    /\ saves'[s] = <<>> \/ Gates = {} => Closed(msgs, "START", "END")
    /\ saves'[s] = <<>> /\ saves[s] # <<>> /\ Gates # {} => Has(msgs, "END")

\* Whatever is to come still comes.
StaysToCome ==
    /\ Gates # {} /\ EndToCome => EndToCome'
    /\ NewsToCome => NewsToCome'

LEMMA SpeakingTells ==
    ASSUME NEW s \in Servers, NEW msgs \in Seq(Messages), TypeOK, Told, Speaks(s, msgs)
    PROVE  Told' /\ StaysToCome
<1>0. out \in [Servers -> Seq(Messages)] /\ saves \in [Servers -> Seq(0..MaxStmts)]
  BY DEF TypeOK
<1>1. out'[s] = out[s] \o msgs /\ \A t \in Servers \ {s} : out'[t] = out[t]
  BY <1>0 DEF Speaks
<1>2. \A t \in Servers \ {s} : account'[t] = account[t] /\ saves'[t] = saves[t]
  BY DEF Speaks
<1>3. ASSUME NEW m \in Messages, NEW t \in Servers, Has(out[t], m) PROVE Has(out'[t], m)
  <2>1. CASE t = s
    BY <1>0, <1>1, <1>3, <2>1, HasAfter
  <2>2. CASE t # s
    BY <1>1, <1>3, <2>2
  <2> QED
    BY <2>1, <2>2
<1>4. ASSUME NEW m \in Messages, Has(msgs, m) PROVE Has(out'[s], m)
  BY <1>0, <1>1, <1>4, HasAfter
<1>5. SavesTold'
  <2> SUFFICES ASSUME NEW t \in Servers, saves'[t] = <<>> \/ Gates = {}
               PROVE  Closed(out'[t], "START", "END")
    BY DEF SavesTold
  <2>1. CASE t = s
    <3>1. Closed(out[s], "START", "END") \/ Has(msgs, "END")
      BY <2>1 DEF Told, SavesTold, Speaks
    <3>2. Closed(msgs, "START", "END")
      BY <2>1 DEF Speaks
    <3>3. Closed(out[s] \o msgs, "START", "END")
      BY <1>0, <3>1, <3>2, Marks, ClosedAfter
    <3> QED
      BY <1>1, <2>1, <3>3
  <2>2. CASE t # s
    BY <1>1, <1>2, <2>2 DEF Told, SavesTold
  <2> QED
    BY <2>1, <2>2
<1>6. ObjectsTold'
  <2> SUFFICES ASSUME NEW t \in Servers, account'[t] = None
               PROVE  Closed(out'[t], "CONSTRUCT", "DESTRUCT")
    BY DEF ObjectsTold
  <2>1. CASE t = s
    <3>1. Closed(out[s], "CONSTRUCT", "DESTRUCT") \/ Has(msgs, "DESTRUCT")
      BY <2>1 DEF Told, ObjectsTold, Speaks
    <3>2. Closed(msgs, "CONSTRUCT", "DESTRUCT")
      BY <2>1 DEF Speaks
    <3>3. Closed(out[s] \o msgs, "CONSTRUCT", "DESTRUCT")
      BY <1>0, <3>1, <3>2, Marks, ClosedAfter
    <3> QED
      BY <1>1, <2>1, <3>3
  <2>2. CASE t # s
    BY <1>1, <1>2, <2>2 DEF Told, ObjectsTold
  <2> QED
    BY <2>1, <2>2
<1>7. ASSUME Gates # {}, EndToCome PROVE EndToCome'
  <2>1. PICK t \in Servers : saves[t] # <<>> \/ Has(out[t], "END")
    BY <1>7 DEF EndToCome
  <2>2. CASE Has(out[t], "END")
    BY <1>3, <2>2, Marks DEF EndToCome
  <2>3. CASE saves[t] # <<>> /\ t # s
    BY <1>2, <2>3 DEF EndToCome
  <2>4. CASE saves[s] # <<>>
    <3>1. saves'[s] # <<>> \/ Has(out'[s], "END")
      BY <1>4, <1>7, <2>4, Marks DEF Speaks
    <3> QED
      BY <3>1 DEF EndToCome
  <2> QED
    BY <2>1, <2>2, <2>3, <2>4
<1>8. ASSUME NewsToCome PROVE NewsToCome'
  <2>1. PICK t \in Servers :
           account[t] # None \/ Has(out[t], "CONSTRUCT") \/ Has(out[t], "DESTRUCT")
    BY <1>8 DEF NewsToCome
  <2>2. CASE Has(out[t], "CONSTRUCT") \/ Has(out[t], "DESTRUCT")
    BY <1>3, <2>2, Marks DEF NewsToCome
  <2>3. CASE account[t] # None /\ t # s
    BY <1>2, <2>3 DEF NewsToCome
  <2>4. CASE account[s] # None
    <3>1. account'[s] # None \/ Has(out'[s], "DESTRUCT")
      BY <1>4, <2>4, Marks DEF Speaks
    <3> QED
      BY <3>1 DEF NewsToCome
  <2> QED
    BY <2>1, <2>2, <2>3, <2>4
<1> QED
  BY <1>5, <1>6, <1>7, <1>8 DEF Told, StaysToCome

LEMMA SilenceTells ==
    ASSUME Told, UNCHANGED <<out, account, saves>>
    PROVE  Told' /\ StaysToCome
  BY DEF Told, SavesTold, ObjectsTold, StaysToCome, EndToCome, NewsToCome, Has, Closed

\* A step that takes no message leaves the tables as they will be.
LEMMA TablesStay ==
    ASSUME TypeOK, TablesSettle, StaysToCome, UNCHANGED <<inbox, online, freeze>>
    PROVE  TablesSettle'
<1>1. FreezeInv'
  <2>1. \A t \in Gates : Settles(inbox'[t], freeze'[t], "START", "END") \/ EndToCome'
    BY DEF TablesSettle, FreezeInv, StaysToCome
  <2>2. \A t \in Servers \ Gates : ~freeze'[t] /\ ~Has(inbox'[t], "START")
    BY DEF TablesSettle, FreezeInv
  <2> QED
    BY <2>1, <2>2 DEF FreezeInv
<1>2. OnlineInv'
  BY DEF TablesSettle, OnlineInv, StaysToCome
<1> QED
  BY <1>1, <1>2 DEF TablesSettle

\* A server that takes a message, and marks what it says, will have its tables as
\* before.
Marking(s) ==
    /\ inbox[s] # <<>>
    /\ online' = [online EXCEPT ![s] = Online(s, Head(inbox[s]))]
    /\ freeze' = [freeze EXCEPT ![s] = Freeze(s, Head(inbox[s]))]
    /\ inbox' = [inbox EXCEPT ![s] = Tail(@)]

LEMMA TakingSettles ==
    ASSUME NEW s \in Servers, TypeOK, TablesSettle, StaysToCome, Marking(s)
    PROVE  TablesSettle'
<1>0. /\ inbox \in [Servers -> Seq(Messages)]
      /\ online \in [Servers -> BOOLEAN] /\ freeze \in [Servers -> BOOLEAN]
  BY DEF TypeOK
<1>1. PICK m \in Messages : m = Head(inbox[s])
  BY <1>0, TailFacts DEF Marking
<1>2. /\ inbox'[s] = Tail(inbox[s])
      /\ online'[s] = Online(s, m) /\ freeze'[s] = Freeze(s, m)
      /\ \A t \in Servers \ {s} :
            inbox'[t] = inbox[t] /\ online'[t] = online[t] /\ freeze'[t] = freeze[t]
  BY <1>0, <1>1 DEF Marking
<1>3. /\ Online(s, m) \in BOOLEAN
      /\ m = "CONSTRUCT" => Online(s, m) = TRUE
      /\ m = "DESTRUCT" => Online(s, m) = FALSE
      /\ m \notin {"CONSTRUCT", "DESTRUCT"} => Online(s, m) = online[s]
  BY <1>0 DEF Online
<1>4. /\ Freeze(s, m) \in BOOLEAN
      /\ m = "START" => Freeze(s, m) = TRUE
      /\ m = "END" => Freeze(s, m) = FALSE
      /\ m \notin {"START", "END"} => Freeze(s, m) = freeze[s]
  BY <1>0 DEF Freeze
<1>5. inbox[s] \in Seq(Messages) /\ inbox[s] # <<>>
  BY <1>0 DEF Marking
<1>6. Settles(inbox[s], freeze[s], "START", "END")
         => Settles(inbox'[s], freeze'[s], "START", "END")
  BY <1>0, <1>1, <1>2, <1>4, <1>5, Marks, SettledByTaking
<1>7. Settles(inbox[s], online[s], "CONSTRUCT", "DESTRUCT")
         => Settles(inbox'[s], online'[s], "CONSTRUCT", "DESTRUCT")
  BY <1>0, <1>1, <1>2, <1>3, <1>5, Marks, SettledByTaking
<1>8. Settles(inbox[s], ~online[s], "DESTRUCT", "CONSTRUCT")
         => Settles(inbox'[s], ~online'[s], "DESTRUCT", "CONSTRUCT")
  <2>1. (~online[s]) \in BOOLEAN /\ (~Online(s, m)) \in BOOLEAN
    BY <1>0, <1>3, Opposite
  <2>2. /\ m = "CONSTRUCT" => ~(~Online(s, m))
        /\ m \notin {"DESTRUCT", "CONSTRUCT"} => (~Online(s, m)) = (~online[s])
    BY <1>3
  <2>3. Settles(inbox[s], ~online[s], "DESTRUCT", "CONSTRUCT")
           => Settles(Tail(inbox[s]), ~Online(s, m), "DESTRUCT", "CONSTRUCT")
    BY <1>1, <1>5, <2>1, <2>2, Marks, SettledByTaking
  <2> QED
    BY <1>2, <2>3
<1>9. FreezeInv'
  <2>1. ASSUME NEW t \in Gates
        PROVE  Settles(inbox'[t], freeze'[t], "START", "END") \/ EndToCome'
    <3>1. t \in Servers
      BY LoginAssumption
    <3>2. Settles(inbox[t], freeze[t], "START", "END") \/ EndToCome'
      BY DEF TablesSettle, FreezeInv, StaysToCome
    <3>3. CASE t = s
      BY <1>6, <3>2, <3>3
    <3>4. CASE t # s
      BY <1>2, <3>1, <3>2, <3>4
    <3> QED
      BY <3>3, <3>4
  <2>2. ASSUME NEW t \in Servers \ Gates
        PROVE  ~freeze'[t] /\ ~Has(inbox'[t], "START")
    <3>1. ~freeze[t] /\ ~Has(inbox[t], "START")
      BY DEF TablesSettle, FreezeInv
    <3>2. CASE t = s
      <4>1. /\ Len(inbox[s]) \in Nat \ {0} /\ Head(inbox[s]) = inbox[s][1]
            /\ Len(Tail(inbox[s])) = Len(inbox[s]) - 1
            /\ \A i \in 1..(Len(inbox[s]) - 1) : Tail(inbox[s])[i] = inbox[s][i + 1]
        BY <1>5, TailFacts
      <4>2. m # "START"
        BY <1>1, <3>1, <3>2, <4>1 DEF Has
      <4>3. ~freeze'[s]
        BY <1>2, <1>4, <3>1, <3>2, <4>2
      <4>4. ASSUME Has(inbox'[s], "START") PROVE FALSE
        <5>1. PICK i \in 1..Len(Tail(inbox[s])) : Tail(inbox[s])[i] = "START"
          BY <1>2, <4>4 DEF Has
        <5>2. i + 1 \in 1..Len(inbox[s]) /\ inbox[s][i + 1] = "START"
          BY <4>1, <5>1
        <5> QED
          BY <3>1, <3>2, <5>2 DEF Has
      <4> QED
        BY <3>2, <4>3, <4>4
    <3>3. CASE t # s
      BY <1>2, <3>1, <3>3
    <3> QED
      BY <3>2, <3>3
  <2> QED
    BY <2>1, <2>2 DEF FreezeInv
<1>10. OnlineInv'
  <2>1. CASE \A t \in Servers : Settles(inbox[t], online[t], "CONSTRUCT", "DESTRUCT")
    <3>1. ASSUME NEW t \in Servers
          PROVE  Settles(inbox'[t], online'[t], "CONSTRUCT", "DESTRUCT")
      BY <1>2, <1>7, <2>1
    <3> QED
      BY <3>1 DEF OnlineInv
  <2>2. CASE /\ \A t \in Servers : Settles(inbox[t], ~online[t], "DESTRUCT", "CONSTRUCT")
             /\ NewsToCome
    <3>1. ASSUME NEW t \in Servers
          PROVE  Settles(inbox'[t], ~online'[t], "DESTRUCT", "CONSTRUCT")
      <4>1. CASE t = s
        BY <1>8, <2>2, <4>1
      <4>2. CASE t # s
        BY <1>2, <2>2, <4>2
      <4> QED
        BY <4>1, <4>2
    <3>2. NewsToCome'
      BY <2>2 DEF StaysToCome
    <3> QED
      BY <3>1, <3>2 DEF OnlineInv
  <2> QED
    BY <2>1, <2>2 DEF TablesSettle, OnlineInv
<1> QED
  BY <1>9, <1>10 DEF TablesSettle

\* Redis gives all servers what a server has said; what it says next is still said.
LEMMA DeliveryTells ==
    ASSUME NEW s \in Servers, TypeOK, Told, Redis(s)
    PROVE  Told'
<1>0. out \in [Servers -> Seq(Messages)]
  BY DEF TypeOK
<1>1. /\ out[s] \in Seq(Messages) /\ out[s] # <<>>
      /\ out'[s] = Tail(out[s]) /\ \A t \in Servers \ {s} : out'[t] = out[t]
      /\ UNCHANGED <<account, saves>>
  BY <1>0 DEF Redis, objects
<1>2. \A m, n \in Messages : m # n /\ Closed(out[s], m, n) => Closed(out'[s], m, n)
  BY <1>1, LeftOf
<1>3. SavesTold'
  <2> SUFFICES ASSUME NEW t \in Servers, saves'[t] = <<>> \/ Gates = {}
               PROVE  Closed(out'[t], "START", "END")
    BY DEF SavesTold
  <2>1. Closed(out[t], "START", "END")
    BY <1>1 DEF Told, SavesTold
  <2>2. CASE t = s
    BY <1>2, <2>1, <2>2, Marks
  <2>3. CASE t # s
    BY <1>1, <2>1, <2>3
  <2> QED
    BY <2>2, <2>3
<1>4. ObjectsTold'
  <2> SUFFICES ASSUME NEW t \in Servers, account'[t] = None
               PROVE  Closed(out'[t], "CONSTRUCT", "DESTRUCT")
    BY DEF ObjectsTold
  <2>1. Closed(out[t], "CONSTRUCT", "DESTRUCT")
    BY <1>1 DEF Told, ObjectsTold
  <2>2. CASE t = s
    BY <1>2, <2>1, <2>2, Marks
  <2>3. CASE t # s
    BY <1>1, <2>1, <2>3
  <2> QED
    BY <2>2, <2>3
<1> QED
  BY <1>3, <1>4 DEF Told

LEMMA DeliverySettles ==
    ASSUME NEW s \in Servers, TypeOK, Told, TablesSettle, Redis(s)
    PROVE  TablesSettle'
<1>0. /\ out \in [Servers -> Seq(Messages)] /\ inbox \in [Servers -> Seq(Messages)]
      /\ online \in [Servers -> BOOLEAN] /\ freeze \in [Servers -> BOOLEAN]
  BY DEF TypeOK
<1>1. PICK m \in Messages : m = Head(out[s])
  BY <1>0, TailFacts DEF Redis
<1>2. /\ out[s] \in Seq(Messages) /\ out[s] # <<>>
      /\ out'[s] = Tail(out[s]) /\ \A t \in Servers \ {s} : out'[t] = out[t]
      /\ UNCHANGED <<account, saves, online, freeze>>
  BY <1>0 DEF Redis, objects, tables
<1>3. \A t \in Servers :
         inbox'[t] = IF Heeds(t, m) THEN Append(inbox[t], m) ELSE inbox[t]
  BY <1>1 DEF Redis
<1>4. ASSUME NEW k \in Messages, NEW t \in Servers, k # m, Has(out[t], k)
      PROVE  Has(out'[t], k)
  <2>1. CASE t = s
    <3>1. \E l \in Messages : l # k
      BY Marks
    <3> QED
      BY <1>1, <1>2, <1>4, <2>1, <3>1, LeftOf
  <2>2. CASE t # s
    BY <1>2, <1>4, <2>2
  <2> QED
    BY <2>1, <2>2
<1>5. FreezeInv'
  <2>1. ASSUME NEW t \in Gates
        PROVE  Settles(inbox'[t], freeze'[t], "START", "END") \/ EndToCome'
    <3>1. t \in Servers /\ inbox'[t] = Append(inbox[t], m) /\ freeze'[t] = freeze[t]
      BY <1>2, <1>3, LoginAssumption DEF Heeds
    <3>2. CASE m = "END"
      BY <1>0, <3>1, <3>2, Marks, SettledByLast
    <3>3. CASE m = "START"
      <4>1. CASE saves[s] = <<>>
        <5>1. Closed(out[s], "START", "END")
          BY <4>1 DEF Told, SavesTold
        <5>2. Has(out'[s], "END")
          BY <1>1, <1>2, <3>3, <5>1, Marks, LeftOf
        <5> QED
          BY <5>2 DEF EndToCome
      <4>2. CASE saves[s] # <<>>
        BY <1>2, <4>2 DEF EndToCome
      <4> QED
        BY <4>1, <4>2
    <3>4. CASE m \notin {"START", "END"}
      <4>1. CASE Settles(inbox[t], freeze[t], "START", "END")
        BY <1>0, <3>1, <3>4, <4>1, Marks, SettledStill
      <4>2. CASE EndToCome
        <5>1. PICK u \in Servers : saves[u] # <<>> \/ Has(out[u], "END")
          BY <4>2 DEF EndToCome
        <5>2. saves'[u] # <<>> \/ Has(out'[u], "END")
          BY <1>2, <1>4, <3>4, <5>1, Marks
        <5> QED
          BY <5>2 DEF EndToCome
      <4> QED
        BY <4>1, <4>2 DEF TablesSettle, FreezeInv
    <3> QED
      BY <3>2, <3>3, <3>4
  <2>2. ASSUME NEW t \in Servers \ Gates
        PROVE  ~freeze'[t] /\ ~Has(inbox'[t], "START")
    <3>1. ~freeze'[t] /\ ~Has(inbox[t], "START")
      BY <1>2 DEF TablesSettle, FreezeInv
    <3>2. CASE m \in {"START", "END"}
      BY <1>3, <3>1, <3>2 DEF Heeds
    <3>3. CASE m \notin {"START", "END"}
      <4> DEFINE p == Append(inbox[t], m)
      <4>1. /\ inbox'[t] = p
            /\ Len(inbox[t]) \in Nat /\ Len(p) = Len(inbox[t]) + 1
            /\ p[Len(inbox[t]) + 1] = m
            /\ \A i \in 1..Len(inbox[t]) : p[i] = inbox[t][i]
        <5>1. inbox[t] \in Seq(Messages) /\ inbox'[t] = p
          BY <1>0, <1>3, <3>3 DEF Heeds
        <5> QED
          BY <5>1, AppendProperties, LenProperties
      <4> HIDE DEF p
      <4> QED
        BY <3>1, <3>3, <4>1 DEF Has
    <3> QED
      BY <3>2, <3>3
  <2> QED
    BY <2>1, <2>2 DEF FreezeInv
<1>6. OnlineInv'
  <2>1. CASE m = "DESTRUCT"
    <3>1. \A t \in Servers : inbox'[t] = Append(inbox[t], m) /\ online'[t] = online[t]
      BY <1>2, <1>3, <2>1 DEF Heeds
    <3>2. \A t \in Servers : Settles(inbox'[t], online'[t], "CONSTRUCT", "DESTRUCT")
      <4>1. ASSUME NEW t \in Servers
            PROVE  Settles(Append(inbox[t], "DESTRUCT"), online[t], "CONSTRUCT", "DESTRUCT")
        <5>1. online[t] \in BOOLEAN /\ inbox[t] \in Seq(Messages)
          BY <1>0
        <5> QED
          BY <5>1, Marks, SettledByLast
      <4> QED
        BY <2>1, <3>1, <4>1
    <3> QED
      BY <3>2 DEF OnlineInv
  <2>2. CASE m = "CONSTRUCT"
    <3>1. \A t \in Servers : inbox'[t] = Append(inbox[t], m) /\ online'[t] = online[t]
      BY <1>2, <1>3, <2>2 DEF Heeds
    <3>2. \A t \in Servers : Settles(inbox'[t], ~online'[t], "DESTRUCT", "CONSTRUCT")
      <4>1. ASSUME NEW t \in Servers
            PROVE  Settles(Append(inbox[t], "CONSTRUCT"), ~online[t], "DESTRUCT", "CONSTRUCT")
        <5>1. (~online[t]) \in BOOLEAN /\ inbox[t] \in Seq(Messages)
          BY <1>0, Opposite
        <5> QED
          BY <5>1, Marks, SettledByLast
      <4> QED
        BY <2>2, <3>1, <4>1
    <3>3. account'[s] # None \/ Has(out'[s], "DESTRUCT")
      <4>1. CASE account[s] = None
        <5>1. Closed(out[s], "CONSTRUCT", "DESTRUCT")
          BY <4>1 DEF Told, ObjectsTold
        <5> QED
          BY <1>1, <1>2, <2>2, <5>1, Marks, LeftOf
      <4>2. CASE account[s] # None
        BY <1>2, <4>2
      <4> QED
        BY <4>1, <4>2
    <3>4. NewsToCome'
      BY <3>3 DEF NewsToCome
    <3> QED
      BY <3>2, <3>4 DEF OnlineInv
  <2>3. CASE m \notin {"CONSTRUCT", "DESTRUCT"}
    <3>1. ASSUME NEW t \in Servers, NEW mark \in BOOLEAN,
                 NEW k \in {"CONSTRUCT", "DESTRUCT"}, NEW l \in {"CONSTRUCT", "DESTRUCT"},
                 Settles(inbox[t], mark, k, l)
          PROVE  Settles(inbox'[t], mark, k, l)
      <4>1. inbox[t] \in Seq(Messages) /\ inbox'[t] \in {inbox[t], Append(inbox[t], m)}
        BY <1>0, <1>3
      <4>2. k \in Messages /\ l \in Messages /\ m # k
        BY <2>3, Marks
      <4>3. Settles(Append(inbox[t], m), mark, k, l)
        BY <3>1, <4>1, <4>2, SettledStill
      <4> QED
        BY <3>1, <4>1, <4>3
    <3>2. NewsToCome => NewsToCome'
      <4> SUFFICES ASSUME NewsToCome PROVE NewsToCome'
        OBVIOUS
      <4>1. PICK t \in Servers :
               account[t] # None \/ Has(out[t], "CONSTRUCT") \/ Has(out[t], "DESTRUCT")
        BY DEF NewsToCome
      <4>2. account'[t] # None \/ Has(out'[t], "CONSTRUCT") \/ Has(out'[t], "DESTRUCT")
        BY <1>2, <1>4, <2>3, <4>1, Marks
      <4> QED
        BY <4>2 DEF NewsToCome
    <3>3. \A t \in Servers : online'[t] = online[t] /\ online[t] \in BOOLEAN
                                /\ (~online[t]) \in BOOLEAN
      BY <1>0, <1>2, Opposite
    <3> QED
      BY <3>1, <3>2, <3>3 DEF TablesSettle, OnlineInv
  <2> QED
    BY <2>1, <2>2, <2>3
<1> QED
  BY <1>5, <1>6 DEF TablesSettle

-----------------------------------------------------------------------------
(***************************************************************************)
(* Types.                                                                  *)
(***************************************************************************)
Types ==
    /\ server \in [Agents -> Servers \cup {None}]
    /\ agent \in [Agents -> {"none", "open", "relayed", "gone"}]
    /\ checking \subseteq Agents /\ listing \subseteq Agents
    /\ saves \in [Servers -> Seq(0..MaxStmts)] /\ loads \in [Servers -> Nat]
    /\ online \in [Servers -> BOOLEAN] /\ freeze \in [Servers -> BOOLEAN]
    /\ wait \in [Servers -> BOOLEAN]
    /\ hasUser \in [Servers -> BOOLEAN] /\ cached \in [Servers -> BOOLEAN]
    /\ waitLogin \in [Servers -> Agents \cup {None}]
    /\ account \in [Servers -> Agents \cup {None}]
    /\ cookie \in [Servers -> Agents \cup {None}]
    /\ user \in [Servers -> {"none", "here", "lost"}]
    /\ out \in [Servers -> Seq(Messages)] /\ inbox \in [Servers -> Seq(Messages)]
    /\ interrupted \in BOOLEAN

LEMMA TypesAreTypeOK == TypeOK <=> Types
  BY DEF TypeOK, Types

LEMMA TypesInit == Init => Types
<1> SUFFICES ASSUME Init PROVE Types
  OBVIOUS
<1>1. <<>> \in Seq(Messages) /\ <<>> \in Seq(0..MaxStmts)
  OBVIOUS
<1>2. PICK home \in Homes :
         /\ server = [a \in Agents |-> IF \E s \in Servers : home[s] = a
                                      THEN CHOOSE s \in Servers : home[s] = a ELSE None]
         /\ account = home
         /\ user = [s \in Servers |-> IF home[s] # None THEN "here" ELSE "none"]
         /\ hasUser = [s \in Servers |-> home[s] # None]
  BY DEF Init
<1>3. home \in [Servers -> Agents \cup {None}]
  BY LoginAssumption DEF Agents
<1>4. /\ account \in [Servers -> Agents \cup {None}]
      /\ user \in [Servers -> {"none", "here", "lost"}]
      /\ server \in [Agents -> Servers \cup {None}]
  BY <1>2, <1>3
<1>5. hasUser \in [Servers -> BOOLEAN]
  BY <1>2
<1>6. /\ agent \in [Agents -> {"none", "open", "relayed", "gone"}]
      /\ checking \subseteq Agents /\ listing \subseteq Agents
      /\ saves \in [Servers -> Seq(0..MaxStmts)] /\ loads \in [Servers -> Nat]
      /\ waitLogin \in [Servers -> Agents \cup {None}]
      /\ cookie \in [Servers -> Agents \cup {None}]
      /\ out \in [Servers -> Seq(Messages)] /\ inbox \in [Servers -> Seq(Messages)]
  BY <1>1 DEF Init
<1>7. /\ online \in [Servers -> BOOLEAN] /\ freeze \in [Servers -> BOOLEAN]
      /\ wait \in [Servers -> BOOLEAN] /\ cached \in [Servers -> BOOLEAN]
      /\ interrupted \in BOOLEAN
  <2>1. /\ online = [s \in Servers |-> TRUE] /\ freeze = [s \in Servers |-> FALSE]
        /\ wait = [s \in Servers |-> FALSE] /\ cached = [s \in Servers |-> FALSE]
        /\ interrupted = FALSE
    BY DEF Init
  <2>2. \A b \in BOOLEAN : [s \in Servers |-> b] \in [Servers -> BOOLEAN]
    OBVIOUS
  <2> QED
    BY <2>1, <2>2
<1> QED
  BY <1>4, <1>5, <1>6, <1>7 DEF Types

\* What an action may change of the objects of a server.
ObjectTypes ==
    /\ account \in [Servers -> Agents \cup {None}]
    /\ hasUser \in [Servers -> BOOLEAN]
    /\ user \in [Servers -> {"none", "here", "lost"}]
    /\ saves \in [Servers -> Seq(0..MaxStmts)]
    /\ out \in [Servers -> Seq(Messages)]

LEMMA PublishTypes ==
    ASSUME Types, NEW s \in Servers, NEW msgs \in Seq(Messages), Publish(s, msgs)
    PROVE  out' \in [Servers -> Seq(Messages)]
<1>1. out[s] \o msgs \in Seq(Messages) /\ out \in [Servers -> Seq(Messages)]
  BY ConcatProperties DEF Types
<1> QED
  BY <1>1 DEF Publish

LEMMA GateMessages ==
    /\ \A n : SaveSays(n) \subseteq Seq(Messages)
    /\ \A n \in 0..MaxStmts : Hibernation(n) \subseteq Seq(Messages)
<1>1. /\ <<>> \in Seq(Messages) /\ <<"END">> \in Seq(Messages)
      /\ <<"START">> \in Seq(Messages) /\ <<"START", "END">> \in Seq(Messages)
      /\ <<"START", "END", "END">> \in Seq(Messages)
  BY Said, Marks
<1> QED
  BY <1>1 DEF ToGates, Hibernation, SaveSays

LEMMA DoLoginTypes ==
    ASSUME Types, NEW s \in Servers, NEW a \in Agents, DoLogin(s, a)
    PROVE  /\ account' \in [Servers -> Agents \cup {None}]
           /\ hasUser' \in [Servers -> BOOLEAN]
           /\ user' \in [Servers -> {"none", "here", "lost"}]
           /\ out' \in [Servers -> Seq(Messages)]
           /\ agent' \in [Agents -> {"none", "open", "relayed", "gone"}]
           /\ listing' \subseteq Agents
<1>1. CASE CanLogin(s, a)
  <2>1. out' \in [Servers -> Seq(Messages)]
    BY <1>1, PublishTypes, Said, Marks DEF DoLogin
  <2>2. /\ account' = [account EXCEPT ![s] = a] /\ hasUser' = [hasUser EXCEPT ![s] = FALSE]
        /\ agent' = [agent EXCEPT ![a] = "relayed"] /\ listing' = listing \cup {a}
        /\ user' = user
    BY <1>1 DEF DoLogin
  <2> QED
    BY <2>1, <2>2 DEF Types
<1>2. CASE ~CanLogin(s, a)
  BY <1>2 DEF DoLogin, objects, Types
<1> QED
  BY <1>1, <1>2

LEMMA DestructTypes ==
    ASSUME Types, NEW s \in Servers, DestructAccount(s)
    PROVE  ObjectTypes'
<1>1. out' \in [Servers -> Seq(Messages)]
  BY PublishTypes, Said, Marks DEF DestructAccount
<1> QED
  BY <1>1 DEF DestructAccount, Types, ObjectTypes

LEMMA SavingTypes ==
    ASSUME Types, NEW s \in Servers, NEW n \in 0..MaxStmts
    PROVE  Saving(s, n) \in [Servers -> Seq(0..MaxStmts)]
<1>1. saves[s] \in Seq(0..MaxStmts)
  BY DEF Types
<1>2. Append(saves[s], n) \in Seq(0..MaxStmts)
  BY <1>1, AppendProperties
<1> QED
  BY <1>2 DEF Saving, Types

LEMMA HiberateTypes ==
    ASSUME Types, NEW s \in Servers, Hiberate(s)
    PROVE  ObjectTypes'
<1>0. PICK n \in 0..MaxStmts :
         saves' = Saving(s, n) /\ \E msgs \in Hibernation(n) : Logout(s, msgs)
  BY DEF Hiberate
<1>1. PICK msgs \in Hibernation(n) : Logout(s, msgs)
  BY <1>0
<1>2. msgs \in Seq(Messages)
  BY GateMessages
<1>3. msgs \o (IF account[s] = None THEN <<>> ELSE <<"DESTRUCT">>) \in Seq(Messages)
  <2>1. (IF account[s] = None THEN <<>> ELSE <<"DESTRUCT">>) \in Seq(Messages)
    BY Said, Marks
  <2> QED
    BY <1>2, <2>1, ConcatProperties
<1>4. out' \in [Servers -> Seq(Messages)]
  BY <1>1, <1>3, PublishTypes DEF Logout
<1>5. saves' \in [Servers -> Seq(0..MaxStmts)]
  BY <1>0, SavingTypes
<1> QED
  BY <1>1, <1>4, <1>5 DEF Logout, Types, ObjectTypes

LEMMA AccountLostTypes ==
    ASSUME Types, NEW s \in Servers, AccountLost(s)
    PROVE  ObjectTypes'
  BY HiberateTypes, DestructTypes DEF AccountLost

LEMMA SetLoginUserTypes ==
    ASSUME Types, NEW a \in Agents, SetLoginUser(a)
    PROVE  /\ user' \in [Servers -> {"none", "here", "lost"}]
           /\ hasUser' \in [Servers -> BOOLEAN]
           /\ UNCHANGED account
  BY DEF SetLoginUser, Types

\* All but the tables, the queues and the objects of the servers.
ClientTypes ==
    /\ server \in [Agents -> Servers \cup {None}]
    /\ agent \in [Agents -> {"none", "open", "relayed", "gone"}]
    /\ checking \subseteq Agents /\ listing \subseteq Agents
    /\ waitLogin \in [Servers -> Agents \cup {None}]
CacheTypes ==
    /\ loads \in [Servers -> Nat]
    /\ cached \in [Servers -> BOOLEAN]
    /\ cookie \in [Servers -> Agents \cup {None}]
TableTypes ==
    /\ online \in [Servers -> BOOLEAN] /\ freeze \in [Servers -> BOOLEAN]
    /\ wait \in [Servers -> BOOLEAN]
    /\ inbox \in [Servers -> Seq(Messages)]
    /\ interrupted \in BOOLEAN

LEMMA TypeParts == Types <=> ObjectTypes /\ ClientTypes /\ CacheTypes /\ TableTypes
  BY DEF Types, ObjectTypes, ClientTypes, CacheTypes, TableTypes

LEMMA NextTypes ==
    ASSUME ObjectTypes', ClientTypes', CacheTypes', TableTypes'
    PROVE  Types'
  BY DEF Types, ObjectTypes, ClientTypes, CacheTypes, TableTypes

LEMMA SameParts ==
    ASSUME Types
    PROVE  /\ UNCHANGED <<objects, saves, out>> => ObjectTypes'
           /\ UNCHANGED <<server, agent, checking, listing, waitLogin>> => ClientTypes'
           /\ UNCHANGED cache => CacheTypes'
           /\ UNCHANGED <<tables, inbox, interrupted>> => TableTypes'
<1>1. ObjectTypes /\ ClientTypes /\ CacheTypes /\ TableTypes
  BY TypeParts
<1>2. UNCHANGED <<objects, saves, out>> => ObjectTypes'
  BY <1>1 DEF ObjectTypes, objects
<1>3. UNCHANGED <<server, agent, checking, listing, waitLogin>> => ClientTypes'
  BY <1>1 DEF ClientTypes
<1>4. UNCHANGED cache => CacheTypes'
  BY <1>1 DEF CacheTypes, cache
<1>5. UNCHANGED <<tables, inbox, interrupted>> => TableTypes'
  BY <1>1 DEF TableTypes, tables
<1> QED
  BY <1>2, <1>3, <1>4, <1>5

LEMMA LoginTypes ==
    ASSUME Types, NEW a \in Agents, NEW s \in Servers, Login(a, s)
    PROVE  Types'
<1>1. ObjectTypes' /\ CacheTypes' /\ TableTypes'
  BY SameParts DEF Login
<1>2. ClientTypes'
  BY DEF Login, Types, ClientTypes
<1> QED
  BY <1>1, <1>2, NextTypes

LEMMA LoseTypes ==
    ASSUME Types, PlacesInv, NEW a \in Agents, Lose(a)
    PROVE  Types'
<1>1. CacheTypes' /\ TableTypes'
  BY SameParts DEF Lose
<1>2. ClientTypes'
  BY DEF Lose, Types, ClientTypes
<1>3. ObjectTypes'
  <2>1. CASE UNCHANGED <<objects, saves, out>>
    BY <2>1, SameParts
  <2>2. CASE DestructAccount(server[a]) /\ agent[a] = "relayed"
    BY <2>2, DestructTypes DEF PlacesInv
  <2>3. CASE /\ user' = [user EXCEPT ![server[a]] = "lost"]
             /\ UNCHANGED <<account, hasUser, saves, out>>
    BY <2>3 DEF Types, ObjectTypes
  <2> QED
    BY <2>1, <2>2, <2>3 DEF Lose
<1> QED
  BY <1>1, <1>2, <1>3, NextTypes

LEMMA CheckAccountTypes ==
    ASSUME Types, PlacesInv, NEW a \in Agents, CheckAccount(a)
    PROVE  Types'
<1>1. CacheTypes' /\ TableTypes'
  BY SameParts DEF CheckAccount
<1>2. PICK s \in Servers : s = server[a]
  BY DEF CheckAccount, PlacesInv
<1>3. server' = server /\ checking' = checking \ {a} /\ saves' = saves
  BY DEF CheckAccount
<1>4. CASE wait[s]
  <2>1. /\ agent' = [agent EXCEPT ![a] = "gone"]
        /\ UNCHANGED <<waitLogin, objects, listing, out>>
    BY <1>2, <1>4 DEF CheckAccount
  <2>2. ObjectTypes'
    BY <1>3, <2>1, SameParts
  <2>3. ClientTypes'
    BY <1>3, <2>1 DEF ClientTypes, Types
  <2> QED
    BY <1>1, <2>2, <2>3, NextTypes
<1>5. CASE ~wait[s] /\ online[s]
  <2>1. /\ Publish(s, AskedFor) /\ waitLogin' = [waitLogin EXCEPT ![s] = a]
        /\ UNCHANGED <<objects, agent, listing>>
    BY <1>2, <1>5 DEF CheckAccount
  <2>2. out' \in [Servers -> Seq(Messages)]
    BY <2>1, PublishTypes, Said, Marks DEF AskedFor
  <2>3. ObjectTypes'
    BY <1>3, <2>1, <2>2 DEF ObjectTypes, Types, objects
  <2>4. ClientTypes'
    BY <1>3, <2>1 DEF ClientTypes, Types
  <2> QED
    BY <1>1, <2>3, <2>4, NextTypes
<1>6. CASE ~wait[s] /\ ~online[s]
  <2>1. DoLogin(s, a) /\ UNCHANGED waitLogin
    BY <1>2, <1>6 DEF CheckAccount
  <2>2. ObjectTypes'
    BY <1>3, <2>1, DoLoginTypes DEF ObjectTypes, Types
  <2>3. ClientTypes'
    BY <1>3, <2>1, DoLoginTypes DEF ClientTypes, Types
  <2> QED
    BY <1>1, <2>2, <2>3, NextTypes
<1> QED
  BY <1>4, <1>5, <1>6

LEMMA GetUserListTypes ==
    ASSUME Types, NEW a \in Agents, GetUserList(a)
    PROVE  Types'
<1>1. TableTypes'
  BY SameParts DEF GetUserList
<1>2. ClientTypes'
  BY DEF GetUserList, Types, ClientTypes
<1>3. ObjectTypes'
  <2>1. UNCHANGED <<saves, out>>
    BY DEF GetUserList
  <2>2. CASE UNCHANGED objects
    BY <2>1, <2>2, SameParts
  <2>3. CASE SetLoginUser(a)
    BY <2>1, <2>3, SetLoginUserTypes DEF ObjectTypes, Types
  <2> QED
    BY <2>2, <2>3 DEF GetUserList
<1>4. CacheTypes'
  <2>1. CASE UNCHANGED cache
    BY <2>1, SameParts
  <2>2. CASE \E s \in {server[a]} : /\ cached' = [cached EXCEPT ![s] = FALSE]
                                    /\ cookie' = [cookie EXCEPT ![s] = a]
                                    /\ loads' = [loads EXCEPT ![s] = @ + 1]
    <3>1. PICK s : /\ cached' = [cached EXCEPT ![s] = FALSE]
                   /\ cookie' = [cookie EXCEPT ![s] = a]
                   /\ loads' = [loads EXCEPT ![s] = @ + 1]
      BY <2>2
    <3>2. /\ cached \in [Servers -> BOOLEAN] /\ loads \in [Servers -> Nat]
          /\ cookie \in [Servers -> Agents \cup {None}]
      BY DEF Types
    <3>3. cached' \in [Servers -> BOOLEAN]
      BY <3>1, <3>2
    <3>4. cookie' \in [Servers -> Agents \cup {None}]
      BY <3>1, <3>2
    <3>5. loads' \in [Servers -> Nat]
      <4>1. CASE s \in Servers
        BY <3>1, <3>2, <4>1
      <4>2. CASE s \notin Servers
        BY <3>1, <3>2, <4>2
      <4> QED
        BY <4>1, <4>2
    <3> QED
      BY <3>3, <3>4, <3>5 DEF CacheTypes
  <2> QED
    BY <2>1, <2>2 DEF GetUserList
<1> QED
  BY <1>1, <1>2, <1>3, <1>4, NextTypes

LEMMA LoadUserTypes ==
    ASSUME Types, NEW s \in Servers, LoadUser(s)
    PROVE  Types'
<1>1. TableTypes'
  BY SameParts DEF LoadUser
<1>2. PICK failed \in BOOLEAN :
         /\ cached' = IF failed THEN cached ELSE [cached EXCEPT ![s] = TRUE]
         /\ IF failed \/ cookie[s] = None THEN UNCHANGED <<objects, agent>>
            ELSE ReadUser(cookie[s])
  BY DEF LoadUser
<1>3. UNCHANGED <<server, checking, listing, saves, waitLogin, out>>
  BY DEF LoadUser
<1>4. ObjectTypes' /\ ClientTypes'
  <2>1. CASE UNCHANGED <<objects, agent>>
    BY <1>3, <2>1, SameParts
  <2>2. CASE cookie[s] # None /\ ReadUser(cookie[s])
    <3>1. PICK a \in Agents : a = cookie[s]
      BY <2>2 DEF Types
    <3>2. SetLoginUser(a)
      BY <2>2, <3>1 DEF ReadUser
    <3>3. ObjectTypes'
      BY <1>3, <3>2, SetLoginUserTypes DEF ObjectTypes, Types
    <3>4. agent' \in [Agents -> {"none", "open", "relayed", "gone"}]
      BY <2>2 DEF ReadUser, Types
    <3> QED
      BY <1>3, <3>3, <3>4 DEF ClientTypes, Types
  <2> QED
    BY <1>2, <2>1, <2>2
<1>5. CacheTypes'
  <2>1. cached' \in [Servers -> BOOLEAN]
    <3>1. cached \in [Servers -> BOOLEAN]
      BY DEF Types
    <3> QED
      BY <1>2, <3>1
  <2>2. loads' \in [Servers -> Nat]
    BY DEF LoadUser, Types
  <2>3. cookie' \in [Servers -> Agents \cup {None}]
    BY DEF LoadUser, Types
  <2> QED
    BY <2>1, <2>2, <2>3 DEF CacheTypes
<1> QED
  BY <1>1, <1>4, <1>5, NextTypes

LEMMA RemoveAtType ==
    ASSUME NEW S, NEW q \in Seq(S), NEW k \in 1..Len(q)
    PROVE  RemoveAt(q, k) \in Seq(S)
<1>1. Len(q) \in Nat /\ \A i \in 1..Len(q) : q[i] \in S
  BY LenProperties, ElementOfSeq
<1>2. SubSeq(q, 1, k - 1) \in Seq(S)
  BY <1>1, SubSeqProperties
<1>3. SubSeq(q, k + 1, Len(q)) \in Seq(S)
  BY <1>1, SubSeqProperties
<1> QED
  BY <1>2, <1>3, ConcatProperties DEF RemoveAt

LEMMA SaveDoneTypes ==
    ASSUME Types, NEW s \in Servers, NEW k \in DOMAIN saves[s], SaveDone(s, k)
    PROVE  Types'
<1>1. CacheTypes' /\ TableTypes' /\ ClientTypes'
  BY SameParts DEF SaveDone
<1>2. /\ saves[s] \in Seq(0..MaxStmts) /\ k \in 1..Len(saves[s])
      /\ saves[s][k] \in 0..MaxStmts
  BY LenProperties, ElementOfSeq DEF Types
<1>3. saves' \in [Servers -> Seq(0..MaxStmts)]
  <2>1. CASE saves[s][k] <= 1
    <3>1. RemoveAt(saves[s], k) \in Seq(0..MaxStmts)
      BY <1>2, RemoveAtType
    <3>2. saves' = [saves EXCEPT ![s] = RemoveAt(saves[s], k)]
      BY <2>1 DEF SaveDone
    <3> QED
      BY <3>1, <3>2 DEF Types
  <2>2. CASE ~(saves[s][k] <= 1)
    <3>1. saves' = [saves EXCEPT ![s][k] = @ - 1]
      BY <2>2 DEF SaveDone
    <3>2. saves[s][k] - 1 \in 0..MaxStmts
      BY <1>2, <2>2, LoginAssumption
    <3>3. [saves[s] EXCEPT ![k] = saves[s][k] - 1] \in Seq(0..MaxStmts)
      BY <1>2, <3>2, ExceptSeq
    <3> QED
      BY <3>1, <3>3 DEF Types
  <2> QED
    BY <2>1, <2>2
<1>4. out' \in [Servers -> Seq(Messages)]
  <2>1. PICK msgs \in SaveSays(saves[s][k]) : Publish(s, msgs)
    BY DEF SaveDone
  <2> QED
    BY <2>1, GateMessages, PublishTypes
<1>5. ObjectTypes'
  BY <1>3, <1>4 DEF SaveDone, objects, Types, ObjectTypes
<1> QED
  BY <1>1, <1>5, NextTypes

LEMMA TimersTypes ==
    ASSUME Types, NEW s \in Servers,
           LogoutTimer(s) \/ NoOperation(s) \/ AutoSave(s) \/ TimeHandle(s) \/ WaitExpires(s)
    PROVE  Types'
<1>1. CASE LogoutTimer(s)
  <2>1. CacheTypes' /\ TableTypes' /\ ClientTypes'
    BY <1>1, SameParts DEF LogoutTimer
  <2>2. ObjectTypes'
    BY <1>1, HiberateTypes DEF LogoutTimer
  <2> QED
    BY <2>1, <2>2, NextTypes
<1>2. CASE NoOperation(s)
  <2>1. CacheTypes' /\ TableTypes'
    BY <1>2, SameParts DEF NoOperation
  <2>2. ObjectTypes' /\ ClientTypes'
    BY <1>2 DEF NoOperation, Types, ObjectTypes, ClientTypes
  <2> QED
    BY <2>1, <2>2, NextTypes
<1>3. CASE AutoSave(s)
  <2>1. CacheTypes' /\ TableTypes' /\ ClientTypes'
    BY <1>3, SameParts DEF AutoSave
  <2>2. PICK n \in 0..MaxStmts :
           saves' = Saving(s, n) /\ \E msgs \in Hibernation(n) : Publish(s, msgs)
    BY <1>3 DEF AutoSave
  <2>3. saves' \in [Servers -> Seq(0..MaxStmts)]
    BY <2>2, SavingTypes
  <2>4. out' \in [Servers -> Seq(Messages)]
    BY <2>2, GateMessages, PublishTypes
  <2>5. UNCHANGED objects
    BY <1>3 DEF AutoSave
  <2>6. ObjectTypes'
    BY <2>3, <2>4, <2>5 DEF ObjectTypes, Types, objects
  <2> QED
    BY <2>1, <2>6, NextTypes
<1>4. CASE TimeHandle(s)
  <2>1. CacheTypes' /\ TableTypes' /\ ObjectTypes'
    BY <1>4, SameParts DEF TimeHandle
  <2>2. ClientTypes'
    BY <1>4 DEF TimeHandle, Types, ClientTypes
  <2> QED
    BY <2>1, <2>2, NextTypes
<1>5. CASE WaitExpires(s)
  <2>1. CacheTypes' /\ ClientTypes' /\ ObjectTypes'
    BY <1>5, SameParts DEF WaitExpires
  <2>2. wait' \in [Servers -> BOOLEAN]
    <3>1. wait \in [Servers -> BOOLEAN] /\ wait' = [wait EXCEPT ![s] = FALSE]
      BY <1>5 DEF WaitExpires, Types
    <3> QED
      BY <3>1
  <2>3. TableTypes'
    BY <1>5, <2>2 DEF WaitExpires, Types, TableTypes
  <2> QED
    BY <2>1, <2>3, NextTypes
<1> QED
  BY <1>1, <1>2, <1>3, <1>4, <1>5

LEMMA RedisTypes ==
    ASSUME Types, NEW s \in Servers, Redis(s)
    PROVE  Types'
<1>1. ClientTypes' /\ CacheTypes'
  BY SameParts DEF Redis
<1>2. out[s] \in Seq(Messages) /\ out[s] # <<>>
  BY DEF Redis, Types
<1>3. Tail(out[s]) \in Seq(Messages) /\ Head(out[s]) \in Messages
  BY <1>2, TailFacts
<1>4. ObjectTypes'
  BY <1>3 DEF Redis, objects, Types, ObjectTypes
<1>5. PICK m \in Messages : m = Head(out[s])
  BY <1>3
<1>6. \A t \in Servers : Append(inbox[t], m) \in Seq(Messages) /\ inbox[t] \in Seq(Messages)
  BY AppendProperties DEF Types
<1>7. inbox' = [t \in Servers |-> IF Heeds(t, m) THEN Append(inbox[t], m) ELSE inbox[t]]
  BY <1>5 DEF Redis
<1>8. inbox' \in [Servers -> Seq(Messages)]
  BY <1>6, <1>7
<1>9. TableTypes'
  BY <1>8 DEF Redis, tables, Types, TableTypes
<1> QED
  BY <1>1, <1>4, <1>9, NextTypes

LEMMA MarksTypes ==
    ASSUME Types, NEW s \in Servers, NEW m \in Messages,
           online' = [online EXCEPT ![s] = Online(s, m)],
           wait' = [wait EXCEPT ![s] = Wait(s, m)],
           freeze' = [freeze EXCEPT ![s] = Freeze(s, m)]
    PROVE  /\ online' \in [Servers -> BOOLEAN] /\ freeze' \in [Servers -> BOOLEAN]
           /\ wait' \in [Servers -> BOOLEAN]
<1>1. /\ online \in [Servers -> BOOLEAN] /\ freeze \in [Servers -> BOOLEAN]
      /\ wait \in [Servers -> BOOLEAN]
  BY DEF Types
<1>2. Online(s, m) \in BOOLEAN
  BY <1>1 DEF Online
<1>3. Wait(s, m) \in BOOLEAN
  BY <1>1 DEF Wait
<1>4. Freeze(s, m) \in BOOLEAN
  BY <1>1 DEF Freeze
<1> QED
  BY <1>1, <1>2, <1>3, <1>4

LEMMA InterruptTypes ==
    ASSUME Types, NEW s \in Servers, Interrupt(s)
    PROVE  inbox' \in [Servers -> Seq(Messages)] /\ interrupted'
<1>1. inbox \in [Servers -> Seq(Messages)] /\ inbox[s] \in Seq(Messages)
  BY DEF Types
<1>2. Len(inbox[s]) \in Nat /\ \A i \in 1..Len(inbox[s]) : inbox[s][i] \in Messages
  BY <1>1, LenProperties, ElementOfSeq
<1>3. PICK k \in 0..(Len(inbox[s]) - 1) :
         inbox' = [inbox EXCEPT ![s] = SubSeq(inbox[s], k + 2, Len(inbox[s]))]
  BY DEF Interrupt
<1>4. SubSeq(inbox[s], k + 2, Len(inbox[s])) \in Seq(Messages)
  BY <1>2, <1>3, SubSeqProperties
<1> QED
  BY <1>1, <1>3, <1>4 DEF Interrupt

LEMMA TakenTypes ==
    ASSUME Types, NEW s \in Servers, inbox[s] # <<>>,
           inbox' = [inbox EXCEPT ![s] = Tail(@)]
    PROVE  inbox' \in [Servers -> Seq(Messages)]
<1>1. inbox \in [Servers -> Seq(Messages)] /\ Tail(inbox[s]) \in Seq(Messages)
  BY TailFacts DEF Types
<1> QED
  BY <1>1

LEMMA CheckAccountLoginTypes ==
    ASSUME Types, NEW s \in Servers, inbox[s] # <<>>, CheckAccountLogin(s), UNCHANGED saves,
           UNCHANGED <<server, checking>>
    PROVE  /\ ObjectTypes' /\ ClientTypes'
           /\ inbox' \in [Servers -> Seq(Messages)] /\ interrupted' \in BOOLEAN
<1>1. inbox' \in [Servers -> Seq(Messages)] /\ interrupted' \in BOOLEAN
  <2>1. CASE Interrupt(s)
    BY <2>1, InterruptTypes
  <2>2. CASE UNCHANGED interrupted /\ inbox' = [inbox EXCEPT ![s] = Tail(@)]
    BY <2>2, TakenTypes DEF Types
  <2> QED
    BY <2>1, <2>2 DEF CheckAccountLogin
<1>2. ObjectTypes' /\ ClientTypes'
  <2>1. CASE UNCHANGED <<waitLogin, objects, agent, listing, out>>
    BY <2>1, SameParts
  <2>2. CASE /\ ~UNCHANGED <<waitLogin, objects, agent, listing, out>>
    <3>1. /\ waitLogin[s] # None /\ waitLogin' = [waitLogin EXCEPT ![s] = None]
          /\ \/ UNCHANGED <<objects, agent, listing, out>>
             \/ DoLogin(s, waitLogin[s])
      BY <2>2 DEF CheckAccountLogin
    <3>2. waitLogin' \in [Servers -> Agents \cup {None}]
      BY <3>1 DEF Types
    <3>3. CASE UNCHANGED <<objects, agent, listing, out>>
      BY <3>2, <3>3 DEF Types, ObjectTypes, ClientTypes, objects
    <3>4. CASE DoLogin(s, waitLogin[s])
      <4>1. PICK a \in Agents : a = waitLogin[s]
        BY <3>1 DEF Types
      <4>2. DoLogin(s, a)
        BY <3>4, <4>1
      <4>3. ObjectTypes'
        BY <4>2, DoLoginTypes DEF ObjectTypes, Types
      <4>4. ClientTypes'
        BY <3>2, <4>2, DoLoginTypes DEF ClientTypes, Types
      <4> QED
        BY <4>3, <4>4
    <3> QED
      BY <3>1, <3>3, <3>4
  <2> QED
    BY <2>1, <2>2
<1> QED
  BY <1>1, <1>2

\* What a server does with the message it takes.
LEMMA ReceiveCases ==
    ASSUME NEW s \in Servers, Receive(s)
    PROVE  /\ inbox[s] # <<>>
           /\ online' = [online EXCEPT ![s] = Online(s, Head(inbox[s]))]
           /\ wait' = [wait EXCEPT ![s] = Wait(s, Head(inbox[s]))]
           /\ freeze' = [freeze EXCEPT ![s] = Freeze(s, Head(inbox[s]))]
           /\ UNCHANGED <<server, checking, cache>>
           /\ \/ CheckAccountLogin(s) /\ UNCHANGED saves
              \/ /\ inbox' = [inbox EXCEPT ![s] = Tail(@)]
                 /\ UNCHANGED <<waitLogin, agent, listing, interrupted>>
                 /\ \/ account[s] # None /\ AccountLost(s)
                    \/ UNCHANGED <<objects, saves, out>>
  BY DEF Receive

LEMMA ReceiveTypes ==
    ASSUME Types, NEW s \in Servers, Receive(s)
    PROVE  Types'
<1>1. PICK m \in Messages : m = Head(inbox[s])
  BY ReceiveCases, TailFacts DEF Types
<1>2. /\ online' \in [Servers -> BOOLEAN] /\ freeze' \in [Servers -> BOOLEAN]
      /\ wait' \in [Servers -> BOOLEAN]
  BY <1>1, ReceiveCases, MarksTypes
<1>3. UNCHANGED <<server, checking>> /\ CacheTypes' /\ inbox[s] # <<>>
  BY ReceiveCases, SameParts
<1>4. CASE CheckAccountLogin(s) /\ UNCHANGED saves
  <2>1. /\ ObjectTypes' /\ ClientTypes'
        /\ inbox' \in [Servers -> Seq(Messages)] /\ interrupted' \in BOOLEAN
    BY <1>3, <1>4, CheckAccountLoginTypes
  <2>2. TableTypes'
    BY <1>2, <2>1 DEF TableTypes
  <2> QED
    BY <1>3, <2>1, <2>2, NextTypes
<1>5. CASE /\ inbox' = [inbox EXCEPT ![s] = Tail(@)]
           /\ UNCHANGED <<waitLogin, agent, listing, interrupted>>
           /\ \/ account[s] # None /\ AccountLost(s)
              \/ UNCHANGED <<objects, saves, out>>
  <2>1. inbox' \in [Servers -> Seq(Messages)]
    BY <1>3, <1>5, TakenTypes
  <2>2. TableTypes'
    BY <1>2, <1>5, <2>1 DEF TableTypes, Types
  <2>3. ClientTypes'
    BY <1>3, <1>5, SameParts
  <2>4. ObjectTypes'
    BY <1>5, SameParts, AccountLostTypes
  <2> QED
    BY <1>3, <2>2, <2>3, <2>4, NextTypes
<1> QED
  BY <1>4, <1>5, ReceiveCases

LEMMA TypesStep ==
    ASSUME Types, PlacesInv, [Next]_vars
    PROVE  Types'
<1>1. CASE Clients
  BY <1>1, LoseTypes, LoginTypes DEF Clients
<1>2. CASE Databases
  BY <1>2, CheckAccountTypes, GetUserListTypes, LoadUserTypes, SaveDoneTypes DEF Databases
<1>3. CASE Timers
  BY <1>3, TimersTypes DEF Timers
<1>4. CASE \E s \in Servers : Redis(s) \/ Receive(s)
  BY <1>4, RedisTypes, ReceiveTypes
<1>5. CASE UNCHANGED vars
  <2>1. /\ UNCHANGED <<server, agent, checking, listing, waitLogin>>
        /\ UNCHANGED <<objects, saves, out>> /\ UNCHANGED cache
        /\ UNCHANGED <<tables, inbox, interrupted>>
    BY <1>5 DEF vars
  <2> QED
    BY <2>1, SameParts, NextTypes
<1> QED
  BY <1>1, <1>2, <1>3, <1>4, <1>5 DEF Next, Answers

-----------------------------------------------------------------------------
(***************************************************************************)
(* The server of a client.                                                 *)
(***************************************************************************)

\* A client is let in where it has asked to be.
AgentsStay ==
    /\ server' = server /\ checking' \subseteq checking
    /\ \A b \in Agents : agent'[b] \in {agent[b], "gone"} \/ agent[b] = "open"

LEMMA PlacesStay ==
    ASSUME PlacesInv, AgentsStay
    PROVE  PlacesInv'
  BY DEF PlacesInv, AgentsStay

LEMMA DoLoginAgents ==
    ASSUME Types, NEW s \in Servers, NEW a \in Agents, DoLogin(s, a)
    PROVE  \A b \in Agents : agent'[b] = agent[b] \/ agent[b] = "open"
  BY DEF DoLogin, CanLogin, Types

LEMMA PlacesStep ==
    ASSUME Types, PlacesInv, [Next]_vars
    PROVE  PlacesInv'
<1>0. agent \in [Agents -> {"none", "open", "relayed", "gone"}]
  BY DEF Types
<1>1. ASSUME NEW a \in Agents, NEW s \in Servers, Login(a, s) PROVE PlacesInv'
  BY <1>1 DEF Login, PlacesInv, Types
<1>2. ASSUME NEW a \in Agents, Lose(a) PROVE PlacesInv'
  BY <1>0, <1>2, PlacesStay DEF Lose, AgentsStay
<1>3. ASSUME NEW a \in Agents, CheckAccount(a) PROVE PlacesInv'
  <2>1. PICK s \in Servers : s = server[a]
    BY <1>3 DEF CheckAccount, PlacesInv
  <2>2. \/ agent' = [agent EXCEPT ![a] = "gone"] \/ agent' = agent \/ DoLogin(s, a)
    BY <1>3, <2>1 DEF CheckAccount
  <2>3. \A b \in Agents : agent'[b] \in {agent[b], "gone"} \/ agent[b] = "open"
    BY <1>0, <2>2, DoLoginAgents
  <2> QED
    BY <1>3, <2>3, PlacesStay DEF CheckAccount, AgentsStay
<1>4. ASSUME NEW a \in Agents, GetUserList(a) PROVE PlacesInv'
  BY <1>4, PlacesStay DEF GetUserList, AgentsStay
<1>5. ASSUME NEW s \in Servers, LoadUser(s) PROVE PlacesInv'
  <2>1. \E x : agent' \in {agent, [agent EXCEPT ![x] = "gone"]}
    <3>1. PICK failed \in BOOLEAN :
             IF failed \/ cookie[s] = None THEN UNCHANGED <<objects, agent>>
             ELSE ReadUser(cookie[s])
      BY <1>5 DEF LoadUser
    <3> QED
      BY <3>1 DEF ReadUser
  <2>2. \A b \in Agents : agent'[b] \in {agent[b], "gone"}
    BY <1>0, <2>1
  <2> QED
    BY <1>5, <2>2, PlacesStay DEF LoadUser, AgentsStay
<1>6. ASSUME NEW s \in Servers, NEW k \in DOMAIN saves[s], SaveDone(s, k) PROVE PlacesInv'
  BY <1>6, PlacesStay DEF SaveDone, AgentsStay
<1>7. ASSUME NEW s \in Servers,
             LogoutTimer(s) \/ NoOperation(s) \/ AutoSave(s) \/ TimeHandle(s) \/ WaitExpires(s)
      PROVE  PlacesInv'
  <2>1. /\ server' = server /\ checking' = checking
        /\ \E x : agent' \in {agent, [agent EXCEPT ![x] = "gone"]}
    BY <1>7 DEF LogoutTimer, NoOperation, AutoSave, TimeHandle, WaitExpires
  <2>2. \A b \in Agents : agent'[b] \in {agent[b], "gone"}
    BY <1>0, <2>1
  <2> QED
    BY <2>1, <2>2, PlacesStay DEF AgentsStay
<1>8. ASSUME NEW s \in Servers, Redis(s) PROVE PlacesInv'
  BY <1>8, PlacesStay DEF Redis, AgentsStay
<1>9. ASSUME NEW s \in Servers, Receive(s) PROVE PlacesInv'
  <2>1. \A b \in Agents : agent'[b] = agent[b] \/ agent[b] = "open"
    <3>1. agent' = agent \/ (waitLogin[s] # None /\ DoLogin(s, waitLogin[s]))
      BY <1>9, ReceiveCases DEF CheckAccountLogin
    <3>2. waitLogin[s] # None => waitLogin[s] \in Agents
      BY DEF Types
    <3> QED
      BY <3>1, <3>2, DoLoginAgents
  <2> QED
    BY <1>9, <2>1, ReceiveCases, PlacesStay DEF AgentsStay
<1>10. CASE UNCHANGED vars
  BY <1>10, PlacesStay DEF vars, AgentsStay
<1> QED
  BY <1>1, <1>2, <1>3, <1>4, <1>5, <1>6, <1>7, <1>8, <1>9, <1>10
     DEF Next, Clients, Databases, Timers, Answers

-----------------------------------------------------------------------------
(***************************************************************************)
(* What the actions say.                                                   *)
(***************************************************************************)
LEMMA TellsWhatItSays ==
    ASSUME NEW s \in Servers, Types, Told,
           \E msgs \in Seq(Messages) : Speaks(s, msgs)
    PROVE  Told' /\ StaysToCome
  BY SpeakingTells, TypesAreTypeOK

\* The messages of a save end with END, unless there is a statement to wait for.
LEMMA HibernationSays ==
    ASSUME NEW n \in 0..MaxStmts, NEW msgs \in Hibernation(n)
    PROVE  /\ msgs \in Seq(Messages)
           /\ Closed(msgs, "CONSTRUCT", "DESTRUCT")
           /\ n = 0 \/ Gates = {} => Closed(msgs, "START", "END")
<1>1. msgs \in Seq(Messages)
  BY GateMessages
<1>2. msgs \in {<<>>, <<"START">>, <<"START", "END">>, <<"START", "END", "END">>}
  BY DEF Hibernation, ToGates
<1>3. n = 0 \/ Gates = {} => msgs \in {<<>>, <<"START", "END">>, <<"START", "END", "END">>}
  BY DEF Hibernation, ToGates
<1>4. /\ Closed(<<>>, "CONSTRUCT", "DESTRUCT") /\ Closed(<<"START">>, "CONSTRUCT", "DESTRUCT")
      /\ Closed(<<"START", "END">>, "CONSTRUCT", "DESTRUCT")
      /\ Closed(<<"START", "END", "END">>, "CONSTRUCT", "DESTRUCT")
      /\ Closed(<<>>, "START", "END") /\ Closed(<<"START", "END">>, "START", "END")
      /\ Closed(<<"START", "END", "END">>, "START", "END")
  BY Said, Marks
<1> QED
  BY <1>1, <1>2, <1>3, <1>4

LEMMA SavingStays ==
    ASSUME Types, NEW s \in Servers, NEW n \in 0..MaxStmts, saves' = Saving(s, n)
    PROVE  /\ \A t \in Servers \ {s} : saves'[t] = saves[t]
           /\ saves'[s] = <<>> => n = 0 /\ saves[s] = <<>>
<1>1. saves \in [Servers -> Seq(0..MaxStmts)] /\ saves[s] \in Seq(0..MaxStmts)
  BY DEF Types
<1>2. CASE n = 0
  BY <1>2 DEF Saving
<1>3. CASE n # 0
  <2>1. saves'[s] = Append(saves[s], n) /\ \A t \in Servers \ {s} : saves'[t] = saves[t]
    BY <1>1, <1>3 DEF Saving
  <2>2. Append(saves[s], n) # <<>>
    BY <1>1, AppendProperties
  <2> QED
    BY <2>1, <2>2
<1> QED
  BY <1>2, <1>3

LEMMA HiberateTells ==
    ASSUME Types, Told, NEW s \in Servers, Hiberate(s)
    PROVE  Told' /\ StaysToCome
<1>1. PICK n \in 0..MaxStmts :
         saves' = Saving(s, n) /\ \E msgs \in Hibernation(n) : Logout(s, msgs)
  BY DEF Hiberate
<1>2. PICK msgs \in Hibernation(n) : Logout(s, msgs)
  BY <1>1
<1>3. PICK bye \in Seq(Messages) :
         /\ bye = IF account[s] = None THEN <<>> ELSE <<"DESTRUCT">>
         /\ Closed(bye, "CONSTRUCT", "DESTRUCT") /\ Closed(bye, "START", "END")
         /\ account[s] # None => Has(bye, "DESTRUCT")
  BY Said, Marks
<1>4. /\ msgs \in Seq(Messages) /\ Closed(msgs, "CONSTRUCT", "DESTRUCT")
      /\ n = 0 \/ Gates = {} => Closed(msgs, "START", "END")
  BY HibernationSays
<1>5. msgs \o bye \in Seq(Messages)
  BY <1>4, ConcatProperties
<1>6. out' = [out EXCEPT ![s] = @ \o (msgs \o bye)]
  BY <1>2, <1>3 DEF Logout, Publish
<1>7. \A t \in Servers \ {s} : account'[t] = account[t] /\ saves'[t] = saves[t]
  BY <1>1, <1>2, SavingStays DEF Logout, Types
<1>8. /\ Closed(msgs \o bye, "CONSTRUCT", "DESTRUCT")
      /\ account[s] # None => Has(msgs \o bye, "DESTRUCT")
  BY <1>3, <1>4, Marks, ClosedAfter, HasAfter
<1>9. saves'[s] = <<>> \/ Gates = {} => Closed(msgs \o bye, "START", "END")
  <2>1. saves'[s] = <<>> \/ Gates = {} => Closed(msgs, "START", "END")
    BY <1>1, <1>4, SavingStays
  <2> QED
    BY <1>3, <1>4, <2>1, Marks, ClosedAfter
<1>10. saves'[s] = <<>> => saves[s] = <<>>
  BY <1>1, SavingStays
<1>11. Speaks(s, msgs \o bye)
  BY <1>6, <1>7, <1>8, <1>9, <1>10 DEF Speaks
<1> QED
  BY <1>5, <1>11, TellsWhatItSays

LEMMA DestructTells ==
    ASSUME Types, Told, NEW s \in Servers, DestructAccount(s)
    PROVE  Told' /\ StaysToCome
<1>1. /\ <<"DESTRUCT">> \in Seq(Messages) /\ Has(<<"DESTRUCT">>, "DESTRUCT")
      /\ Closed(<<"DESTRUCT">>, "CONSTRUCT", "DESTRUCT")
      /\ Closed(<<"DESTRUCT">>, "START", "END")
  BY Said, Marks
<1>2. Speaks(s, <<"DESTRUCT">>)
  BY <1>1 DEF DestructAccount, Publish, Speaks, Types
<1> QED
  BY <1>1, <1>2, TellsWhatItSays

LEMMA AccountLostTells ==
    ASSUME Types, Told, NEW s \in Servers, AccountLost(s)
    PROVE  Told' /\ StaysToCome
  BY HiberateTells, DestructTells DEF AccountLost

LEMMA DoLoginTells ==
    ASSUME Types, Told, NEW s \in Servers, NEW a \in Agents, DoLogin(s, a), UNCHANGED saves
    PROVE  Told' /\ StaysToCome
<1>1. CASE CanLogin(s, a)
  <2>1. <<"CONSTRUCT">> \in Seq(Messages) /\ Closed(<<"CONSTRUCT">>, "START", "END")
    BY Said, Marks
  <2>2. /\ account' = [account EXCEPT ![s] = a]
        /\ out' = [out EXCEPT ![s] = @ \o <<"CONSTRUCT">>]
    BY <1>1 DEF DoLogin, Publish
  <2>3. a # None
    BY LoginAssumption DEF Agents
  <2>4. Speaks(s, <<"CONSTRUCT">>)
    BY <2>1, <2>2, <2>3 DEF Speaks, Types
  <2> QED
    BY <2>1, <2>4, TellsWhatItSays
<1>2. CASE ~CanLogin(s, a)
  BY <1>2, SilenceTells DEF DoLogin, objects
<1> QED
  BY <1>1, <1>2

LEMMA SaveDoneTells ==
    ASSUME Types, Told, NEW s \in Servers, NEW k \in DOMAIN saves[s], SaveDone(s, k)
    PROVE  Told' /\ StaysToCome
<1>1. saves \in [Servers -> Seq(0..MaxStmts)] /\ saves[s] \in Seq(0..MaxStmts)
      /\ DOMAIN saves[s] = 1..Len(saves[s]) /\ account' = account
  BY LenProperties DEF Types, SaveDone, objects
<1>2. PICK msgs \in SaveSays(saves[s][k]) : out' = [out EXCEPT ![s] = @ \o msgs]
  BY DEF SaveDone, Publish
<1>3. /\ msgs \in Seq(Messages)
      /\ Closed(msgs, "CONSTRUCT", "DESTRUCT") /\ Closed(msgs, "START", "END")
      /\ saves[s][k] <= 1 /\ Gates # {} => Has(msgs, "END")
  <2>1. /\ Closed(<<>>, "CONSTRUCT", "DESTRUCT") /\ Closed(<<>>, "START", "END")
        /\ Closed(<<"END">>, "CONSTRUCT", "DESTRUCT") /\ Closed(<<"END">>, "START", "END")
        /\ Has(<<"END">>, "END")
    BY Said, Marks
  <2>2. /\ msgs \in {<<>>, <<"END">>}
        /\ saves[s][k] <= 1 /\ Gates # {} => msgs = <<"END">>
    BY <1>2 DEF SaveSays, ToGates
  <2> QED
    BY <2>1, <2>2, <1>2, GateMessages
<1>4. CASE saves[s][k] <= 1
  <2>1. saves' = [saves EXCEPT ![s] = RemoveAt(@, k)]
    BY <1>4 DEF SaveDone
  <2>2. \A t \in Servers \ {s} : saves'[t] = saves[t]
    BY <1>1, <2>1
  <2>3. Speaks(s, msgs)
    BY <1>1, <1>2, <1>3, <1>4, <2>2 DEF Speaks
  <2> QED
    BY <1>3, <2>3, TellsWhatItSays
<1>5. CASE ~(saves[s][k] <= 1)
  <2>1. saves' = [saves EXCEPT ![s][k] = @ - 1]
    BY <1>5 DEF SaveDone
  <2>2. saves'[s] # <<>> /\ \A t \in Servers \ {s} : saves'[t] = saves[t]
    <3>1. saves'[s] = [saves[s] EXCEPT ![k] = saves[s][k] - 1]
      BY <1>1, <2>1
    <3>2. DOMAIN saves'[s] = DOMAIN saves[s]
      BY <3>1
    <3> QED
      BY <1>1, <2>1, <3>2
  <2>3. Speaks(s, msgs)
    BY <1>1, <1>2, <1>3, <2>2 DEF Speaks
  <2> QED
    BY <1>3, <2>3, TellsWhatItSays
<1> QED
  BY <1>4, <1>5

-----------------------------------------------------------------------------
(***************************************************************************)
(* The steps.                                                              *)
(***************************************************************************)
LEMMA CheckAccountTells ==
    ASSUME Types, PlacesInv, Told, NEW a \in Agents, CheckAccount(a)
    PROVE  Told' /\ StaysToCome
<1>1. PICK s \in Servers : s = server[a]
  BY DEF CheckAccount, PlacesInv
<1>2. UNCHANGED saves
  BY DEF CheckAccount
<1>3. CASE wait[s]
  BY <1>1, <1>2, <1>3, SilenceTells DEF CheckAccount, objects
<1>4. CASE ~wait[s] /\ online[s]
  <2>1. Publish(s, AskedFor) /\ UNCHANGED objects
    BY <1>1, <1>4 DEF CheckAccount
  <2>2. /\ AskedFor \in Seq(Messages) /\ Closed(AskedFor, "CONSTRUCT", "DESTRUCT")
        /\ Closed(AskedFor, "START", "END")
    BY Said, Marks DEF AskedFor
  <2>3. Told' /\ StaysToCome
    <3>1. saves[s] = <<>> \/ saves'[s] # <<>>
      BY <1>2
    <3>2. Speaks(s, AskedFor)
      BY <1>2, <2>1, <2>2, <3>1 DEF Publish, Speaks, objects
    <3> QED
      BY <2>2, <3>2, TellsWhatItSays
  <2> QED
    BY <2>3
<1>5. CASE ~wait[s] /\ ~online[s]
  <2>1. DoLogin(s, a)
    BY <1>1, <1>5 DEF CheckAccount
  <2> QED
    BY <1>2, <2>1, DoLoginTells
<1> QED
  BY <1>3, <1>4, <1>5

LEMMA LoseTells ==
    ASSUME Types, PlacesInv, Told, NEW a \in Agents, Lose(a)
    PROVE  Told' /\ StaysToCome
<1>1. CASE UNCHANGED <<account, saves, out>>
  BY <1>1, SilenceTells
<1>2. CASE agent[a] = "relayed" /\ DestructAccount(server[a])
  BY <1>2, DestructTells DEF PlacesInv
<1> QED
  BY <1>1, <1>2 DEF Lose, objects

LEMMA AutoSaveTells ==
    ASSUME Types, Told, NEW s \in Servers, AutoSave(s)
    PROVE  Told' /\ StaysToCome
<1>1. PICK n \in 0..MaxStmts :
         saves' = Saving(s, n) /\ \E msgs \in Hibernation(n) : Publish(s, msgs)
  BY DEF AutoSave
<1>2. PICK msgs \in Hibernation(n) : Publish(s, msgs)
  BY <1>1
<1>3. UNCHANGED account
  BY DEF AutoSave, objects
<1>4. /\ \A t \in Servers \ {s} : saves'[t] = saves[t]
      /\ saves'[s] = <<>> => n = 0 /\ saves[s] = <<>>
  BY <1>1, SavingStays
<1>5. Speaks(s, msgs)
  BY <1>2, <1>3, <1>4, HibernationSays DEF Publish, Speaks
<1> QED
  BY <1>5, HibernationSays, TellsWhatItSays

\* A step that is neither Redis's nor the taking of a message.
LEMMA ActingTells ==
    ASSUME Types, PlacesInv, Told,
           Clients \/ Databases \/ Timers \/ UNCHANGED vars
    PROVE  Told' /\ StaysToCome /\ UNCHANGED <<inbox, online, freeze, interrupted>>
<1>1. ASSUME NEW a \in Agents, NEW s \in Servers, Login(a, s)
      PROVE  Told' /\ StaysToCome /\ UNCHANGED <<inbox, online, freeze, interrupted>>
  BY <1>1, SilenceTells DEF Login, objects, tables
<1>2. ASSUME NEW a \in Agents, Lose(a)
      PROVE  Told' /\ StaysToCome /\ UNCHANGED <<inbox, online, freeze, interrupted>>
  BY <1>2, LoseTells DEF Lose, tables
<1>3. ASSUME NEW a \in Agents, CheckAccount(a)
      PROVE  Told' /\ StaysToCome /\ UNCHANGED <<inbox, online, freeze, interrupted>>
  BY <1>3, CheckAccountTells DEF CheckAccount, tables
<1>4. ASSUME NEW a \in Agents, GetUserList(a)
      PROVE  Told' /\ StaysToCome /\ UNCHANGED <<inbox, online, freeze, interrupted>>
  BY <1>4, SilenceTells DEF GetUserList, SetLoginUser, objects, tables
<1>5. ASSUME NEW s \in Servers, LoadUser(s)
      PROVE  Told' /\ StaysToCome /\ UNCHANGED <<inbox, online, freeze, interrupted>>
  BY <1>5, SilenceTells DEF LoadUser, ReadUser, SetLoginUser, objects, tables
<1>6. ASSUME NEW s \in Servers, NEW k \in DOMAIN saves[s], SaveDone(s, k)
      PROVE  Told' /\ StaysToCome /\ UNCHANGED <<inbox, online, freeze, interrupted>>
  BY <1>6, SaveDoneTells DEF SaveDone, tables
<1>7. ASSUME NEW s \in Servers, LogoutTimer(s)
      PROVE  Told' /\ StaysToCome /\ UNCHANGED <<inbox, online, freeze, interrupted>>
  BY <1>7, HiberateTells DEF LogoutTimer, tables
<1>8. ASSUME NEW s \in Servers, NoOperation(s) \/ TimeHandle(s) \/ WaitExpires(s)
      PROVE  Told' /\ StaysToCome /\ UNCHANGED <<inbox, online, freeze, interrupted>>
  BY <1>8, SilenceTells DEF NoOperation, TimeHandle, WaitExpires, objects, tables
<1>9. ASSUME NEW s \in Servers, AutoSave(s)
      PROVE  Told' /\ StaysToCome /\ UNCHANGED <<inbox, online, freeze, interrupted>>
  BY <1>9, AutoSaveTells DEF AutoSave, tables
<1>10. CASE UNCHANGED vars
  BY <1>10, SilenceTells DEF vars, objects, tables
<1> QED
  BY <1>1, <1>2, <1>3, <1>4, <1>5, <1>6, <1>7, <1>8, <1>9, <1>10 DEF Clients, Databases, Timers

\* An account object that a server makes or gives up when it takes a message.
LEMMA ReceivingTells ==
    ASSUME Types, Told, NEW s \in Servers, Receive(s)
    PROVE  /\ Told' /\ StaysToCome
           /\ \/ interrupted'
              \/ Marking(s) /\ UNCHANGED interrupted
<1>1. Told' /\ StaysToCome
  <2>1. CASE UNCHANGED <<objects, saves, out>>
    BY <2>1, SilenceTells DEF objects
  <2>2. CASE AccountLost(s)
    BY <2>2, AccountLostTells
  <2>3. CASE waitLogin[s] # None /\ DoLogin(s, waitLogin[s]) /\ UNCHANGED saves
    BY <2>3, DoLoginTells DEF Types
  <2>4. \/ UNCHANGED <<objects, saves, out>> \/ AccountLost(s)
        \/ waitLogin[s] # None /\ DoLogin(s, waitLogin[s]) /\ UNCHANGED saves
    BY ReceiveCases DEF CheckAccountLogin
  <2> QED
    BY <2>1, <2>2, <2>3, <2>4
<1>2. \/ Interrupt(s)
      \/ UNCHANGED interrupted /\ inbox' = [inbox EXCEPT ![s] = Tail(@)]
  BY ReceiveCases DEF CheckAccountLogin
<1>3. CASE Interrupt(s)
  BY <1>1, <1>3 DEF Interrupt
<1>4. CASE UNCHANGED interrupted /\ inbox' = [inbox EXCEPT ![s] = Tail(@)]
  BY <1>1, <1>4, ReceiveCases DEF Marking
<1> QED
  BY <1>2, <1>3, <1>4

LEMMA LoginInvInit == Init => LoginInv
<1> SUFFICES ASSUME Init PROVE LoginInv
  OBVIOUS
<1>1. TypeOK
  BY TypesInit, TypesAreTypeOK
<1>2. PICK home \in Homes :
         /\ server = [a \in Agents |-> IF \E s \in Servers : home[s] = a
                                      THEN CHOOSE s \in Servers : home[s] = a ELSE None]
         /\ agent = [a \in Agents |-> IF \E s \in Servers : home[s] = a
                                     THEN "relayed" ELSE "none"]
         /\ account = home
  BY DEF Init
<1>3. /\ checking = {}
      /\ \A s \in Servers : /\ out[s] = <<>> /\ inbox[s] = <<>>
                            /\ online[s] = TRUE /\ freeze[s] = FALSE
  BY DEF Init
<1>4. PlacesInv
  BY <1>2, <1>3 DEF PlacesInv
<1>5. Told
  BY <1>3 DEF Told, SavesTold, ObjectsTold, Closed
<1>6. TablesSettle
  <2>1. FreezeInv
    BY <1>3, LoginAssumption DEF FreezeInv, Settles, Closed, Has
  <2>2. \E s \in Servers : account[s] # None
    BY <1>2, LoginAssumption
  <2>3. OnlineInv
    BY <1>3, <2>2 DEF OnlineInv, NewsToCome, Settles, Closed
  <2> QED
    BY <2>1, <2>3 DEF TablesSettle
<1> QED
  BY <1>1, <1>4, <1>5, <1>6 DEF LoginInv

LEMMA LoginInvStep == LoginInv /\ [Next]_vars => LoginInv'
<1> SUFFICES ASSUME LoginInv, [Next]_vars PROVE LoginInv'
  OBVIOUS
<1>1. TypeOK /\ Types /\ PlacesInv /\ Told
  BY TypesAreTypeOK DEF LoginInv
<1>2. TypeOK' /\ PlacesInv'
  <2>1. Types' /\ PlacesInv'
    BY <1>1, TypesStep, PlacesStep
  <2> QED
    BY <2>1 DEF TypeOK, Types
<1>3. CASE Clients \/ Databases \/ Timers \/ UNCHANGED vars
  <2>1. Told' /\ StaysToCome /\ UNCHANGED <<inbox, online, freeze, interrupted>>
    BY <1>1, <1>3, ActingTells
  <2>2. ~interrupted' => TablesSettle'
    BY <1>1, <2>1, TablesStay DEF LoginInv
  <2> QED
    BY <1>2, <2>1, <2>2 DEF LoginInv
<1>4. ASSUME NEW s \in Servers, Redis(s) PROVE LoginInv'
  <2>1. Told'
    BY <1>1, <1>4, DeliveryTells
  <2>2. UNCHANGED interrupted
    BY <1>4 DEF Redis
  <2>3. ~interrupted' => TablesSettle'
    BY <1>1, <1>4, <2>2, DeliverySettles DEF LoginInv
  <2> QED
    BY <1>2, <2>1, <2>3 DEF LoginInv
<1>5. ASSUME NEW s \in Servers, Receive(s) PROVE LoginInv'
  <2>1. /\ Told' /\ StaysToCome
        /\ interrupted' \/ (Marking(s) /\ UNCHANGED interrupted)
    BY <1>1, <1>5, ReceivingTells
  <2>2. ~interrupted' => TablesSettle'
    BY <1>1, <2>1, TakingSettles DEF LoginInv
  <2> QED
    BY <1>2, <2>1, <2>2 DEF LoginInv
<1> QED
  BY <1>3, <1>4, <1>5 DEF Next, Answers

\* At rest no message is to come, so the tables say what they will say.
LEMMA LoginInvTables == LoginInv => TablesInv
<1> SUFFICES ASSUME LoginInv, AtRest, ~interrupted
             PROVE  \A s \in Servers :
                       /\ ~freeze[s]
                       /\ \A t \in Servers : online[s] = online[t]
                       /\ online[s] => \E t \in Servers : account[t] # None
  BY DEF LoginInv, TablesInv, NobodyLockedOut, Agreement
<1>1. /\ \A s \in Servers : inbox[s] = <<>> /\ out[s] = <<>> /\ saves[s] = <<>>
      /\ FreezeInv /\ OnlineInv /\ Types
  BY TypesAreTypeOK DEF LoginInv, TablesSettle, AtRest
<1>2. \A m : ~Has(<<>>, m)
  BY DEF Has
<1>3. \A s \in Servers : ~freeze[s]
  <2>1. ~EndToCome
    BY <1>1, <1>2 DEF EndToCome
  <2>2. ASSUME NEW s \in Servers PROVE ~freeze[s]
    <3>1. CASE s \in Gates
      BY <1>1, <1>2, <2>1, <3>1 DEF FreezeInv, Settles
    <3>2. CASE s \notin Gates
      BY <1>1, <3>2 DEF FreezeInv
    <3> QED
      BY <3>1, <3>2
  <2> QED
    BY <2>2
<1>4. online \in [Servers -> BOOLEAN]
  BY <1>1 DEF Types
<1>5. CASE \A s \in Servers : Settles(inbox[s], online[s], "CONSTRUCT", "DESTRUCT")
  <2>1. \A s \in Servers : online[s] = FALSE
    BY <1>1, <1>2, <1>4, <1>5 DEF Settles
  <2> QED
    BY <1>3, <2>1
<1>6. CASE /\ \A s \in Servers : Settles(inbox[s], ~online[s], "DESTRUCT", "CONSTRUCT")
           /\ NewsToCome
  <2>1. \A s \in Servers : online[s] = TRUE
    BY <1>1, <1>2, <1>4, <1>6 DEF Settles
  <2>2. \E t \in Servers : account[t] # None
    BY <1>1, <1>2, <1>6 DEF NewsToCome
  <2> QED
    BY <1>3, <2>1, <2>2
<1> QED
  BY <1>1, <1>5, <1>6 DEF OnlineInv

\* Types; what a server began to tell it ends, WAIT by START and CONSTRUCT by DESTRUCT;
\* and as long as no assertion has ended a batch of messages, each server's table will
\* say the same when its messages are handled (accountd.lua, userd.lua, redisd.lua).
THEOREM LoginInvHolds == Spec => []LoginInv
  BY LoginInvInit, LoginInvStep, PTL DEF Spec

\* The tables of all servers agree when nothing is under way, however late the
\* messages were and whichever clients came and went: nobody is kept out by an account
\* that is frozen or that is taken to be online and has no object (accountd.lua,
\* redis_queued.lua).
THEOREM TablesAgree == Spec => []TablesInv
  BY LoginInvHolds, LoginInvTables, PTL
=============================================================================
