--------------------------- MODULE PresenceProofs ---------------------------
(***************************************************************************)
(* Proofs about Presence for any nodes, statuses, keys, bounds and faults: *)
(* types, and what the pins, their file and the list of contacts owe to    *)
(* the events that wait for the pump.                                      *)
(***************************************************************************)
EXTENDS Presence, SequenceTheorems, TLAPS

-----------------------------------------------------------------------------
(* Queues of events. *)

LEMMA AppendEvent ==
  ASSUME NEW s \in Seq(Seen), NEW e \in Seen
  PROVE  /\ s \o <<e>> \in Seq(Seen)
         /\ \A i \in DOMAIN s : i \in DOMAIN (s \o <<e>>) /\ (s \o <<e>>)[i] = s[i]
         /\ Len(s) + 1 \in DOMAIN (s \o <<e>>) /\ (s \o <<e>>)[Len(s) + 1] = e
  OBVIOUS

LEMMA TailEvents ==
  ASSUME NEW s \in Seq(Seen), s # <<>>
  PROVE  /\ Head(s) \in Seen /\ Tail(s) \in Seq(Seen)
         /\ \A i \in DOMAIN s : s[i] = Head(s) \/ \E j \in DOMAIN Tail(s) : Tail(s)[j] = s[i]
<1>1. /\ Head(s) \in Seen /\ Tail(s) \in Seq(Seen)
      /\ Len(s) \in Nat /\ DOMAIN s = 1 .. Len(s) /\ Head(s) = s[1]
      /\ Len(Tail(s)) = Len(s) - 1 /\ DOMAIN Tail(s) = 1 .. Len(s) - 1
      /\ \A j \in 1 .. Len(s) - 1 : Tail(s)[j] = s[j + 1]
  BY HeadTailProperties, LenProperties
<1>2. ASSUME NEW i \in 1 .. Len(s), i # 1
      PROVE  i - 1 \in DOMAIN Tail(s) /\ Tail(s)[i - 1] = s[i]
  BY <1>1, <1>2
<1> QED
  BY <1>1, <1>2

LEMMA Firsts ==
  /\ FirstKeys \in [Nodes -> Keys]
  /\ [n \in Nodes |-> CHOOSE s \in Statuses : TRUE] \in [Nodes -> Statuses]
<1>1. (CHOOSE k \in Keys : TRUE) \in Keys /\ (CHOOSE s \in Statuses : TRUE) \in Statuses
  BY PresenceAssumption
<1> QED
  BY <1>1 DEF FirstKeys

LEMMA PairFacts ==
  ASSUME NEW n \in Nodes, NEW p \in Nodes, n # p
  PROVE  <<n, p>> \in Pairs /\ p \in Others(n)
  BY DEF Pairs, Others

LEMMA ProfileType ==
  ASSUME TypeOK, NEW n \in Nodes, NEW p \in Others(n), NEW event \in PresenceEvent,
         NEW s \in Statuses
  PROVE  /\ Profile(n, p, event, s) \in Datagram
         /\ Profile(n, p, event, s).from # Profile(n, p, event, s).to
  BY DEF Profile, Datagram, Others, TypeOK

LEMMA BroadcastType ==
  ASSUME TypeOK, NEW n \in Nodes, NEW event \in PresenceEvent, NEW s \in Statuses,
         Broadcast(n, event, s)
  PROVE  net' \subseteq Datagram /\ \A d \in net' : d.from # d.to
<1>1. net' = net \cup {Profile(n, p, event, s) : p \in Others(n)}
  BY DEF Broadcast
<1>2. net \subseteq Datagram /\ \A d \in net : d.from # d.to
  BY DEF TypeOK
<1>3. ASSUME NEW d \in {Profile(n, p, event, s) : p \in Others(n)}
      PROVE  d \in Datagram /\ d.from # d.to
  BY ProfileType
<1> QED
  BY <1>1, <1>2, <1>3

-----------------------------------------------------------------------------
(* Types. *)

LEMMA TypeInit == Init => TypeOK
<1> SUFFICES ASSUME Init PROVE TypeOK
  OBVIOUS
<1>1. inbox \in [Nodes -> Seq(Seen)] /\ \A n \in Nodes : inbox[n] = <<>>
  BY EmptySeq DEF Init
<1>2. status \in [Nodes -> Statuses] /\ key \in [Nodes -> Keys]
  BY Firsts DEF Init
<1>3. \A n \in Nodes : \A p \in Others(n) : table[<<n, p>>] = None
  BY DEF Init, Pairs, Others
<1> QED
  BY <1>1, <1>2, <1>3, PresenceAssumption DEF Init, TypeOK

LEMMA AnswerType ==
  ASSUME TypeOK, NEW d \in net, up[d.to]
  PROVE  \A a \in Answer(d, table[<<d.to, d.from>>]) : a \in Datagram /\ a.from # a.to
<1>1. d.to \in Nodes /\ d.from \in Others(d.to) /\ status[d.to] \in Statuses
  BY DEF TypeOK, Datagram, Others
<1> QED
  BY <1>1, ProfileType DEF Answer, PresenceEvent

LEMMA ReceiveType ==
  ASSUME TypeOK, NEW d \in net, Receive(d)
  PROVE  TypeOK'
<1> DEFINE n == d.to
           p == d.from
<1>1. /\ n \in Nodes /\ p \in Nodes /\ n # p /\ <<n, p>> \in Pairs
      /\ d.key \in Keys /\ d.status \in Statuses
  BY PairFacts DEF TypeOK, Datagram
<1>2. /\ pin' = [pin EXCEPT ![<<n, p>>] = d.key]
      /\ table' = [table EXCEPT ![<<n, p>>] =
                     [status |-> d.status, key |-> d.key, fresh |-> TRUE]]
      /\ pin[<<n, p>>] \in {None, d.key} /\ up[n]
      /\ inbox' = [inbox EXCEPT ![n] = @ \o News(d, table[<<n, p>>])]
  BY DEF Receive, Pinned, Accepts
<1>3. pin' \in [Pairs -> Keys \cup {None}]
  BY <1>1, <1>2 DEF TypeOK
<1>4. DOMAIN table' = Pairs /\ \A np \in Pairs :
        table'[np] = None \/ (table'[np] \in Entry /\ pin'[np] = table'[np].key)
  BY <1>1, <1>2 DEF TypeOK, Entry
<1>5. inbox' \in [Nodes -> Seq(Seen)]
  <2>1. News(d, table[<<n, p>>]) = <<>> \/
        News(d, table[<<n, p>>]) = <<[peer |-> p, first |-> pin[<<n, p>>] = None]>>
    BY DEF News
  <2>2. [peer |-> p, first |-> pin[<<n, p>>] = None] \in Seen
    BY <1>1 DEF Seen
  <2>3. inbox[n] \in Seq(Seen)
    BY <1>1 DEF TypeOK
  <2>4. inbox[n] \o News(d, table[<<n, p>>]) \in Seq(Seen)
    BY <2>1, <2>2, <2>3, AppendEvent, ConcatEmptySeq
  <2> QED
    BY <1>1, <1>2, <2>4 DEF TypeOK
<1>6. net' \subseteq Datagram /\ \A e \in net' : e.from # e.to
  BY AnswerType, <1>2 DEF Receive, TypeOK
<1>7. spent' \in 0 .. MaxSpent
  BY PresenceAssumption DEF Receive, Strike, Spend, TypeOK
<1>8. \A m \in Nodes : ~up[m] => inbox'[m] = <<>> /\ \A q \in Others(m) : table'[<<m, q>>] = None
  BY <1>1, <1>2 DEF TypeOK, Others, Pairs
<1> QED
  BY <1>3, <1>4, <1>5, <1>6, <1>7, <1>8 DEF Receive, TypeOK

LEMMA SeenType ==
  ASSUME TypeOK, NEW n \in Nodes, HandleSeen(n)
  PROVE  TypeOK'
<1>1. inbox[n] \in Seq(Seen) /\ inbox[n] # <<>>
  BY DEF HandleSeen, TypeOK
<1>2. Tail(inbox[n]) \in Seq(Seen)
  BY <1>1, TailEvents
<1>3. inbox' \in [Nodes -> Seq(Seen)] /\ \A m \in Nodes : m # n => inbox'[m] = inbox[m]
  BY <1>2 DEF HandleSeen, TypeOK
<1>4. up[n]
  BY <1>1 DEF TypeOK
<1>5. disk' \in [Pairs -> Keys \cup {None}] /\ contact' \in [Pairs -> BOOLEAN]
  BY DEF HandleSeen, TypeOK
<1> QED
  BY <1>3, <1>4, <1>5 DEF HandleSeen, TypeOK

LEMMA TimeType ==
  ASSUME TypeOK, NEW np \in Pairs, Age(np[1], np[2]) \/ Sweep(np[1], np[2])
  PROVE  TypeOK'
<1> DEFINE n == np[1]
           p == np[2]
<1>1. n \in Nodes /\ p \in Nodes /\ <<n, p>> \in Pairs
  BY DEF Pairs
<1>2. table[<<n, p>>] \in Entry /\ pin[<<n, p>>] = table[<<n, p>>].key
  BY <1>1 DEF Age, Sweep, TypeOK
<1>3. PICK e \in Entry : /\ table' = [table EXCEPT ![<<n, p>>] = e]
                         /\ e.key = table[<<n, p>>].key
  <2>1. CASE Age(n, p)
    <3>1. [table[<<n, p>>] EXCEPT !.fresh = FALSE] \in Entry
      BY <1>2 DEF Entry
    <3> QED
      BY <1>2, <2>1, <3>1 DEF Age, Entry
  <2>2. CASE Sweep(n, p)
    <3>1. [table[<<n, p>>] EXCEPT !.status = "offline"] \in Entry
      BY <1>2 DEF Entry
    <3> QED
      BY <1>2, <2>2, <3>1 DEF Sweep, Entry
  <2> QED
    BY <2>1, <2>2
<1>4. spent' \in 0 .. MaxSpent
  BY PresenceAssumption DEF Age, Sweep, Strike, Spend, TypeOK
<1>5. UNCHANGED <<up, status, key, pin, disk, contact, inbox, removing, writing, net>>
  BY DEF Age, Sweep, trustVars, appVars
<1>6. DOMAIN table' = Pairs /\ \A q \in Pairs :
        table'[q] = None \/ (table'[q] \in Entry /\ pin[q] = table'[q].key)
  BY <1>1, <1>2, <1>3 DEF TypeOK
<1>7. up[n]
  BY <1>1 DEF Age, Sweep, TypeOK, Pairs, Others
<1>8. \A m \in Nodes : ~up[m] => inbox[m] = <<>> /\ \A q \in Others(m) : table'[<<m, q>>] = None
  BY <1>1, <1>3, <1>7 DEF TypeOK, Others, Pairs
<1> QED
  BY <1>4, <1>5, <1>6, <1>8 DEF TypeOK

LEMMA ContactsType ==
  ASSUME TypeOK, NEW np \in Pairs, RemoveRow(np[1], np[2]) \/ Forget(np[1], np[2])
  PROVE  TypeOK'
<1> DEFINE n == np[1]
           p == np[2]
<1>1. n \in Nodes /\ p \in Nodes /\ <<n, p>> \in Pairs
  BY DEF Pairs
<1>2. CASE RemoveRow(n, p)
  BY <1>1, <1>2, PresenceAssumption DEF RemoveRow, Spend, TypeOK, trustVars
<1>3. CASE Forget(n, p)
  <2>1. DOMAIN table' = Pairs /\ \A q \in Pairs :
          table'[q] = None \/ (table'[q] \in Entry /\ pin'[q] = table'[q].key)
    BY <1>1, <1>3 DEF Forget, TypeOK, trustVars
  <2>2. \A m \in Nodes : ~up[m] => \A q \in Others(m) : table'[<<m, q>>] = None
    BY <1>1, <1>3 DEF Forget, TypeOK, Others, Pairs
  <2> QED
    BY <1>1, <1>3, <2>1, <2>2 DEF Forget, TypeOK, trustVars
<1> QED
  BY <1>2, <1>3

LEMMA CrashType ==
  ASSUME TypeOK, NEW n \in Nodes, Crash(n)
  PROVE  TypeOK'
<1>1. key' \in [Nodes -> Keys]
  BY DEF Crash, TypeOK
<1>2. /\ table' = [np \in Pairs |-> IF np[1] = n THEN None ELSE table[np]]
      /\ inbox' = [inbox EXCEPT ![n] = <<>>]
      /\ up' = [up EXCEPT ![n] = FALSE]
      /\ removing' \in [Pairs -> BOOLEAN] /\ writing' = [writing EXCEPT ![n] = {}]
      /\ UNCHANGED <<status, pin, disk, contact, net>>
  <2>1. \A np \in Pairs : (np[1] # n /\ removing[np]) \in BOOLEAN
    OBVIOUS
  <2> QED
    BY <2>1 DEF Crash, trustVars
<1>3. inbox' \in [Nodes -> Seq(Seen)]
  BY <1>2, EmptySeq DEF TypeOK
<1>4. spent' \in 0 .. MaxSpent
  BY PresenceAssumption DEF Crash, Strike, Spend, TypeOK
<1>5. \A m \in Nodes : ~up'[m] =>
        inbox'[m] = <<>> /\ \A p \in Others(m) : table'[<<m, p>>] = None
  BY <1>2 DEF TypeOK, Others, Pairs
<1>6. writing' \in [Nodes -> SUBSET Nodes]
  BY <1>2 DEF TypeOK
<1>7. DOMAIN table' = Pairs /\ \A np \in Pairs :
        table'[np] = None \/ (table'[np] \in Entry /\ pin'[np] = table'[np].key)
  BY <1>2 DEF TypeOK
<1>8. up' \in [Nodes -> BOOLEAN]
  BY <1>2 DEF TypeOK
<1> QED
  BY <1>1, <1>2, <1>3, <1>4, <1>5, <1>6, <1>7, <1>8 DEF TypeOK

LEMMA StartType ==
  ASSUME TypeOK, NEW n \in Nodes, Start(n)
  PROVE  TypeOK'
<1>1. net' \subseteq Datagram /\ \A d \in net' : d.from # d.to
  <2>1. "announce" \in PresenceEvent /\ status[n] \in Statuses
    BY DEF PresenceEvent, TypeOK
  <2> QED
    BY <2>1, BroadcastType DEF Start
<1>2. pin' \in [Pairs -> Keys \cup {None}]
  BY DEF Start, TypeOK
<1>3. \A np \in Pairs : np[1] = n => table[np] = None
  <2>1. ASSUME NEW np \in Pairs, np[1] = n
        PROVE  np = <<n, np[2]>> /\ np[2] \in Others(n)
    BY <2>1 DEF Pairs, Others
  <2> QED
    BY <2>1 DEF Start, TypeOK
<1>4. \A np \in Pairs : table[np] = None \/ (table[np] \in Entry /\ pin'[np] = table[np].key)
  BY <1>3 DEF Start, TypeOK
<1> QED
  BY <1>1, <1>2, <1>4 DEF Start, TypeOK, appVars

LEMMA NodeType ==
  ASSUME TypeOK, NEW n \in Nodes,
         \/ Announce(n) \/ Heartbeat(n) \/ RefreshStart(n) \/ RefreshWrite(n)
         \/ \E s \in Statuses : SetStatus(n, s)
  PROVE  TypeOK'
<1>1. spent' \in 0 .. MaxSpent
  BY PresenceAssumption
  DEF Announce, Heartbeat, RefreshStart, RefreshWrite, SetStatus, Spend, TypeOK
<1>2. net' \subseteq Datagram /\ \A d \in net' : d.from # d.to
  <2>1. {"announce", "heartbeat", "update"} \subseteq PresenceEvent /\ status[n] \in Statuses
    BY DEF PresenceEvent, TypeOK
  <2>2. CASE RefreshWrite(n)
    BY <2>2 DEF RefreshWrite, TypeOK
  <2> QED
    BY <2>1, <2>2, BroadcastType DEF Announce, Heartbeat, RefreshStart, SetStatus
<1>3. CASE RefreshStart(n)
  <2>1. writing' \in [Nodes -> SUBSET Nodes]
    BY <1>3 DEF RefreshStart, TypeOK, Others
  <2> QED
    BY <1>1, <1>2, <1>3, <2>1 DEF RefreshStart, TypeOK, trustVars
<1>4. CASE RefreshWrite(n)
  <2>1. contact' \in [Pairs -> BOOLEAN] /\ writing' \in [Nodes -> SUBSET Nodes]
    <3>1. \A np \in Pairs : (contact[np] \/ (np[1] = n /\ np[2] \in writing[n])) \in BOOLEAN
      OBVIOUS
    <3> QED
      BY <1>4, <3>1 DEF RefreshWrite, TypeOK
  <2> QED
    BY <1>1, <1>2, <1>4, <2>1 DEF RefreshWrite, TypeOK, trustVars
<1>5. CASE \E s \in Statuses : SetStatus(n, s)
  BY <1>1, <1>2, <1>5 DEF SetStatus, TypeOK, trustVars, appVars
<1>6. CASE Announce(n) \/ Heartbeat(n)
  BY <1>1, <1>2, <1>6 DEF Announce, Heartbeat, TypeOK, trustVars, appVars
<1> QED
  BY <1>3, <1>4, <1>5, <1>6

LEMMA TypeNext == TypeOK /\ [Next]_vars => TypeOK'
<1> SUFFICES ASSUME TypeOK, [Next]_vars PROVE TypeOK'
  OBVIOUS
<1>1. ASSUME NEW d \in net, Refuse(d) \/ Lose(d) PROVE TypeOK'
  BY <1>1 DEF Refuse, Lose, TypeOK, trustVars, appVars
<1>2. CASE UNCHANGED vars
  BY <1>2 DEF vars, TypeOK, trustVars, appVars
<1> QED
  BY <1>1, <1>2, ReceiveType, SeenType, TimeType, ContactsType, CrashType, StartType, NodeType
  DEF Next

\* Every variable of discovery keeps its type, and what the peer table knows of a
\* peer was announced with the key that is pinned (handle_datagram_inner).
THEOREM TypeCorrect == Spec => []TypeOK
<1> QED
  BY TypeInit, TypeNext, PTL DEF Spec

-----------------------------------------------------------------------------
(* The events that wait for the pump. *)

\* A datagram disturbs one queue, by appending to it, and a peer that is new to
\* the table is always reported.
LEMMA QueueAfterReceive ==
  ASSUME TypeOK, NEW d \in net, Receive(d)
  PROVE  /\ d.to \in Nodes /\ d.from \in Nodes /\ <<d.to, d.from>> \in Pairs
         /\ \A m \in Nodes : \A i \in DOMAIN inbox[m] :
              i \in DOMAIN inbox'[m] /\ inbox'[m][i] = inbox[m][i]
         /\ table[<<d.to, d.from>>] = None =>
              \E i \in DOMAIN inbox'[d.to] :
                 inbox'[d.to][i] = [peer |-> d.from, first |-> pin[<<d.to, d.from>>] = None]
<1> DEFINE n == d.to
           p == d.from
           e == [peer |-> p, first |-> pin[<<n, p>>] = None]
<1>1. n \in Nodes /\ p \in Nodes /\ <<n, p>> \in Pairs
  BY PairFacts DEF TypeOK, Datagram
<1>2. inbox[n] \in Seq(Seen) /\ e \in Seen
  BY <1>1 DEF TypeOK, Seen
<1>3. /\ inbox'[n] = inbox[n] \o News(d, table[<<n, p>>])
      /\ \A m \in Nodes : m # n => inbox'[m] = inbox[m]
  BY <1>1 DEF Receive, TypeOK
<1>4. CASE News(d, table[<<n, p>>]) = <<>>
  <2>1. inbox'[n] = inbox[n]
    BY <1>2, <1>3, <1>4, ConcatEmptySeq
  <2>2. table[<<n, p>>] # None
    BY <1>4 DEF News
  <2> QED
    BY <1>1, <1>3, <2>1, <2>2
<1>5. CASE News(d, table[<<n, p>>]) = <<e>>
  <2>1. /\ \A i \in DOMAIN inbox[n] : i \in DOMAIN inbox'[n] /\ inbox'[n][i] = inbox[n][i]
        /\ Len(inbox[n]) + 1 \in DOMAIN inbox'[n] /\ inbox'[n][Len(inbox[n]) + 1] = e
    BY <1>2, <1>3, <1>5, AppendEvent
  <2>2. ASSUME NEW m \in Nodes, NEW i \in DOMAIN inbox[m]
        PROVE  i \in DOMAIN inbox'[m] /\ inbox'[m][i] = inbox[m][i]
    BY <1>3, <2>1
  <2>3. \E i \in DOMAIN inbox'[n] : inbox'[n][i] = e
    BY <2>1
  <2> QED
    BY <1>1, <2>2, <2>3
<1> QED
  BY <1>4, <1>5 DEF News

\* The pump takes one event, and what it does for it is done in the same step.
LEMMA QueueAfterSeen ==
  ASSUME TypeOK, NEW n \in Nodes, HandleSeen(n)
  PROVE  /\ up[n] /\ Head(inbox[n]) \in Seen
         /\ \A m \in Nodes : m # n => inbox'[m] = inbox[m]
         /\ \A i \in DOMAIN inbox[n] :
              \/ inbox[n][i] = Head(inbox[n])
              \/ \E j \in DOMAIN inbox'[n] : inbox'[n][j] = inbox[n][i]
<1>1. inbox[n] \in Seq(Seen) /\ inbox[n] # <<>>
  BY DEF HandleSeen, TypeOK
<1>2. inbox'[n] = Tail(inbox[n]) /\ \A m \in Nodes : m # n => inbox'[m] = inbox[m]
  BY DEF HandleSeen, TypeOK
<1>3. up[n]
  BY <1>1 DEF TypeOK
<1> QED
  BY <1>1, <1>2, <1>3, TailEvents

-----------------------------------------------------------------------------
(* Pins and their file. *)

LEMMA PinsSavedInit == Init => PinsSaved
  BY DEF Init, PinsSaved

LEMMA PinsSavedReceive ==
  ASSUME TypeOK, PinsSaved, NEW d \in net, Receive(d)
  PROVE  PinsSaved'
<1> DEFINE n == d.to
           p == d.from
<1>1. /\ pin' = [pin EXCEPT ![<<n, p>>] = d.key] /\ disk' = disk /\ up' = up
      /\ pin[<<n, p>>] \in {None, d.key}
  BY DEF Receive, Pinned, Accepts
<1>2. ASSUME NEW m \in Nodes, FirstPending(m) PROVE FirstPending(m)'
  BY <1>2, QueueAfterReceive DEF FirstPending
<1>3. ASSUME pin[<<n, p>>] = None, up[n] PROVE disk[<<n, p>>] = None /\ FirstPending(n)'
  <2>1. <<n, p>> \in Pairs /\ table[<<n, p>>] = None
    BY <1>3, QueueAfterReceive, PresenceAssumption DEF TypeOK, Entry
  <2>2. PICK i \in DOMAIN inbox'[n] : inbox'[n][i] = [peer |-> p, first |-> TRUE]
    BY <1>3, <2>1, QueueAfterReceive
  <2>3. FirstPending(n)'
    BY <2>2 DEF FirstPending
  <2> QED
    BY <1>3, <2>1, <2>3 DEF PinsSaved
<1>4. SUFFICES ASSUME NEW np \in Pairs, up[np[1]], pin'[np] # disk[np]
               PROVE  disk[np] = None /\ FirstPending(np[1])'
  BY <1>1 DEF PinsSaved
<1>5. CASE pin'[np] = pin[np]
  <2>1. np[1] \in Nodes
    BY DEF Pairs
  <2> QED
    BY <1>2, <1>4, <1>5, <2>1 DEF PinsSaved
<1>6. CASE pin'[np] # pin[np]
  <2>1. np = <<n, p>> /\ pin[<<n, p>>] = None
    BY <1>1, <1>6 DEF TypeOK
  <2> QED
    BY <1>3, <1>4, <2>1
<1> QED
  BY <1>5, <1>6

LEMMA PinsSavedSeen ==
  ASSUME TypeOK, PinsSaved, NEW n \in Nodes, HandleSeen(n)
  PROVE  PinsSaved'
<1>1. up' = up /\ pin' = pin
  BY DEF HandleSeen
<1>2. CASE Head(inbox[n]).first
  <2>1. disk' = [np \in Pairs |-> IF np[1] = n THEN pin[np] ELSE disk[np]]
    BY <1>2 DEF HandleSeen
  <2>2. ASSUME NEW np \in Pairs, np[1] # n, FirstPending(np[1]) PROVE FirstPending(np[1])'
    BY <2>2, QueueAfterSeen DEF FirstPending, Pairs
  <2> QED
    BY <1>1, <2>1, <2>2 DEF PinsSaved
<1>3. CASE ~Head(inbox[n]).first
  <2>1. disk' = disk
    BY <1>3 DEF HandleSeen
  <2>2. ASSUME NEW m \in Nodes, FirstPending(m) PROVE FirstPending(m)'
    BY <1>3, <2>2, QueueAfterSeen DEF FirstPending
  <2> QED
    BY <1>1, <2>1, <2>2 DEF PinsSaved, Pairs
<1> QED
  BY <1>2, <1>3

LEMMA PinsSavedNext == TypeOK /\ PinsSaved /\ [Next]_vars => PinsSaved'
<1> SUFFICES ASSUME TypeOK, PinsSaved, [Next]_vars PROVE PinsSaved'
  OBVIOUS
<1>1. ASSUME NEW n \in Nodes, Crash(n) PROVE PinsSaved'
  BY <1>1 DEF Crash, PinsSaved, FirstPending, TypeOK, trustVars, Pairs
<1>2. ASSUME NEW n \in Nodes, Start(n) PROVE PinsSaved'
  <2>1. /\ pin' = [np \in Pairs |-> IF np[1] = n THEN disk[np] ELSE pin[np]]
        /\ disk' = disk /\ inbox' = inbox /\ \A m \in Nodes : m # n => up'[m] = up[m]
    BY <1>2 DEF Start, appVars, TypeOK
  <2> QED
    BY <2>1 DEF PinsSaved, FirstPending, Pairs
<1>3. ASSUME UNCHANGED <<up, pin, disk, inbox>> PROVE PinsSaved'
  BY <1>3 DEF PinsSaved, FirstPending
<1>4. ASSUME NEW n \in Nodes,
             \/ Announce(n) \/ Heartbeat(n) \/ RefreshStart(n) \/ RefreshWrite(n)
             \/ \E s \in Statuses : SetStatus(n, s)
      PROVE  PinsSaved'
  BY <1>3, <1>4 DEF Announce, Heartbeat, RefreshStart, RefreshWrite, SetStatus, trustVars, appVars
<1>5. ASSUME NEW d \in net, Refuse(d) \/ Lose(d) PROVE PinsSaved'
  BY <1>3, <1>5 DEF Refuse, Lose, trustVars, appVars
<1>6. ASSUME NEW np \in Pairs,
             \/ Age(np[1], np[2]) \/ Sweep(np[1], np[2])
             \/ RemoveRow(np[1], np[2]) \/ Forget(np[1], np[2])
      PROVE  PinsSaved'
  BY <1>3, <1>6 DEF Age, Sweep, RemoveRow, Forget, trustVars, appVars
<1>7. CASE UNCHANGED vars
  BY <1>3, <1>7 DEF vars, trustVars, appVars
<1> QED
  BY <1>1, <1>2, <1>4, <1>5, <1>6, <1>7, PinsSavedReceive, PinsSavedSeen DEF Next

\* A pin that is not in tofu.json has a first contact waiting for the event pump,
\* across crashes, lost keys and datagrams out of order (handle_datagram,
\* event_pump, save_tofu).
THEOREM PinsAreSaved == Spec => []PinsSaved
<1> QED
  BY TypeInit, TypeNext, PinsSavedInit, PinsSavedNext, PTL DEF Spec

\* Only the pump writes the file, of a node that is up, where a key that is in
\* the file is the one in memory.
LEMMA PinsFinalNext ==
  TypeOK /\ PinsSaved /\ [Next]_vars =>
    [\A np \in Pairs : disk[np] # None => disk'[np] = disk[np]]_disk
<1> SUFFICES ASSUME TypeOK, PinsSaved, [Next]_vars, NEW np \in Pairs, disk[np] # None
             PROVE  disk'[np] = disk[np]
  OBVIOUS
<1>1. ASSUME NEW n \in Nodes, HandleSeen(n) PROVE disk'[np] = disk[np]
  BY <1>1, QueueAfterSeen DEF HandleSeen, PinsSaved
<1>2. CASE disk' = disk
  BY <1>2
<1>3. ASSUME NEW n \in Nodes,
             \/ Announce(n) \/ Heartbeat(n) \/ RefreshStart(n) \/ RefreshWrite(n)
             \/ Crash(n) \/ Start(n) \/ \E s \in Statuses : SetStatus(n, s)
      PROVE  disk' = disk
  BY <1>3 DEF Announce, Heartbeat, RefreshStart, RefreshWrite, Crash, Start, SetStatus, trustVars
<1>4. ASSUME NEW d \in net, Receive(d) \/ Refuse(d) \/ Lose(d) PROVE disk' = disk
  BY <1>4 DEF Receive, Refuse, Lose, trustVars
<1>5. ASSUME NEW q \in Pairs,
             \/ Age(q[1], q[2]) \/ Sweep(q[1], q[2])
             \/ RemoveRow(q[1], q[2]) \/ Forget(q[1], q[2])
      PROVE  disk' = disk
  BY <1>5 DEF Age, Sweep, RemoveRow, Forget, trustVars
<1>6. CASE UNCHANGED vars
  BY <1>6 DEF vars, trustVars
<1> QED
  BY <1>1, <1>2, <1>3, <1>4, <1>5, <1>6 DEF Next

\* No step replaces or removes a key that the file of pins holds, whatever is
\* announced, in whatever order, and however often nodes restart
\* (TofuStore::verify, save_tofu, load_tofu).
THEOREM PinsAreFinal == Spec => PinsFinal
<1> QED
  BY TypeInit, TypeNext, PinsSavedInit, PinsSavedNext, PinsFinalNext, PTL DEF Spec, PinsFinal

-----------------------------------------------------------------------------
(* The list of contacts. *)

\* The contact has its row, is being removed, or is about to be written.
Listed(n, p) ==
    \/ contact[<<n, p>>] \/ removing[<<n, p>>]
    \/ \E i \in DOMAIN inbox[n] : inbox[n][i].peer = p

LEMMA ListedInit == Init => ContactListed
  BY DEF Init, ContactListed, Pairs, Others

LEMMA ListedReceive ==
  ASSUME TypeOK, ContactListed, NEW d \in net, Receive(d)
  PROVE  ContactListed'
<1>1. SUFFICES ASSUME NEW n \in Nodes, NEW p \in Others(n), table'[<<n, p>>] # None
               PROVE  Listed(n, p)'
  BY DEF ContactListed, Listed
<1>2. contact' = contact /\ removing' = removing
  BY DEF Receive
<1>3. CASE table[<<n, p>>] # None
  <2>1. Listed(n, p)
    BY <1>3 DEF ContactListed, Listed
  <2>2. ASSUME NEW i \in DOMAIN inbox[n], inbox[n][i].peer = p
        PROVE  i \in DOMAIN inbox'[n] /\ inbox'[n][i].peer = p
    BY <2>2, QueueAfterReceive
  <2> QED
    BY <1>2, <2>1, <2>2 DEF Listed
<1>4. CASE table[<<n, p>>] = None
  <2>1. <<n, p>> \in Pairs
    BY PairFacts DEF Others
  <2>2. <<n, p>> = <<d.to, d.from>>
    BY <1>1, <1>4, <2>1 DEF Receive, TypeOK
  <2>3. n = d.to /\ p = d.from /\ table[<<d.to, d.from>>] = None
    BY <1>4, <2>2
  <2>4. PICK i \in DOMAIN inbox'[n] :
          inbox'[n][i] = [peer |-> p, first |-> pin[<<d.to, d.from>>] = None]
    BY <2>3, QueueAfterReceive
  <2>5. inbox'[n][i].peer = p
    BY <2>4
  <2> QED
    BY <2>4, <2>5 DEF Listed
<1> QED
  BY <1>3, <1>4

LEMMA ListedSeen ==
  ASSUME TypeOK, ContactListed, NEW m \in Nodes, HandleSeen(m)
  PROVE  ContactListed'
<1>1. /\ contact' = [contact EXCEPT ![<<m, Head(inbox[m]).peer>>] = TRUE]
      /\ removing' = removing /\ table' = table
  BY DEF HandleSeen
<1>2. SUFFICES ASSUME NEW n \in Nodes, NEW p \in Others(n), Listed(n, p)
               PROVE  Listed(n, p)'
  BY <1>1 DEF ContactListed, Listed
<1>3. <<n, p>> \in Pairs
  BY PairFacts DEF Others
<1>4. contact[<<n, p>>] => contact'[<<n, p>>]
  BY <1>1, <1>3 DEF TypeOK
<1>5. CASE \E i \in DOMAIN inbox[n] : inbox[n][i].peer = p
  <2>1. CASE n = m /\ Head(inbox[m]).peer = p
    BY <1>1, <1>3, <2>1 DEF Listed, TypeOK
  <2>2. CASE n = m /\ Head(inbox[m]).peer # p
    BY <1>5, <2>2, QueueAfterSeen DEF Listed
  <2>3. CASE n # m
    BY <1>5, <2>3, QueueAfterSeen DEF Listed
  <2> QED
    BY <2>1, <2>2, <2>3
<1> QED
  BY <1>1, <1>2, <1>4, <1>5 DEF Listed

LEMMA ListedContacts ==
  ASSUME TypeOK, ContactListed, NEW np \in Pairs,
         \/ Age(np[1], np[2]) \/ Sweep(np[1], np[2])
         \/ RemoveRow(np[1], np[2]) \/ Forget(np[1], np[2])
  PROVE  ContactListed'
<1>1. np[1] \in Nodes /\ np[2] \in Nodes /\ np = <<np[1], np[2]>>
  BY DEF Pairs
<1>2. SUFFICES ASSUME NEW n \in Nodes, NEW p \in Others(n), table'[<<n, p>>] # None
               PROVE  Listed(n, p)'
  BY DEF ContactListed, Listed
<1>3. <<n, p>> \in Pairs
  BY PairFacts DEF Others
<1>4. CASE Age(np[1], np[2]) \/ Sweep(np[1], np[2])
  <2>1. table[<<n, p>>] # None /\ UNCHANGED <<contact, removing, inbox>>
    BY <1>1, <1>2, <1>3, <1>4 DEF Age, Sweep, appVars, TypeOK
  <2> QED
    BY <2>1 DEF ContactListed, Listed
<1>5. CASE RemoveRow(np[1], np[2])
  BY <1>1, <1>2, <1>3, <1>5 DEF RemoveRow, ContactListed, Listed, TypeOK
<1>6. CASE Forget(np[1], np[2])
  BY <1>1, <1>2, <1>3, <1>6 DEF Forget, ContactListed, Listed, TypeOK
<1> QED
  BY <1>4, <1>5, <1>6

LEMMA ListedNext == TypeOK /\ ContactListed /\ [Next]_vars => ContactListed'
<1> SUFFICES ASSUME TypeOK, ContactListed, [Next]_vars PROVE ContactListed'
  OBVIOUS
<1>1. ASSUME NEW n \in Nodes, Crash(n) PROVE ContactListed'
  <2>1. /\ table' = [np \in Pairs |-> IF np[1] = n THEN None ELSE table[np]]
        /\ removing' = [np \in Pairs |-> np[1] # n /\ removing[np]]
        /\ contact' = contact /\ \A m \in Nodes : m # n => inbox'[m] = inbox[m]
    BY <1>1 DEF Crash, TypeOK
  <2>2. SUFFICES ASSUME NEW m \in Nodes, NEW p \in Others(m), table'[<<m, p>>] # None
                 PROVE  Listed(m, p)'
    BY DEF ContactListed, Listed
  <2>3. <<m, p>> \in Pairs
    BY PairFacts DEF Others
  <2>4. m # n /\ table[<<m, p>>] # None
    BY <2>1, <2>2, <2>3
  <2>5. Listed(m, p)
    BY <2>4 DEF ContactListed, Listed
  <2>6. removing[<<m, p>>] => removing'[<<m, p>>]
    BY <2>1, <2>3, <2>4
  <2> QED
    BY <2>1, <2>4, <2>5, <2>6 DEF Listed
<1>2. ASSUME NEW n \in Nodes, RefreshWrite(n) PROVE ContactListed'
  <2>1. \A np \in Pairs : contact[np] => contact'[np]
    BY <1>2 DEF RefreshWrite
  <2>2. UNCHANGED <<table, removing, inbox>>
    BY <1>2 DEF RefreshWrite
  <2>3. \A m \in Nodes : \A p \in Others(m) : <<m, p>> \in Pairs
    BY PairFacts DEF Others
  <2> QED
    BY <2>1, <2>2, <2>3 DEF ContactListed
<1>3. ASSUME UNCHANGED <<table, contact, removing, inbox>> PROVE ContactListed'
  BY <1>3 DEF ContactListed
<1>4. ASSUME NEW n \in Nodes,
             \/ Announce(n) \/ Heartbeat(n) \/ RefreshStart(n) \/ Start(n)
             \/ \E s \in Statuses : SetStatus(n, s)
      PROVE  ContactListed'
  BY <1>3, <1>4 DEF Announce, Heartbeat, RefreshStart, Start, SetStatus, appVars
<1>5. ASSUME NEW d \in net, Refuse(d) \/ Lose(d) PROVE ContactListed'
  BY <1>3, <1>5 DEF Refuse, Lose, appVars
<1>6. CASE UNCHANGED vars
  BY <1>3, <1>6 DEF vars, appVars
<1> QED
  BY <1>1, <1>2, <1>4, <1>5, <1>6, ListedReceive, ListedSeen, ListedContacts DEF Next

\* Whoever is in the peer table is in the list of contacts, is being removed, or
\* is in an event the pump has yet to take (on_peer_seen, remove_peer,
\* refresh_contacts).
THEOREM ContactsListed == Spec => []ContactListed
<1> QED
  BY TypeInit, TypeNext, ListedInit, ListedNext, PTL DEF Spec

=============================================================================
