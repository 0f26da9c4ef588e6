------------------------- MODULE ConnectionsProofs -------------------------
(***************************************************************************)
(* Proofs about Connections for any number of calls and connections, any   *)
(* length of the queues and any faults: types, that the dialling lock is   *)
(* held exactly while one call dials, and that an envelope is lost with    *)
(* its connection only.                                                    *)
(***************************************************************************)
EXTENDS Connections, FiniteSetTheorems, SequenceTheorems, TLAPS

\* The calls of a node, and the calls of it that dial.
Own(n) == {k \in Calls : Caller[k] = n}
Dials(n) == {k \in Calls : Caller[k] = n /\ call[k] \in {"dial", "shake"}}

Types ==
    /\ running \in [Nodes -> BOOLEAN]
    /\ table \in [Nodes -> Conns \cup {None}]
    /\ dialing \in [Nodes -> BOOLEAN]
    /\ call \in [Calls -> CallStates]
    /\ via \in [Calls -> Conns \cup {None}]
    /\ reader \in [Conns -> [Nodes -> ReaderStates]]
    /\ writer \in [Conns -> [Nodes -> {"none", "on", "done", "off"}]]
    /\ pipe \in [Conns -> [Nodes -> Seq(Calls)]]
    /\ cut \subseteq Conns /\ silent \subseteq Conns
    /\ got \in [Nodes -> SUBSET Calls]
    /\ struck \in 0 .. MaxEvents

\* An end has a writer from its registration on, and only then a place in the
\* table and something in its queue.
Ends ==
    \A c \in Conns, n \in Nodes :
        /\ writer[c][n] = "none" <=> reader[c][n] \in {"none", "shake"}
        /\ table[n] = c => writer[c][n] # "none"
        /\ writer[c][n] = "none" => pipe[c][n] = <<>>
        /\ pipe[c][n] \in Seq(Own(n))
        /\ Len(pipe[c][n]) <= QueueCap

\* The lock is taken exactly while a call dials, and one call at a time does.
Locked ==
    \A n \in Nodes :
        /\ dialing[n] <=> Dials(n) # {}
        /\ \A j, k \in Dials(n) : j = k

\* The connection of a call that shakes hands is not registered at its node, and
\* that of one that has got a queue is.
Held ==
    \A k \in Calls :
        /\ call[k] = "shake" => via[k] \in Conns /\ reader[via[k]][Caller[k]] = "shake"
        /\ call[k] \in {"send", "sent"} =>
              via[k] \in Conns /\ writer[via[k]][Caller[k]] # "none"

IInv == Types /\ Ends /\ Locked /\ Held /\ LostOnlyWithConnection

-----------------------------------------------------------------------------
(* Lemmas about the operators. *)

LEMMA Others ==
  ASSUME NEW n \in Nodes
  PROVE  /\ Other(n) \in Nodes /\ Other(n) # n /\ Other(Other(n)) = n
         /\ \A m \in Nodes : m = n \/ m = Other(n)
<1>1. PICK a, b : a # b /\ Nodes = {a, b}
  BY ConnectionsAssumption
<1>2. \A m \in Nodes : Other(m) \in Nodes /\ Other(m) # m
  BY <1>1 DEF Other
<1> QED
  BY <1>1, <1>2

LEMMA Numbers == None \notin Conns /\ Conns \subseteq Nat /\ QueueCap \in Nat /\ QueueCap > 0
  BY ConnectionsAssumption DEF None, Conns

\* A value is put at one end of one connection.
LEMMA PutAt ==
  ASSUME NEW S, NEW f \in [Conns -> [Nodes -> S]], NEW c \in Conns, NEW n \in Nodes, NEW v \in S
  PROVE  LET g == [f EXCEPT ![c][n] = v] IN
         /\ g \in [Conns -> [Nodes -> S]]
         /\ g[c][n] = v
         /\ \A d \in Conns, m \in Nodes : d # c \/ m # n => g[d][m] = f[d][m]
  OBVIOUS

LEMMA RangeAppend ==
  ASSUME NEW S, NEW s \in Seq(S), NEW x \in S
  PROVE  Range(Append(s, x)) = Range(s) \cup {x}
<1> DEFINE t == Append(s, x)
<1>1. /\ t \in Seq(S) /\ Len(t) = Len(s) + 1 /\ t[Len(t)] = x /\ Len(s) \in Nat
      /\ \A i \in 1 .. Len(s) : t[i] = s[i]
  BY AppendProperties, LenProperties
<1>2. DOMAIN t = 1 .. Len(t) /\ DOMAIN s = 1 .. Len(s)
  BY <1>1, LenProperties
<1> HIDE DEF t
<1>3. ASSUME NEW y \in Range(t) PROVE y \in Range(s) \cup {x}
  <2>1. PICK i \in 1 .. Len(t) : y = t[i]
    BY <1>2 DEF Range
  <2> QED
    BY <1>1, <1>2, <2>1 DEF Range
<1>4. ASSUME NEW y \in Range(s) PROVE y \in Range(t)
  <2>1. PICK i \in 1 .. Len(s) : y = s[i]
    BY <1>2 DEF Range
  <2>2. i \in 1 .. Len(t) /\ t[i] = y
    BY <1>1, <2>1
  <2> QED
    BY <1>2, <2>2 DEF Range
<1>5. x \in Range(t)
  BY <1>1, <1>2 DEF Range
<1> QED
  BY <1>3, <1>4, <1>5 DEF t

LEMMA RangeTail ==
  ASSUME NEW S, NEW s \in Seq(S), s # <<>>
  PROVE  /\ Range(s) \subseteq {Head(s)} \cup Range(Tail(s))
         /\ Head(s) \in S /\ Tail(s) \in Seq(S) /\ Len(Tail(s)) < Len(s)
<1>1. /\ Tail(s) \in Seq(S) /\ Len(Tail(s)) = Len(s) - 1 /\ Head(s) = s[1] /\ Head(s) \in S
      /\ \A i \in 1 .. Len(s) - 1 : Tail(s)[i] = s[i + 1]
      /\ Len(s) \in Nat
  BY HeadTailProperties, LenProperties
<1>2. DOMAIN s = 1 .. Len(s) /\ DOMAIN Tail(s) = 1 .. Len(s) - 1
  BY <1>1, LenProperties
<1>3. ASSUME NEW y \in Range(s) PROVE y \in {Head(s)} \cup Range(Tail(s))
  <2>1. PICK i \in 1 .. Len(s) : y = s[i]
    BY <1>2 DEF Range
  <2>2. CASE i = 1
    BY <1>1, <2>1, <2>2
  <2>3. CASE i # 1
    <3>1. i - 1 \in 1 .. Len(s) - 1 /\ Tail(s)[i - 1] = y
      BY <1>1, <2>1, <2>3
    <3> QED
      BY <1>2, <3>1 DEF Range
  <2> QED
    BY <2>2, <2>3
<1> QED
  BY <1>1, <1>3

LEMMA PrefixType ==
  ASSUME NEW S, NEW s \in Seq(S), NEW t \in Prefixes(s)
  PROVE  t \in Seq(S) /\ Len(t) <= Len(s)
<1>1. PICK i \in 0 .. Len(s) : t = SubSeq(s, 1, i)
  BY DEF Prefixes
<1>2. i \in Nat /\ i <= Len(s) /\ Len(s) \in Nat
  BY <1>1, LenProperties
<1>3. \A j \in 1 .. i : j \in 1 .. Len(s) /\ s[j] \in S
  BY <1>2, ElementOfSeq
<1> QED
  BY <1>1, <1>2, <1>3, SubSeqProperties

LEMMA EmptyPipe == \A S : <<>> \in Seq(S) /\ Len(<<>>) = 0
  BY EmptySeq

-----------------------------------------------------------------------------
(* What the steps have in common. *)

\* What an end is never rid of, and where the envelopes of its queue go.
Moved ==
    /\ cut \subseteq cut'
    /\ \A n \in Nodes : got[n] \subseteq got'[n]
    /\ \A c \in Conns, n \in Nodes :
         /\ writer[c][n] # "none" => writer'[c][n] # "none"
         /\ writer[c][n] = "off" => writer'[c][n] = "off"
         /\ reader[c][n] = "off" => reader'[c][n] = "off"
         /\ \/ writer'[c][n] = "off" \/ c \in cut'
            \/ Range(pipe[c][n]) \subseteq Range(pipe'[c][n]) \cup got'[Other(n)]

LEMMA MovedNot ==
  ASSUME UNCHANGED <<taskVars, cut, got>>
  PROVE  Moved
  BY DEF Moved, taskVars

LEMMA LostKept ==
  ASSUME Types, Held, LostOnlyWithConnection, Moved,
         \A k \in Calls : call'[k] = "sent" => call[k] = "sent" /\ via'[k] = via[k]
  PROVE  LostOnlyWithConnection'
<1> SUFFICES ASSUME NEW k \in Calls, call'[k] = "sent"
             PROVE  LET n == Caller[k] p == Other(n) c == via[k] IN
                    \/ k \in got'[p] \cup Range(pipe'[c][n])
                    \/ writer'[c][n] = "off" \/ c \in cut' \/ reader'[c][p] = "off"
  BY DEF LostOnlyWithConnection
<1> DEFINE n == Caller[k]
           p == Other(n)
           c == via[k]
<1>1. /\ n \in Nodes /\ p \in Nodes /\ c \in Conns
  BY ConnectionsAssumption, Others DEF Held
<1>2. \/ k \in got[p] \cup Range(pipe[c][n])
      \/ writer[c][n] = "off" \/ c \in cut \/ reader[c][p] = "off"
  BY DEF LostOnlyWithConnection
<1> HIDE DEF n, p, c
<1> QED
  BY <1>1, <1>2 DEF Moved, n, p, c

\* Calls whose state is not changed hold what they held.
LEMMA HeldKept ==
  ASSUME NEW k \in Calls, Held, Moved, UNCHANGED <<call[k], via[k]>>,
         call[k] = "shake" => reader'[via[k]][Caller[k]] = "shake"
  PROVE  /\ call'[k] = "shake" => via'[k] \in Conns /\ reader'[via'[k]][Caller[k]] = "shake"
         /\ call'[k] \in {"send", "sent"} =>
               via'[k] \in Conns /\ writer'[via'[k]][Caller[k]] # "none"
  BY ConnectionsAssumption DEF Held, Moved

LEMMA LockedKept ==
  ASSUME Locked, UNCHANGED dialing,
         \A k \in Calls : call'[k] \in {"dial", "shake"} <=> call[k] \in {"dial", "shake"}
  PROVE  Locked'
<1>1. \A n \in Nodes : Dials(n)' = Dials(n)
  BY DEF Dials
<1> QED
  BY <1>1 DEF Locked

\* The call that dials is done.
LEMMA Unlocked ==
  ASSUME Types, Locked, NEW k \in Calls, call[k] \in {"dial", "shake"},
         dialing' = [dialing EXCEPT ![Caller[k]] = FALSE],
         NEW s \in CallStates \ {"dial", "shake"}, call' = [call EXCEPT ![k] = s]
  PROVE  Locked'
<1>1. Caller[k] \in Nodes
  BY ConnectionsAssumption
<1>2. \A j \in Calls : call'[j] = IF j = k THEN s ELSE call[j]
  BY DEF Types
<1>3. \A n \in Nodes : Dials(n)' = Dials(n) \ {k}
  BY <1>2 DEF Dials
<1>4. Dials(Caller[k]) = {k}
  BY <1>1 DEF Locked, Dials
<1>5. \A n \in Nodes : n # Caller[k] => Dials(n)' = Dials(n) /\ dialing'[n] = dialing[n]
  BY <1>3 DEF Types, Dials
<1>6. dialing'[Caller[k]] = FALSE
  BY <1>1 DEF Types
<1> QED
  BY <1>3, <1>4, <1>5, <1>6 DEF Locked

\* A connection under way to its registration is in nobody's table and its end
\* has nothing.
LEMMA RegisterStep ==
  ASSUME Types, Ends, NEW n \in Nodes, NEW c \in Conns, reader[c][n] = "shake",
         Register(n, c), UNCHANGED <<cut, got>>
  PROVE  /\ table' \in [Nodes -> Conns \cup {None}]
         /\ reader' \in [Conns -> [Nodes -> ReaderStates]]
         /\ writer' \in [Conns -> [Nodes -> {"none", "on", "done", "off"}]]
         /\ pipe' \in [Conns -> [Nodes -> Seq(Calls)]]
         /\ Ends' /\ Moved
         /\ writer'[c][n] = "on"
         /\ \A d \in Conns, m \in Nodes :
               reader[d][m] = "shake" /\ (d # c \/ m # n) => reader'[d][m] = "shake"
<1> DEFINE old == table[n]
<1>1. writer[c][n] = "none" /\ old # c /\ pipe[c][n] = <<>> /\ old \in Conns \cup {None}
  BY DEF Ends, Types
<1>2. /\ table' \in [Nodes -> Conns \cup {None}] /\ table'[n] = c
      /\ \A m \in Nodes : m # n => table'[m] = table[m]
  BY DEF Types, Register
<1>3. /\ reader' \in [Conns -> [Nodes -> ReaderStates]]
      /\ writer' \in [Conns -> [Nodes -> {"none", "on", "done", "off"}]]
      /\ pipe' \in [Conns -> [Nodes -> Seq(Calls)]]
      /\ reader'[c][n] = "on" /\ writer'[c][n] = "on" /\ pipe'[c][n] = pipe[c][n]
      /\ old # None => /\ reader'[old][n] = Aborted(reader[old][n]) /\ writer'[old][n] = "off"
                       /\ pipe'[old][n] \in Prefixes(pipe[old][n])
      /\ \A d \in Conns, m \in Nodes :
            d \notin {c, old} \/ m # n => /\ reader'[d][m] = reader[d][m] /\ writer'[d][m] = writer[d][m]
                                          /\ pipe'[d][m] = pipe[d][m]
  <2> DEFINE r1 == [reader EXCEPT ![c][n] = "on"]
             w1 == [writer EXCEPT ![c][n] = "on"]
  <2>1. /\ r1 \in [Conns -> [Nodes -> ReaderStates]] /\ r1[c][n] = "on"
        /\ w1 \in [Conns -> [Nodes -> {"none", "on", "done", "off"}]] /\ w1[c][n] = "on"
        /\ \A d \in Conns, m \in Nodes :
              d # c \/ m # n => r1[d][m] = reader[d][m] /\ w1[d][m] = writer[d][m]
    BY PutAt DEF Types, ReaderStates
  <2>2. CASE old = None
    <3>1. reader' = r1 /\ writer' = w1 /\ pipe' = pipe
      BY <2>2 DEF Register
    <3> HIDE DEF r1, w1
    <3> QED
      BY <2>1, <2>2, <3>1 DEF Types
  <2>3. CASE old # None
    <3>1. PICK s \in Prefixes(pipe[old][n]) : pipe' = [pipe EXCEPT ![old][n] = s]
      BY <2>3 DEF Register
    <3>2. old \in Conns /\ old # c /\ s \in Seq(Calls)
      BY <1>1, <2>3, <3>1, PrefixType DEF Types
    <3>3. /\ reader' = [r1 EXCEPT ![old][n] = Aborted(reader[old][n])]
          /\ writer' = [w1 EXCEPT ![old][n] = "off"]
      BY <2>1, <2>3, <3>2 DEF Register
    <3>4. Aborted(reader[old][n]) \in ReaderStates
      BY DEF Aborted, ReaderStates
    <3> HIDE DEF r1, w1, old
    <3>5. /\ reader' \in [Conns -> [Nodes -> ReaderStates]]
          /\ reader'[old][n] = Aborted(reader[old][n])
          /\ \A d \in Conns, m \in Nodes : d # old \/ m # n => reader'[d][m] = r1[d][m]
      BY <2>1, <3>2, <3>3, <3>4, PutAt
    <3>6. /\ writer' \in [Conns -> [Nodes -> {"none", "on", "done", "off"}]]
          /\ writer'[old][n] = "off"
          /\ \A d \in Conns, m \in Nodes : d # old \/ m # n => writer'[d][m] = w1[d][m]
      BY <2>1, <3>2, <3>3, PutAt
    <3>7. /\ pipe' \in [Conns -> [Nodes -> Seq(Calls)]] /\ pipe'[old][n] = s
          /\ \A d \in Conns, m \in Nodes : d # old \/ m # n => pipe'[d][m] = pipe[d][m]
      BY <3>1, <3>2, PutAt DEF Types
    <3>8. /\ reader'[c][n] = "on" /\ writer'[c][n] = "on" /\ pipe'[c][n] = pipe[c][n]
      BY <2>1, <3>2, <3>5, <3>6, <3>7
    <3>9. \A d \in Conns, m \in Nodes :
             d \notin {c, old} \/ m # n =>
                /\ reader'[d][m] = reader[d][m] /\ writer'[d][m] = writer[d][m]
                /\ pipe'[d][m] = pipe[d][m]
      BY <2>1, <3>5, <3>6, <3>7
    <3> QED
      BY <3>1, <3>5, <3>6, <3>7, <3>8, <3>9
  <2> QED
    BY <2>2, <2>3
<1> HIDE DEF old
<1>4. Ends'
  <2> SUFFICES ASSUME NEW d \in Conns, NEW m \in Nodes
               PROVE  /\ writer'[d][m] = "none" <=> reader'[d][m] \in {"none", "shake"}
                      /\ table'[m] = d => writer'[d][m] # "none"
                      /\ writer'[d][m] = "none" => pipe'[d][m] = <<>>
                      /\ pipe'[d][m] \in Seq(Own(m))
                      /\ Len(pipe'[d][m]) <= QueueCap
    BY <1>3 DEF Ends
  <2>1. CASE d = c /\ m = n
    BY <1>1, <1>2, <1>3, <2>1, EmptyPipe, Numbers
  <2>2. CASE d = old /\ m = n
    <3>1. reader[d][m] \notin {"none", "shake"}
      BY <2>2 DEF Ends, old
    <3>2. Aborted(reader[d][m]) \in {"own", "off"}
      BY DEF Aborted
    <3>3. pipe'[d][m] \in Seq(Own(m)) /\ Len(pipe'[d][m]) <= Len(pipe[d][m])
      BY <1>3, <2>2, Numbers, PrefixType DEF Ends
    <3>4. Len(pipe'[d][m]) \in Nat /\ Len(pipe[d][m]) \in Nat /\ Len(pipe[d][m]) <= QueueCap
      BY <3>3, LenProperties DEF Ends
    <3> QED
      BY <1>1, <1>2, <1>3, <2>2, <3>1, <3>2, <3>3, <3>4, Numbers
  <2>3. CASE d \notin {c, old} \/ m # n
    <3>1. /\ reader'[d][m] = reader[d][m] /\ writer'[d][m] = writer[d][m]
          /\ pipe'[d][m] = pipe[d][m]
      BY <1>3, <2>3
    <3>2. table'[m] = d => table[m] = d \/ (d = c /\ m = n)
      BY <1>2
    <3> QED
      BY <2>3, <3>1, <3>2 DEF Ends
  <2> QED
    BY <2>1, <2>2, <2>3
<1>5. Moved
  <2> SUFFICES ASSUME NEW d \in Conns, NEW m \in Nodes
               PROVE  /\ writer[d][m] # "none" => writer'[d][m] # "none"
                      /\ writer[d][m] = "off" => writer'[d][m] = "off"
                      /\ reader[d][m] = "off" => reader'[d][m] = "off"
                      /\ writer'[d][m] = "off" \/ Range(pipe[d][m]) \subseteq Range(pipe'[d][m])
    BY <1>3 DEF Moved
  <2>1. CASE d = c /\ m = n
    BY <1>1, <1>3, <2>1
  <2>2. CASE d = old /\ m = n
    BY <1>1, <1>3, <2>2, Numbers DEF Aborted
  <2>3. CASE d \notin {c, old} \/ m # n
    BY <1>3, <2>3
  <2> QED
    BY <2>1, <2>2, <2>3
<1>6. ASSUME NEW d \in Conns, NEW m \in Nodes, reader[d][m] = "shake", d # c \/ m # n
      PROVE  reader'[d][m] = "shake"
  <2>1. d # old \/ m # n
    BY <1>6 DEF Ends, old
  <2> QED
    BY <1>3, <1>6, <2>1
<1> QED
  BY <1>2, <1>3, <1>4, <1>5, <1>6

-----------------------------------------------------------------------------
LEMMA InitInv == Init => IInv
<1> SUFFICES ASSUME Init PROVE IInv
  OBVIOUS
<1> USE DEF Init
<1>1. Types
  BY ConnectionsAssumption, EmptyPipe DEF Types, None, CallStates, ReaderStates
<1>2. Ends
  BY EmptyPipe, Numbers DEF Ends
<1>3. Locked
  BY ConnectionsAssumption DEF Locked, Dials
<1>4. Held /\ LostOnlyWithConnection
  BY DEF Held, LostOnlyWithConnection
<1> QED
  BY <1>1, <1>2, <1>3, <1>4 DEF IInv

-----------------------------------------------------------------------------
(* The steps of a call. *)

LEMMA LookInv ==
  ASSUME IInv, NEW k \in Calls, Look(k)
  PROVE  IInv'
<1> USE DEF IInv
<1> DEFINE n == Caller[k]
<1>1. /\ n \in Nodes /\ call[k] \in {"wait", "idle"}
      /\ UNCHANGED <<running, table, dialing, reader, writer, pipe, cut, silent, got, struck>>
      /\ \/ table[n] # None /\ call' = [call EXCEPT ![k] = "send"]
            /\ via' = [via EXCEPT ![k] = table[n]]
         \/ call' = [call EXCEPT ![k] = "grab"] /\ via' = via
  BY ConnectionsAssumption DEF Look, taskVars, netVars
<1>2. Types'
  BY <1>1 DEF Types, CallStates
<1>3. Ends' /\ Moved
  BY <1>1, MovedNot DEF Ends, taskVars
<1>4. /\ call'[k] \in {"send", "grab"} /\ (call'[k] = "send" => via'[k] = table[n])
      /\ call'[k] = "send" => table[n] \in Conns
      /\ \A j \in Calls : j # k => call'[j] = call[j] /\ via'[j] = via[j]
  BY <1>1 DEF Types
<1>5. Locked'
  BY <1>1, <1>4, LockedKept
<1>6. Held'
  <2>1. ASSUME NEW j \in Calls, j # k
        PROVE  /\ call'[j] = "shake" => via'[j] \in Conns /\ reader'[via'[j]][Caller[j]] = "shake"
               /\ call'[j] \in {"send", "sent"} =>
                     via'[j] \in Conns /\ writer'[via'[j]][Caller[j]] # "none"
    BY <1>1, <1>3, <1>4, <2>1, HeldKept DEF Held
  <2>2. call'[k] = "send" => writer'[via'[k]][Caller[k]] # "none"
    BY <1>1, <1>4 DEF Ends
  <2> QED
    BY <1>4, <2>1, <2>2 DEF Held
<1>7. LostOnlyWithConnection'
  BY <1>3, <1>4, LostKept
<1> QED
  BY <1>2, <1>3, <1>5, <1>6, <1>7

\* A call goes on to a state in which it neither dials nor holds anything.
LEMMA CallMoves ==
  ASSUME IInv, NEW k \in Calls, call[k] = "grab",
         NEW s \in CallStates \ {"dial", "shake", "send", "sent"}, call' = [call EXCEPT ![k] = s],
         UNCHANGED <<running, table, dialing, via, taskVars, cut, silent, got, struck>>
  PROVE  IInv'
<1> USE DEF IInv
<1>1. Types'
  BY DEF Types, taskVars
<1>2. Ends' /\ Moved
  BY MovedNot DEF Ends, taskVars
<1>3. \A j \in Calls : call'[j] = IF j = k THEN s ELSE call[j]
  BY DEF Types
<1>4. Locked'
  BY <1>3, LockedKept
<1>5. Held'
  BY <1>3 DEF Held, taskVars
<1>6. LostOnlyWithConnection'
  BY <1>2, <1>3, LostKept
<1> QED
  BY <1>1, <1>2, <1>4, <1>5, <1>6

LEMMA GrabInv ==
  ASSUME IInv, NEW k \in Calls, Grab(k)
  PROVE  IInv'
<1> USE DEF IInv
<1> DEFINE n == Caller[k]
<1>1. CASE dialing[n]
  BY <1>1, CallMoves DEF Grab, CallStates, netVars
<1>2. CASE ~dialing[n]
  <2>1. /\ n \in Nodes /\ call[k] = "grab"
        /\ dialing' = [dialing EXCEPT ![n] = TRUE] /\ call' = [call EXCEPT ![k] = "dial"]
        /\ UNCHANGED <<running, table, via, taskVars, cut, silent, got, struck>>
    BY <1>2, ConnectionsAssumption DEF Grab, netVars
  <2>2. Types'
    BY <2>1 DEF Types, taskVars, CallStates
  <2>3. Ends' /\ Moved
    BY <2>1, MovedNot DEF Ends, taskVars
  <2>4. \A j \in Calls : call'[j] = IF j = k THEN "dial" ELSE call[j]
    BY <2>1 DEF Types
  <2>5. Locked'
    <3>1. \A m \in Nodes : Dials(m)' = IF m = n THEN Dials(m) \cup {k} ELSE Dials(m)
      BY <2>4 DEF Dials
    <3>2. Dials(n) = {}
      BY <1>2, <2>1 DEF Locked
    <3>3. \A m \in Nodes : dialing'[m] = IF m = n THEN TRUE ELSE dialing[m]
      BY <2>1 DEF Types
    <3>4. ASSUME NEW m \in Nodes
          PROVE  (dialing'[m] <=> Dials(m)' # {}) /\ \A i, j \in Dials(m)' : i = j
      <4>1. CASE m = n
        <5>1. dialing'[m] = TRUE /\ Dials(m)' = {k}
          BY <3>1, <3>2, <3>3, <4>1
        <5> QED
          BY <5>1
      <4>2. CASE m # n
        <5>1. dialing'[m] = dialing[m] /\ Dials(m)' = Dials(m)
          BY <3>1, <3>3, <4>2
        <5> QED
          BY <5>1 DEF Locked
      <4> QED
        BY <4>1, <4>2
    <3> QED
      BY <3>4, Zenon DEF Locked
  <2>6. Held'
    BY <2>1, <2>4 DEF Held, taskVars
  <2>7. LostOnlyWithConnection'
    BY <2>1, <2>3, <2>4, LostKept
  <2> QED
    BY <2>2, <2>3, <2>5, <2>6, <2>7
<1> QED
  BY <1>1, <1>2

LEMMA WaitExpiresInv ==
  ASSUME IInv, NEW k \in Calls, WaitExpires(k)
  PROVE  IInv'
  BY CallMoves DEF WaitExpires, CallStates, netVars

LEMMA DialInv ==
  ASSUME IInv, NEW k \in Calls, Dial(k)
  PROVE  IInv'
<1> USE DEF IInv
<1>1. PICK c \in Conns :
        /\ Fresh(c) /\ via' = [via EXCEPT ![k] = c]
        /\ reader' = [reader EXCEPT ![c] = [m \in Nodes |-> "shake"]]
        /\ call[k] = "dial" /\ call' = [call EXCEPT ![k] = "shake"]
        /\ UNCHANGED <<running, table, dialing, writer, pipe, cut, silent, got, struck>>
  BY DEF Dial, netVars
<1>2. Types'
  BY <1>1 DEF Types, CallStates, ReaderStates
<1>3. \A d \in Conns, m \in Nodes :
         reader'[d][m] = IF d = c THEN "shake" ELSE reader[d][m]
  BY <1>1 DEF Types
<1>4. Ends' /\ Moved
  BY <1>1, <1>3 DEF Ends, Moved, Fresh
<1>5. /\ call'[k] = "shake" /\ via'[k] = c
      /\ \A j \in Calls : j # k => call'[j] = call[j] /\ via'[j] = via[j]
  BY <1>1 DEF Types
<1>6. Locked'
  BY <1>1, <1>5, LockedKept
<1>7. Held'
  <2>1. ASSUME NEW j \in Calls, j # k
        PROVE  /\ call'[j] = "shake" => via'[j] \in Conns /\ reader'[via'[j]][Caller[j]] = "shake"
               /\ call'[j] \in {"send", "sent"} =>
                     via'[j] \in Conns /\ writer'[via'[j]][Caller[j]] # "none"
    <3>1. call[j] = "shake" => reader'[via[j]][Caller[j]] = "shake"
      BY <1>3, ConnectionsAssumption DEF Held
    <3> QED
      BY <1>4, <1>5, <2>1, <3>1, HeldKept
  <2>2. reader'[c][Caller[k]] = "shake"
    BY <1>3, ConnectionsAssumption
  <2> QED
    BY <1>5, <2>1, <2>2 DEF Held
<1>8. LostOnlyWithConnection'
  BY <1>4, <1>5, LostKept
<1> QED
  BY <1>2, <1>4, <1>6, <1>7, <1>8

\* An end whose connection was not registered is dropped.
LEMMA DropStep ==
  ASSUME Types, Ends, NEW n \in Nodes, NEW c \in Conns, reader[c][n] = "shake",
         reader' = [reader EXCEPT ![c][n] = "off"],
         writer' = [writer EXCEPT ![c][n] = "off"],
         UNCHANGED <<table, pipe, cut, got>>
  PROVE  /\ reader' \in [Conns -> [Nodes -> ReaderStates]]
         /\ writer' \in [Conns -> [Nodes -> {"none", "on", "done", "off"}]]
         /\ Ends' /\ Moved
         /\ \A d \in Conns, m \in Nodes :
               reader[d][m] = "shake" /\ (d # c \/ m # n) => reader'[d][m] = "shake"
<1>1. /\ reader' \in [Conns -> [Nodes -> ReaderStates]] /\ reader'[c][n] = "off"
      /\ \A d \in Conns, m \in Nodes : d # c \/ m # n => reader'[d][m] = reader[d][m]
  BY PutAt DEF Types, ReaderStates
<1>2. /\ writer' \in [Conns -> [Nodes -> {"none", "on", "done", "off"}]] /\ writer'[c][n] = "off"
      /\ \A d \in Conns, m \in Nodes : d # c \/ m # n => writer'[d][m] = writer[d][m]
  BY PutAt DEF Types
<1>3. Ends'
  <2> SUFFICES ASSUME NEW d \in Conns, NEW m \in Nodes
               PROVE  /\ writer'[d][m] = "none" <=> reader'[d][m] \in {"none", "shake"}
                      /\ table[m] = d => writer'[d][m] # "none"
                      /\ writer'[d][m] = "none" => pipe[d][m] = <<>>
    BY DEF Ends
  <2> QED
    BY <1>1, <1>2 DEF Ends
<1>4. Moved
  BY <1>1, <1>2 DEF Moved
<1> QED
  BY <1>1, <1>2, <1>3, <1>4

\* Of the calls of a node one shakes hands at most.
LEMMA OneShakes ==
  ASSUME Types, Locked, NEW k \in Calls, call[k] = "shake", NEW j \in Calls, call[j] = "shake", j # k
  PROVE  Caller[j] # Caller[k]
  BY ConnectionsAssumption DEF Locked, Dials

LEMMA DialFailsInv ==
  ASSUME IInv, NEW k \in Calls, DialFails(k)
  PROVE  IInv'
<1> USE DEF IInv
<1> DEFINE n == Caller[k]
           c == via[k]
<1>1. /\ n \in Nodes
      /\ \/ call[k] = "dial" /\ UNCHANGED taskVars
         \/ /\ call[k] = "shake" /\ reader' = [reader EXCEPT ![c][n] = "off"]
            /\ writer' = [writer EXCEPT ![c][n] = "off"] /\ UNCHANGED pipe
      /\ dialing' = [dialing EXCEPT ![n] = FALSE]
      /\ call' = [call EXCEPT ![k] = "failed"]
      /\ UNCHANGED <<running, table, via, cut, silent, got, struck>>
  BY ConnectionsAssumption DEF DialFails, netVars
<1>2. \A j \in Calls : call'[j] = IF j = k THEN "failed" ELSE call[j]
  BY <1>1 DEF Types
<1>3. /\ reader' \in [Conns -> [Nodes -> ReaderStates]]
      /\ writer' \in [Conns -> [Nodes -> {"none", "on", "done", "off"}]]
      /\ pipe' = pipe /\ Ends' /\ Moved
      /\ \A j \in Calls : j # k /\ call[j] = "shake" => reader'[via[j]][Caller[j]] = "shake"
  <2>1. CASE call[k] = "shake"
    <3>1. c \in Conns /\ reader[c][n] = "shake"
      BY <2>1 DEF Held
    <3>2. /\ reader' = [reader EXCEPT ![c][n] = "off"] /\ writer' = [writer EXCEPT ![c][n] = "off"]
          /\ UNCHANGED <<table, pipe, cut, silent, got>>
      BY <1>1, <2>1
    <3> HIDE DEF n, c
    <3>3. /\ reader' \in [Conns -> [Nodes -> ReaderStates]]
          /\ writer' \in [Conns -> [Nodes -> {"none", "on", "done", "off"}]]
          /\ Ends' /\ Moved
          /\ \A d \in Conns, m \in Nodes :
                reader[d][m] = "shake" /\ (d # c \/ m # n) => reader'[d][m] = "shake"
      BY <1>1, <3>1, <3>2, DropStep
    <3>4. ASSUME NEW j \in Calls, j # k, call[j] = "shake"
          PROVE  reader'[via[j]][Caller[j]] = "shake"
      <4>1. Caller[j] # n /\ Caller[j] \in Nodes /\ via[j] \in Conns
            /\ reader[via[j]][Caller[j]] = "shake"
        BY <2>1, <3>4, OneShakes, ConnectionsAssumption DEF Held, n
      <4> QED
        BY <3>3, <4>1
    <3> QED
      BY <3>2, <3>3, <3>4
  <2>2. CASE call[k] # "shake"
    <3>1. UNCHANGED taskVars
      BY <1>1, <2>2
    <3> QED
      BY <1>1, <3>1, MovedNot DEF Ends, Held, Types, taskVars
  <2> QED
    BY <2>1, <2>2
<1>4. Types'
  BY <1>1, <1>3 DEF Types, CallStates
<1>5. Locked'
  <2>1. call[k] \in {"dial", "shake"} /\ "failed" \in CallStates \ {"dial", "shake"}
    BY <1>1 DEF CallStates
  <2> QED
    BY <1>1, <2>1, Unlocked
<1>6. Held'
  <2>1. ASSUME NEW j \in Calls, j # k
        PROVE  /\ call'[j] = "shake" => via'[j] \in Conns /\ reader'[via'[j]][Caller[j]] = "shake"
               /\ call'[j] \in {"send", "sent"} =>
                     via'[j] \in Conns /\ writer'[via'[j]][Caller[j]] # "none"
    BY <1>1, <1>2, <1>3, <2>1, HeldKept
  <2> QED
    BY <1>2, <2>1 DEF Held
<1>7. LostOnlyWithConnection'
  BY <1>1, <1>2, <1>3, LostKept
<1> QED
  BY <1>3, <1>4, <1>5, <1>6, <1>7

LEMMA DialDoneInv ==
  ASSUME IInv, NEW k \in Calls, DialDone(k)
  PROVE  IInv'
<1> USE DEF IInv
<1> DEFINE n == Caller[k]
           c == via[k]
<1>1. /\ n \in Nodes /\ call[k] = "shake" /\ Register(n, c)
      /\ dialing' = [dialing EXCEPT ![n] = FALSE]
      /\ call' = [call EXCEPT ![k] = "send"]
      /\ UNCHANGED <<running, via, cut, silent, got, struck>>
  BY ConnectionsAssumption DEF DialDone, netVars
<1>2. \A j \in Calls : call'[j] = IF j = k THEN "send" ELSE call[j]
  BY <1>1 DEF Types
<1>3. c \in Conns /\ reader[c][n] = "shake"
  BY <1>1 DEF Held
<1> HIDE DEF n, c
<1>4. /\ table' \in [Nodes -> Conns \cup {None}]
      /\ reader' \in [Conns -> [Nodes -> ReaderStates]]
      /\ writer' \in [Conns -> [Nodes -> {"none", "on", "done", "off"}]]
      /\ pipe' \in [Conns -> [Nodes -> Seq(Calls)]]
      /\ Ends' /\ Moved /\ writer'[c][n] = "on"
      /\ \A d \in Conns, m \in Nodes :
            reader[d][m] = "shake" /\ (d # c \/ m # n) => reader'[d][m] = "shake"
  BY <1>1, <1>3, RegisterStep
<1>5. Types'
  <2>1. call' \in [Calls -> CallStates] /\ dialing' \in [Nodes -> BOOLEAN]
    BY <1>1 DEF Types, CallStates
  <2> QED
    BY <1>1, <1>4, <2>1 DEF Types
<1>6. Locked'
  <2>1. call[k] \in {"dial", "shake"} /\ "send" \in CallStates \ {"dial", "shake"}
    BY <1>1 DEF CallStates
  <2> QED
    BY <1>1, <2>1, Unlocked DEF n
<1>7. Held'
  <2>1. ASSUME NEW j \in Calls, j # k
        PROVE  /\ call'[j] = "shake" => via'[j] \in Conns /\ reader'[via'[j]][Caller[j]] = "shake"
               /\ call'[j] \in {"send", "sent"} =>
                     via'[j] \in Conns /\ writer'[via'[j]][Caller[j]] # "none"
    <3>1. ASSUME call[j] = "shake" PROVE reader'[via[j]][Caller[j]] = "shake"
      <4>1. Caller[j] # n /\ Caller[j] \in Nodes /\ via[j] \in Conns
            /\ reader[via[j]][Caller[j]] = "shake"
        BY <1>1, <2>1, <3>1, OneShakes, ConnectionsAssumption DEF Held, n
      <4> QED
        BY <1>4, <4>1
    <3> QED
      BY <1>1, <1>2, <1>4, <2>1, <3>1, HeldKept
  <2>2. via'[k] \in Conns /\ writer'[via'[k]][Caller[k]] # "none"
    BY <1>1, <1>3, <1>4 DEF n, c
  <2> QED
    BY <1>2, <2>1, <2>2 DEF Held
<1>8. LostOnlyWithConnection'
  BY <1>1, <1>2, <1>4, LostKept
<1> QED
  BY <1>4, <1>5, <1>6, <1>7, <1>8

LEMMA SendInv ==
  ASSUME IInv, NEW k \in Calls, Send(k)
  PROVE  IInv'
<1> USE DEF IInv
<1> DEFINE n == Caller[k]
           c == via[k]
<1>1. /\ n \in Nodes /\ k \in Own(n) /\ c \in Conns /\ call[k] = "send" /\ writer[c][n] # "none"
      /\ UNCHANGED <<running, table, dialing, via, reader, writer, cut, silent, got, struck>>
  BY ConnectionsAssumption DEF Send, Held, Own, netVars
<1>2. CASE writer[c][n] = "on"
  <2>1. /\ Len(pipe[c][n]) < QueueCap
        /\ pipe' = [pipe EXCEPT ![c][n] = Append(pipe[c][n], k)]
        /\ call' = [call EXCEPT ![k] = "sent"]
    BY <1>1, <1>2 DEF Send, Types
  <2>2. \A j \in Calls : call'[j] = IF j = k THEN "sent" ELSE call[j]
    BY <2>1 DEF Types
  <2>3. /\ Append(pipe[c][n], k) \in Seq(Calls) /\ Append(pipe[c][n], k) \in Seq(Own(n))
        /\ Len(Append(pipe[c][n], k)) <= QueueCap
        /\ Range(Append(pipe[c][n], k)) = Range(pipe[c][n]) \cup {k}
    <3>1. pipe[c][n] \in Seq(Calls) /\ pipe[c][n] \in Seq(Own(n)) /\ Len(pipe[c][n]) \in Nat
      BY <1>1, LenProperties DEF Types, Ends
    <3>2. /\ Append(pipe[c][n], k) \in Seq(Calls) /\ Append(pipe[c][n], k) \in Seq(Own(n))
          /\ Len(Append(pipe[c][n], k)) = Len(pipe[c][n]) + 1
      BY <1>1, <3>1, AppendProperties
    <3> QED
      BY <2>1, <3>1, <3>2, RangeAppend, Numbers
  <2> HIDE DEF n, c
  <2>4. /\ pipe' \in [Conns -> [Nodes -> Seq(Calls)]]
        /\ pipe'[c][n] = Append(pipe[c][n], k)
        /\ \A d \in Conns, m \in Nodes : d # c \/ m # n => pipe'[d][m] = pipe[d][m]
    BY <1>1, <2>1, <2>3, PutAt DEF Types
  <2>5. Types'
    <3>1. call' \in [Calls -> CallStates]
      BY <2>1 DEF Types, CallStates
    <3> QED
      BY <1>1, <2>4, <3>1 DEF Types
  <2>6. Ends' /\ Moved
    <3>1. ASSUME NEW d \in Conns, NEW m \in Nodes
          PROVE  /\ writer[d][m] = "none" => pipe'[d][m] = <<>>
                 /\ pipe'[d][m] \in Seq(Own(m)) /\ Len(pipe'[d][m]) <= QueueCap
                 /\ Range(pipe[d][m]) \subseteq Range(pipe'[d][m])
      <4>1. CASE d = c /\ m = n
        BY <1>1, <2>3, <2>4, <4>1 DEF n, c
      <4>2. CASE d # c \/ m # n
        BY <2>4, <4>2 DEF Ends
      <4> QED
        BY <4>1, <4>2
    <3>2. Ends'
      BY <1>1, <3>1 DEF Ends
    <3>3. Moved
      BY <1>1, <3>1 DEF Moved
    <3> QED
      BY <3>2, <3>3
  <2>7. Locked'
    BY <1>1, <2>2, LockedKept
  <2>8. Held'
    BY <1>1, <2>2 DEF Held, n, c
  <2>9. LostOnlyWithConnection'
    <3> SUFFICES ASSUME NEW j \in Calls, call'[j] = "sent"
                 PROVE  LET m == Caller[j] p == Other(m) d == via[j] IN
                        \/ j \in got[p] \cup Range(pipe'[d][m])
                        \/ writer[d][m] = "off" \/ d \in cut \/ reader[d][p] = "off"
      BY <1>1 DEF LostOnlyWithConnection
    <3>1. CASE j = k
      BY <2>3, <2>4, <3>1 DEF n, c
    <3>2. CASE j # k
      <4>1. via[j] \in Conns /\ Caller[j] \in Nodes /\ call[j] = "sent"
        BY <2>2, <3>2, ConnectionsAssumption DEF Held
      <4>2. Range(pipe[via[j]][Caller[j]]) \subseteq Range(pipe'[via[j]][Caller[j]])
        BY <2>3, <2>4, <4>1
      <4> QED
        BY <4>1, <4>2 DEF LostOnlyWithConnection
    <3> QED
      BY <3>1, <3>2
  <2> QED
    BY <2>5, <2>6, <2>7, <2>8, <2>9
<1>3. CASE writer[c][n] # "on"
  <2>1. call' = [call EXCEPT ![k] = "failed"] /\ UNCHANGED pipe
    BY <1>3 DEF Send
  <2>2. \A j \in Calls : call'[j] = IF j = k THEN "failed" ELSE call[j]
    BY <2>1 DEF Types
  <2>3. Types'
    BY <1>1, <2>1 DEF Types, CallStates
  <2>4. Ends' /\ Moved
    BY <1>1, <2>1, MovedNot DEF Ends, taskVars
  <2>5. Locked'
    BY <1>1, <2>2, LockedKept
  <2>6. Held'
    BY <1>1, <2>2 DEF Held
  <2>7. LostOnlyWithConnection'
    BY <1>1, <2>2, <2>4, LostKept
  <2> QED
    BY <2>3, <2>4, <2>5, <2>6, <2>7
<1> QED
  BY <1>2, <1>3

-----------------------------------------------------------------------------
(* The steps of the tasks and of the world. *)

\* A step that leaves the calls alone.
LEMMA TasksInv ==
  ASSUME IInv, UNCHANGED <<dialing, call, via>>, Types', Ends', Moved,
         \A c \in Conns, n \in Nodes :
            reader[c][n] = "shake" /\ Dialled(n, c) => reader'[c][n] = "shake"
  PROVE  IInv'
<1> USE DEF IInv
<1>1. Locked'
  BY LockedKept
<1>2. Held'
  <2>1. ASSUME NEW k \in Calls, call[k] = "shake"
        PROVE  reader'[via[k]][Caller[k]] = "shake"
    BY <2>1, ConnectionsAssumption DEF Held, Dialled
  <2> QED
    BY <2>1, HeldKept DEF Held
<1>3. LostOnlyWithConnection'
  BY LostKept
<1> QED
  BY <1>1, <1>2, <1>3

LEMMA AdmitInv ==
  ASSUME IInv, NEW n \in Nodes, NEW c \in Conns, Admit(n, c)
  PROVE  IInv'
<1>1. /\ reader[c][n] = "shake" /\ ~Dialled(n, c) /\ Types /\ Ends
      /\ UNCHANGED <<running, dialing, call, via, cut, silent, got, struck>>
  BY DEF Admit, callVars, netVars, IInv
<1>2. CASE Register(n, c)
  <2>1. /\ table' \in [Nodes -> Conns \cup {None}]
        /\ reader' \in [Conns -> [Nodes -> ReaderStates]]
        /\ writer' \in [Conns -> [Nodes -> {"none", "on", "done", "off"}]]
        /\ pipe' \in [Conns -> [Nodes -> Seq(Calls)]]
        /\ Ends' /\ Moved
        /\ \A d \in Conns, m \in Nodes :
              reader[d][m] = "shake" /\ (d # c \/ m # n) => reader'[d][m] = "shake"
    BY <1>1, <1>2, RegisterStep
  <2>2. Types'
    BY <1>1, <2>1 DEF Types
  <2> QED
    BY <1>1, <2>1, <2>2, TasksInv
<1>3. CASE ~Register(n, c)
  <2>1. /\ reader' = [reader EXCEPT ![c][n] = "off"] /\ writer' = [writer EXCEPT ![c][n] = "off"]
        /\ UNCHANGED <<table, pipe>>
    BY <1>3 DEF Admit
  <2>2. /\ reader' \in [Conns -> [Nodes -> ReaderStates]]
        /\ writer' \in [Conns -> [Nodes -> {"none", "on", "done", "off"}]]
        /\ Ends' /\ Moved
        /\ \A d \in Conns, m \in Nodes :
              reader[d][m] = "shake" /\ (d # c \/ m # n) => reader'[d][m] = "shake"
    BY <1>1, <2>1, DropStep
  <2>3. Types'
    BY <1>1, <2>1, <2>2 DEF Types
  <2> QED
    BY <1>1, <2>2, <2>3, TasksInv
<1> QED
  BY <1>2, <1>3

LEMMA ReadInv ==
  ASSUME IInv, NEW n \in Nodes, NEW c \in Conns, Read(n, c)
  PROVE  IInv'
<1> DEFINE p == Other(n)
           s == pipe[c][p]
<1>1. /\ Types /\ Ends /\ s # <<>> /\ p \in Nodes /\ Other(p) = n
      /\ got' = [got EXCEPT ![n] = got[n] \cup {Head(s)}]
      /\ pipe' = [pipe EXCEPT ![c][p] = Tail(s)]
      /\ UNCHANGED <<running, table, dialing, call, via, reader, writer, cut, silent, struck>>
  BY Others DEF Read, callVars, netVars, IInv, Types
<1>2. /\ Range(s) \subseteq {Head(s)} \cup Range(Tail(s)) /\ Head(s) \in Calls
      /\ Tail(s) \in Seq(Calls) /\ Tail(s) \in Seq(Own(p)) /\ Len(Tail(s)) <= QueueCap
  <2>1. s \in Seq(Calls) /\ s \in Seq(Own(p)) /\ Len(s) <= QueueCap /\ Len(s) \in Nat
    BY <1>1, LenProperties DEF Types, Ends
  <2>2. Tail(s) \in Seq(Own(p)) /\ Len(Tail(s)) < Len(s) /\ Len(Tail(s)) \in Nat
    BY <1>1, <2>1, RangeTail, LenProperties
  <2> QED
    BY <1>1, <2>1, <2>2, RangeTail, Numbers
<1> HIDE DEF p, s
<1>3. /\ pipe' \in [Conns -> [Nodes -> Seq(Calls)]] /\ pipe'[c][p] = Tail(s)
      /\ \A d \in Conns, m \in Nodes : d # c \/ m # p => pipe'[d][m] = pipe[d][m]
  BY <1>1, <1>2, PutAt DEF Types
<1>4. /\ got' \in [Nodes -> SUBSET Calls] /\ got'[n] = got[n] \cup {Head(s)}
      /\ \A m \in Nodes : got[m] \subseteq got'[m]
  BY <1>1, <1>2 DEF Types
<1>5. Types'
  BY <1>1, <1>3, <1>4 DEF Types
<1>6. ASSUME NEW d \in Conns, NEW m \in Nodes
      PROVE  /\ writer[d][m] = "none" => pipe'[d][m] = <<>>
             /\ pipe'[d][m] \in Seq(Own(m)) /\ Len(pipe'[d][m]) <= QueueCap
             /\ Range(pipe[d][m]) \subseteq Range(pipe'[d][m]) \cup got'[Other(m)]
  <2>1. CASE d = c /\ m = p
    <3>1. writer[d][m] # "none"
      BY <1>1, <2>1 DEF Ends, s
    <3> QED
      BY <1>1, <1>2, <1>3, <1>4, <2>1, <3>1 DEF s
  <2>2. CASE d # c \/ m # p
    BY <1>3, <2>2, <1>1 DEF Ends
  <2> QED
    BY <2>1, <2>2
<1>7. Ends'
  BY <1>1, <1>6 DEF Ends
<1>8. Moved
  BY <1>1, <1>4, <1>6 DEF Moved
<1> QED
  BY <1>1, <1>5, <1>7, <1>8, TasksInv

\* One reader that has had its connection changes, and perhaps the table.
LEMMA ReaderMoves ==
  ASSUME IInv, NEW n \in Nodes, NEW c \in Conns, reader[c][n] \in {"on", "own"},
         NEW r \in {"own", "off"}, reader' = [reader EXCEPT ![c][n] = r],
         table' \in {table, [table EXCEPT ![n] = None]},
         UNCHANGED <<running, dialing, call, via, writer, pipe, cut, silent, got, struck>>
  PROVE  IInv'
<1>1. Types /\ Ends
  BY DEF IInv
<1>2. r \in ReaderStates
  BY DEF ReaderStates
<1>3. /\ reader' \in [Conns -> [Nodes -> ReaderStates]] /\ reader'[c][n] = r
      /\ \A d \in Conns, m \in Nodes : d # c \/ m # n => reader'[d][m] = reader[d][m]
  BY <1>1, <1>2, PutAt DEF Types
<1>4. /\ table' \in [Nodes -> Conns \cup {None}]
      /\ \A m \in Nodes, d \in Conns : table'[m] = d => table[m] = d
  BY <1>1, Numbers DEF Types
<1>5. Types'
  BY <1>1, <1>3, <1>4 DEF Types
<1>6. Ends'
  <2> SUFFICES ASSUME NEW d \in Conns, NEW m \in Nodes
               PROVE  writer[d][m] = "none" <=> reader'[d][m] \in {"none", "shake"}
    BY <1>1, <1>4 DEF Ends
  <2>1. CASE d = c /\ m = n
    BY <1>1, <1>3, <2>1 DEF Ends
  <2>2. CASE d # c \/ m # n
    BY <1>1, <1>3, <2>2 DEF Ends
  <2> QED
    BY <2>1, <2>2
<1>7. Moved
  BY <1>1, <1>3 DEF Moved
<1>8. \A d \in Conns, m \in Nodes : reader[d][m] = "shake" => reader'[d][m] = "shake"
  BY <1>3
<1> QED
  BY <1>5, <1>6, <1>7, <1>8, TasksInv

LEMMA ReadEndsInv ==
  ASSUME IInv, NEW n \in Nodes, NEW c \in Conns, ReadEnds(n, c)
  PROVE  IInv'
<1> DEFINE r == IF table[n] \in {c, None} THEN "own" ELSE "off"
<1>1. r \in {"own", "off"} /\ reader' = [reader EXCEPT ![c][n] = r]
  BY DEF ReadEnds
<1> HIDE DEF r
<1> QED
  BY <1>1, ReaderMoves DEF ReadEnds, callVars, netVars

LEMMA CleanUpInv ==
  ASSUME IInv, NEW n \in Nodes, NEW c \in Conns, CleanUp(n, c)
  PROVE  IInv'
  BY ReaderMoves DEF CleanUp, callVars, netVars

\* The writer of an end ends, with a part of what it had.
LEMMA WriterMoves ==
  ASSUME IInv, NEW n \in Nodes, NEW c \in Conns, writer[c][n] = "on",
         NEW w \in {"done", "off"}, writer' = [writer EXCEPT ![c][n] = w],
         NEW s \in Prefixes(pipe[c][n]), w = "off" \/ s = pipe[c][n],
         pipe' = [pipe EXCEPT ![c][n] = s],
         UNCHANGED <<running, table, dialing, call, via, reader, cut, silent, got, struck>>
  PROVE  IInv'
<1>1. Types /\ Ends
  BY DEF IInv
<1>2. /\ writer' \in [Conns -> [Nodes -> {"none", "on", "done", "off"}]] /\ writer'[c][n] = w
      /\ \A d \in Conns, m \in Nodes : d # c \/ m # n => writer'[d][m] = writer[d][m]
  BY <1>1, PutAt DEF Types
<1>3. s \in Seq(Calls) /\ s \in Seq(Own(n)) /\ Len(s) <= QueueCap
  <2>1. pipe[c][n] \in Seq(Calls) /\ pipe[c][n] \in Seq(Own(n)) /\ Len(pipe[c][n]) <= QueueCap
    BY <1>1 DEF Types, Ends
  <2>2. s \in Seq(Calls) /\ s \in Seq(Own(n)) /\ Len(s) <= Len(pipe[c][n])
    BY <2>1, PrefixType
  <2> QED
    BY <2>1, <2>2, LenProperties, Numbers
<1>4. /\ pipe' \in [Conns -> [Nodes -> Seq(Calls)]] /\ pipe'[c][n] = s
      /\ \A d \in Conns, m \in Nodes : d # c \/ m # n => pipe'[d][m] = pipe[d][m]
  BY <1>1, <1>3, PutAt DEF Types
<1>5. Types'
  BY <1>1, <1>2, <1>4 DEF Types
<1>6. ASSUME NEW d \in Conns, NEW m \in Nodes
      PROVE  /\ writer'[d][m] = "none" <=> writer[d][m] = "none"
             /\ writer[d][m] = "off" => writer'[d][m] = "off"
             /\ writer[d][m] = "none" => pipe'[d][m] = <<>>
             /\ pipe'[d][m] \in Seq(Own(m)) /\ Len(pipe'[d][m]) <= QueueCap
             /\ writer'[d][m] = "off" \/ Range(pipe[d][m]) \subseteq Range(pipe'[d][m])
  <2>1. CASE d = c /\ m = n
    BY <1>2, <1>3, <1>4, <2>1
  <2>2. CASE d # c \/ m # n
    BY <1>1, <1>2, <1>4, <2>2 DEF Ends
  <2> QED
    BY <2>1, <2>2
<1>7. Ends'
  BY <1>1, <1>6 DEF Ends
<1>8. Moved
  BY <1>6 DEF Moved
<1> QED
  BY <1>5, <1>7, <1>8, TasksInv

LEMMA WriterDrainsInv ==
  ASSUME IInv, NEW n \in Nodes, NEW c \in Conns, WriterDrains(n, c)
  PROVE  IInv'
<1>1. pipe[c][n] \in Seq(Calls) /\ Types
  BY DEF IInv, Types
<1>2. pipe[c][n] \in Prefixes(pipe[c][n])
  <2>1. SubSeq(pipe[c][n], 1, Len(pipe[c][n])) = pipe[c][n] /\ Len(pipe[c][n]) \in Nat
    BY <1>1, SubSeqFull, LenProperties
  <2> QED
    BY <2>1 DEF Prefixes
<1>3. pipe' = [pipe EXCEPT ![c][n] = pipe[c][n]]
  BY <1>1 DEF WriterDrains, Types
<1> QED
  BY <1>2, <1>3, WriterMoves DEF WriterDrains, callVars, netVars

LEMMA WriteFailsInv ==
  ASSUME IInv, NEW n \in Nodes, NEW c \in Conns, WriteFails(n, c)
  PROVE  IInv'
<1>1. PICK s \in Prefixes(pipe[c][n]) : pipe' = [pipe EXCEPT ![c][n] = s]
  BY DEF WriteFails
<1> QED
  BY <1>1, WriterMoves DEF WriteFails, callVars, netVars

LEMMA StrikeType ==
  ASSUME Types, NEW f, Strike(f)
  PROVE  struck' \in 0 .. MaxEvents
<1> DEFINE K == {k \in Calls : call[k] # "idle"}
<1>1. Cardinality(K) \in Nat
  BY ConnectionsAssumption, FS_Subset, FS_CardinalityType
<1> HIDE DEF K
<1>2. struck + Cardinality(K) < MaxEvents
  BY DEF Strike, More, K
<1> QED
  BY <1>1, <1>2, ConnectionsAssumption DEF Types, Strike

LEMMA CutInv ==
  ASSUME IInv, NEW c \in Conns, Cut(c)
  PROVE  IInv'
<1>1. /\ Types /\ Ends /\ struck' \in 0 .. MaxEvents
      /\ (\A n \in Nodes : writer[c][n] = "on") /\ cut' = cut \cup {c}
      /\ pipe' = [pipe EXCEPT ![c] = [n \in Nodes |-> <<>>]]
      /\ UNCHANGED <<running, table, dialing, call, via, reader, writer, silent, got>>
  BY StrikeType DEF IInv, Cut, callVars
<1>2. pipe' \in [Conns -> [Nodes -> Seq(Calls)]]
  BY <1>1, EmptyPipe DEF Types
<1>3. \A d \in Conns, m \in Nodes : pipe'[d][m] = IF d = c THEN <<>> ELSE pipe[d][m]
  BY <1>1 DEF Types
<1>4. Types'
  BY <1>1, <1>2 DEF Types
<1>5. Ends'
  BY <1>1, <1>3, EmptyPipe, Numbers DEF Ends
<1>6. Moved
  BY <1>1, <1>3 DEF Moved
<1> QED
  BY <1>1, <1>4, <1>5, <1>6, TasksInv

LEMMA SilenceInv ==
  ASSUME IInv, NEW c \in Conns, Silence(c)
  PROVE  IInv'
<1>1. /\ Types /\ Ends /\ struck' \in 0 .. MaxEvents /\ silent' = silent \cup {c}
      /\ UNCHANGED <<running, table, dialing, call, via, reader, writer, pipe, cut, got>>
  BY StrikeType DEF IInv, Silence, callVars, taskVars
<1>2. Types' /\ Ends' /\ Moved
  BY <1>1 DEF Types, Ends, Moved
<1> QED
  BY <1>1, <1>2, TasksInv

LEMMA DisconnectInv ==
  ASSUME IInv, NEW n \in Nodes, Disconnect(n)
  PROVE  IInv'
<1> DEFINE c == table[n]
<1>1. /\ Types /\ Ends /\ struck' \in 0 .. MaxEvents
      /\ table' = [table EXCEPT ![n] = None]
      /\ reader' = [reader EXCEPT ![c][n] = Aborted(reader[c][n])]
      /\ writer' = [writer EXCEPT ![c][n] = "off"]
      /\ UNCHANGED <<running, dialing, call, via, cut, silent, got>>
      /\ c \in Conns
  BY StrikeType DEF IInv, Disconnect, callVars, netVars, Types
<1>2. PICK s \in Prefixes(pipe[c][n]) : pipe' = [pipe EXCEPT ![c][n] = s]
  BY DEF Disconnect
<1>3. writer[c][n] # "none" /\ reader[c][n] \notin {"none", "shake"}
  BY <1>1 DEF Ends
<1>4. /\ Aborted(reader[c][n]) \in {"own", "off"} /\ Aborted(reader[c][n]) \in ReaderStates
      /\ reader[c][n] = "off" => Aborted(reader[c][n]) = "off"
  BY DEF Aborted, ReaderStates
<1>5. s \in Seq(Calls) /\ s \in Seq(Own(n)) /\ Len(s) <= QueueCap
  <2>1. pipe[c][n] \in Seq(Calls) /\ pipe[c][n] \in Seq(Own(n)) /\ Len(pipe[c][n]) <= QueueCap
    BY <1>1 DEF Types, Ends
  <2>2. s \in Seq(Calls) /\ s \in Seq(Own(n)) /\ Len(s) <= Len(pipe[c][n])
    BY <2>1, PrefixType
  <2> QED
    BY <2>1, <2>2, LenProperties, Numbers
<1> HIDE DEF c
<1>6. /\ reader' \in [Conns -> [Nodes -> ReaderStates]] /\ reader'[c][n] = Aborted(reader[c][n])
      /\ \A d \in Conns, m \in Nodes : d # c \/ m # n => reader'[d][m] = reader[d][m]
  BY <1>1, <1>4, PutAt DEF Types
<1>7. /\ writer' \in [Conns -> [Nodes -> {"none", "on", "done", "off"}]] /\ writer'[c][n] = "off"
      /\ \A d \in Conns, m \in Nodes : d # c \/ m # n => writer'[d][m] = writer[d][m]
  BY <1>1, PutAt DEF Types
<1>8. /\ pipe' \in [Conns -> [Nodes -> Seq(Calls)]] /\ pipe'[c][n] = s
      /\ \A d \in Conns, m \in Nodes : d # c \/ m # n => pipe'[d][m] = pipe[d][m]
  BY <1>1, <1>2, <1>5, PutAt DEF Types
<1>9. /\ table' \in [Nodes -> Conns \cup {None}]
      /\ \A m \in Nodes, d \in Conns : table'[m] = d => table[m] = d
  BY <1>1, Numbers DEF Types
<1>10. Types'
  BY <1>1, <1>6, <1>7, <1>8, <1>9 DEF Types
<1>11. ASSUME NEW d \in Conns, NEW m \in Nodes
       PROVE  /\ writer'[d][m] = "none" <=> writer[d][m] = "none"
              /\ writer'[d][m] = "none" <=> reader'[d][m] \in {"none", "shake"}
              /\ writer[d][m] = "off" => writer'[d][m] = "off"
              /\ reader[d][m] = "off" => reader'[d][m] = "off"
              /\ reader[d][m] = "shake" => reader'[d][m] = "shake"
              /\ writer[d][m] = "none" => pipe'[d][m] = <<>>
              /\ pipe'[d][m] \in Seq(Own(m)) /\ Len(pipe'[d][m]) <= QueueCap
              /\ writer'[d][m] = "off" \/ Range(pipe[d][m]) \subseteq Range(pipe'[d][m])
  <2>1. CASE d = c /\ m = n
    BY <1>3, <1>4, <1>5, <1>6, <1>7, <1>8, <2>1
  <2>2. CASE d # c \/ m # n
    BY <1>1, <1>6, <1>7, <1>8, <2>2 DEF Ends
  <2> QED
    BY <2>1, <2>2
<1>12. Ends'
  BY <1>1, <1>9, <1>11 DEF Ends
<1>13. Moved
  BY <1>1, <1>11 DEF Moved
<1> QED
  BY <1>1, <1>10, <1>11, <1>12, <1>13, TasksInv

LEMMA StopInv ==
  ASSUME IInv, NEW n \in Nodes, Stop(n)
  PROVE  IInv'
<1> USE DEF IInv
<1>1. /\ struck' \in 0 .. MaxEvents
      /\ running' = [running EXCEPT ![n] = FALSE]
      /\ table' = [table EXCEPT ![n] = None]
      /\ dialing' = [dialing EXCEPT ![n] = FALSE]
      /\ call' = [k \in Calls |-> IF Caller[k] = n /\ Active(k) THEN "failed" ELSE call[k]]
      /\ reader' = [c \in Conns |-> IF Fresh(c) THEN reader[c] ELSE [reader[c] EXCEPT ![n] = "off"]]
      /\ writer' = [c \in Conns |-> IF Fresh(c) THEN writer[c] ELSE [writer[c] EXCEPT ![n] = "off"]]
      /\ pipe' = [c \in Conns |-> [pipe[c] EXCEPT ![n] = <<>>]]
      /\ UNCHANGED <<via, cut, silent, got>>
  BY StrikeType DEF Stop, netVars
<1>2. /\ running' \in [Nodes -> BOOLEAN] /\ dialing' \in [Nodes -> BOOLEAN]
      /\ \A m \in Nodes : dialing'[m] = IF m = n THEN FALSE ELSE dialing[m]
  BY <1>1 DEF Types
<1>3. /\ table' \in [Nodes -> Conns \cup {None}]
      /\ \A m \in Nodes, d \in Conns : table'[m] = d => table[m] = d
      /\ table'[n] = None
  BY <1>1, Numbers DEF Types
<1>4. /\ reader' \in [Conns -> [Nodes -> ReaderStates]]
      /\ \A d \in Conns, m \in Nodes :
            reader'[d][m] = IF m = n /\ ~Fresh(d) THEN "off" ELSE reader[d][m]
  BY <1>1 DEF Types, ReaderStates
<1>5. /\ writer' \in [Conns -> [Nodes -> {"none", "on", "done", "off"}]]
      /\ \A d \in Conns, m \in Nodes :
            writer'[d][m] = IF m = n /\ ~Fresh(d) THEN "off" ELSE writer[d][m]
  BY <1>1 DEF Types
<1>6. /\ pipe' \in [Conns -> [Nodes -> Seq(Calls)]]
      /\ \A d \in Conns, m \in Nodes : pipe'[d][m] = IF m = n THEN <<>> ELSE pipe[d][m]
  BY <1>1, EmptyPipe DEF Types
<1>7. /\ call' \in [Calls -> CallStates]
      /\ \A k \in Calls :
            \/ call'[k] = call[k] /\ ~(Caller[k] = n /\ Active(k))
            \/ call'[k] = "failed" /\ Caller[k] = n /\ Active(k)
  BY <1>1 DEF Types, CallStates
<1>8. Types'
  BY <1>1, <1>2, <1>3, <1>4, <1>5, <1>6, <1>7 DEF Types
<1>9. ASSUME NEW d \in Conns, NEW m \in Nodes
      PROVE  /\ writer[d][m] # "none" => writer'[d][m] # "none"
             /\ writer'[d][m] = "none" <=> reader'[d][m] \in {"none", "shake"}
             /\ writer[d][m] = "off" => writer'[d][m] = "off"
             /\ reader[d][m] = "off" => reader'[d][m] = "off"
             /\ m # n => reader'[d][m] = reader[d][m]
             /\ writer'[d][m] = "none" => pipe'[d][m] = <<>>
             /\ pipe'[d][m] \in Seq(Own(m)) /\ Len(pipe'[d][m]) <= QueueCap
             /\ writer'[d][m] = "off" \/ Range(pipe[d][m]) \subseteq Range(pipe'[d][m])
             /\ m # n \/ writer[d][m] = "none" \/ writer'[d][m] = "off"
  <2>1. CASE m = n /\ ~Fresh(d)
    BY <1>4, <1>5, <1>6, <2>1, EmptyPipe, Numbers
  <2>2. CASE m = n /\ Fresh(d)
    <3>1. reader[d][m] = "none" /\ writer[d][m] = "none" /\ pipe[d][m] = <<>>
      BY <2>2 DEF Fresh, Ends
    <3> QED
      BY <1>4, <1>5, <1>6, <2>2, <3>1, EmptyPipe, Numbers
  <2>3. CASE m # n
    BY <1>4, <1>5, <1>6, <2>3 DEF Ends
  <2> QED
    BY <2>1, <2>2, <2>3
<1>10. Ends'
  <2>1. ASSUME NEW d \in Conns, NEW m \in Nodes, table'[m] = d PROVE writer'[d][m] # "none"
    BY <1>3, <1>9, <2>1 DEF Ends
  <2> QED
    BY <1>9, <2>1 DEF Ends
<1>11. Moved
  BY <1>1, <1>9 DEF Moved
<1>12. Locked'
  <2>1. \A m \in Nodes : Dials(m)' = IF m = n THEN {} ELSE Dials(m)
    BY <1>7 DEF Dials, Active
  <2>2. ASSUME NEW m \in Nodes
        PROVE  (dialing'[m] <=> Dials(m)' # {}) /\ \A i, j \in Dials(m)' : i = j
    <3>1. CASE m = n
      BY <1>2, <2>1, <3>1
    <3>2. CASE m # n
      <4>1. dialing'[m] = dialing[m] /\ Dials(m)' = Dials(m)
        BY <1>2, <2>1, <3>2
      <4>2. (dialing[m] <=> Dials(m) # {}) /\ \A i, j \in Dials(m) : i = j
        BY DEF Locked
      <4> QED
        BY <4>1, <4>2, Zenon
    <3> QED
      BY <3>1, <3>2
  <2> QED
    BY <2>2, Zenon DEF Locked
<1>13. Held'
  <2> SUFFICES ASSUME NEW k \in Calls
               PROVE  /\ call'[k] = "shake" =>
                            via'[k] \in Conns /\ reader'[via'[k]][Caller[k]] = "shake"
                      /\ call'[k] \in {"send", "sent"} =>
                            via'[k] \in Conns /\ writer'[via'[k]][Caller[k]] # "none"
    BY DEF Held
  <2>1. CASE call'[k] = "failed"
    BY <2>1
  <2>2. CASE call'[k] # "failed"
    <3>1. call'[k] = call[k] /\ via'[k] = via[k] /\ (call[k] = "shake" => Caller[k] # n)
      BY <1>1, <1>7, <2>2 DEF Active
    <3>2. call[k] = "shake" => reader'[via[k]][Caller[k]] = "shake"
      BY <1>9, <3>1, ConnectionsAssumption DEF Held
    <3> QED
      BY <1>11, <3>1, <3>2, HeldKept
  <2> QED
    BY <2>1, <2>2
<1>14. LostOnlyWithConnection'
  BY <1>1, <1>7, <1>11, LostKept
<1> QED
  BY <1>8, <1>10, <1>12, <1>13, <1>14

LEMMA StartInv ==
  ASSUME IInv, NEW n \in Nodes, Start(n)
  PROVE  IInv'
<1> USE DEF Start, callVars, taskVars, netVars
<1>1. Types' /\ Ends' /\ Moved
  BY MovedNot DEF IInv, Types, Ends
<1> QED
  BY <1>1, TasksInv

LEMMA NextInv == IInv /\ [Next]_vars => IInv'
<1> SUFFICES ASSUME IInv, [Next]_vars PROVE IInv'
  OBVIOUS
<1>1. ASSUME NEW k \in Calls, Call(k) \/ WaitExpires(k) PROVE IInv'
  BY <1>1, LookInv, GrabInv, DialInv, DialFailsInv, DialDoneInv, SendInv, WaitExpiresInv DEF Call
<1>2. ASSUME NEW n \in Nodes, NEW c \in Conns, Reader(n, c) PROVE IInv'
  BY <1>2, AdmitInv, ReadInv, ReadEndsInv, CleanUpInv DEF Reader
<1>3. ASSUME NEW n \in Nodes, NEW c \in Conns, Writer(n, c) PROVE IInv'
  BY <1>3, WriterDrainsInv, WriteFailsInv DEF Writer
<1>4. ASSUME NEW c \in Conns, Cut(c) \/ Silence(c) PROVE IInv'
  BY <1>4, CutInv, SilenceInv
<1>5. ASSUME NEW n \in Nodes, Disconnect(n) \/ Stop(n) \/ Start(n) PROVE IInv'
  BY <1>5, DisconnectInv, StopInv, StartInv
<1>6. CASE UNCHANGED vars
  <2> USE <1>6 DEF vars, callVars, taskVars, netVars
  <2>1. Types' /\ Ends' /\ Moved
    BY MovedNot DEF IInv, Types, Ends
  <2> QED
    BY <2>1, TasksInv
<1> QED
  BY <1>1, <1>2, <1>3, <1>4, <1>5, <1>6 DEF Next

-----------------------------------------------------------------------------
(* The theorems. *)

\* The invariant holds in every state.
THEOREM Invariance == Spec => []IInv
  BY InitInv, NextInv, PTL DEF Spec

\* Every variable has its type; the table names connections that were
\* registered, and no queue holds more than its limit.
THEOREM TypeCorrect == Spec => []TypeOK
<1>1. ASSUME IInv PROVE TypeOK
  <2>1. \A c \in Conns, n \in Nodes :
           /\ pipe[c][n] \in Seq({k \in Calls : Caller[k] = n})
           /\ Len(pipe[c][n]) <= QueueCap
           /\ table[n] = c => writer[c][n] # "none"
           /\ writer[c][n] = "none" => pipe[c][n] = <<>>
    BY <1>1 DEF IInv, Ends, Own
  <2> QED
    BY <1>1, <2>1, Zenon DEF IInv, Types, TypeOK
<1> QED
  BY <1>1, Invariance, PTL

\* At most one call of a node dials, and the lock is taken exactly while one
\* does, however dials fail, are refused or are interrupted (ensure_connection).
THEOREM OneDialAtATime == Spec => []OneDial
<1>1. ASSUME IInv PROVE OneDial
  <2> SUFFICES ASSUME NEW n \in Nodes
               PROVE  Cardinality(Dials(n)) <= 1 /\ (dialing[n] <=> Dials(n) # {})
    BY DEF OneDial, Dials
  <2>1. (dialing[n] <=> Dials(n) # {}) /\ \A j, k \in Dials(n) : j = k
    BY <1>1 DEF IInv, Locked
  <2> HIDE DEF Dials
  <2>2. CASE Dials(n) = {}
    BY <2>1, <2>2, FS_EmptySet
  <2>3. CASE Dials(n) # {}
    <3>1. PICK k : Dials(n) = {k}
      BY <2>1, <2>3
    <3>2. Cardinality(Dials(n)) = 1
      BY <3>1, FS_Singleton
    <3> QED
      BY <2>1, <3>2
  <2> QED
    BY <2>2, <2>3
<1> QED
  BY <1>1, Invariance, PTL

\* An envelope that was handed over arrives, is still under way, or went down
\* with its connection: its writer was aborted or failed, the network reset the
\* connection, or the peer stopped reading (register_connection, reader_task,
\* writer_task).
THEOREM OnlyDeadConnectionsLose == Spec => []LostOnlyWithConnection
<1>1. IInv => LostOnlyWithConnection
  BY DEF IInv
<1> QED
  BY <1>1, Invariance, PTL

=============================================================================
