---------------------------- MODULE AvatarsProofs ----------------------------
(***************************************************************************)
(* Proofs about Avatars for any images, limits, users and faults.          *)
(***************************************************************************)
EXTENDS Avatars, TLAPS

LEMMA Given ==
  /\ AVATAR_RETRY_MAX \in Nat /\ MaxFaults \in Nat /\ MaxChanges \in Nat
  /\ Big \subseteq Images /\ None \notin Images /\ Unknown \notin Images \cup {None}
  /\ \A n \in Nodes : Peer(n) \in Nodes
  BY AvatarsAssumption DEF Nodes, Peer

LEMMA MessageParts ==
  /\ \A k \in Images \cup {None}, i \in (Images \ Big) \cup {None} : Request(k, i) \in Message
  /\ \A i \in Images : Reply(i) \in Message
  /\ \A m \in Message : m.image \in Images \cup {None}
  BY DEF Message, Request, Reply

\* What a user chose is sent only if it is not too large.
LEMMA PayloadFits ==
  ASSUME TypeOK, NEW n \in Nodes
  PROVE  Payload(n) \in (Images \ Big) \cup {None}
  BY DEF TypeOK, Payload

LEMMA FaultParts == \A kind : Fault(kind) /\ faults \in 0 .. MaxFaults => faults' \in 0 .. MaxFaults
  BY Given DEF Fault

\* A message is added to, or taken from, what is under way.
LEMMA WireParts ==
  ASSUME TypeOK, NEW n \in Nodes
  PROVE  /\ \A m \in Message : [wire EXCEPT ![n] = Append(@, m)] \in [Nodes -> Seq(Message)]
         /\ wire[n] # <<>> => /\ [wire EXCEPT ![n] = Tail(@)] \in [Nodes -> Seq(Message)]
                              /\ Head(wire[n]) \in Message
  BY DEF TypeOK

LEMMA AskParts ==
  ASSUME TypeOK, NEW n \in Nodes, Ask(n)
  PROVE  wire' \in [Nodes -> Seq(Message)] /\ faults' \in 0 .. MaxFaults
<1>1. cache[n] \in Images \cup {None} /\ Peer(n) \in Nodes /\ faults \in 0 .. MaxFaults
  BY Given DEF TypeOK
<1>2. Request(cache[n], Payload(n)) \in Message
  BY <1>1, PayloadFits, MessageParts
<1>3. CASE /\ wire' = [wire EXCEPT ![Peer(n)] = Append(@, Request(cache[n], Payload(n)))]
           /\ UNCHANGED faults
  BY <1>1, <1>2, <1>3, WireParts
<1>4. CASE Fault("refuse") /\ UNCHANGED wire
  BY <1>1, <1>4, FaultParts DEF TypeOK
<1> QED
  BY <1>3, <1>4 DEF Ask

LEMMA CachedParts ==
  ASSUME TypeOK, NEW n \in Nodes, NEW i \in Images \cup {None}
  PROVE  Cached(n, i) \in [Nodes -> Images \cup {None}]
  BY DEF TypeOK, Cached

\* The image that is asked for was announced, and is asked for once more.
LEMMA RetryParts ==
  ASSUME TypeOK, NEW n \in Nodes, Retry(n)
  PROVE  pull' \in [Nodes -> Pull \cup {NoPull}]
<1>1. seen[n] \in Images /\ Target(n).tries < AVATAR_RETRY_MAX
      /\ pull' = [pull EXCEPT ![n] = [Target(n) EXCEPT !.tries = Target(n).tries + 1]]
  BY DEF Retry
<1>2. Target(n) \in Pull
  <2>1. CASE pull[n].sha = seen[n]
    <3>1. pull[n] \in Pull \cup {NoPull} /\ pull[n] # NoPull
      BY <1>1, <2>1, Given DEF TypeOK, NoPull
    <3> QED
      BY <2>1, <3>1 DEF Target
  <2>2. CASE pull[n].sha # seen[n]
    <3>1. Target(n) = [sha |-> seen[n], tries |-> 0] /\ 0 \in 0 .. AVATAR_RETRY_MAX
      BY <2>2, Given DEF Target
    <3> QED
      BY <1>1, <3>1 DEF Pull
  <2> QED
    BY <2>1, <2>2
<1>3. PICK p \in Pull : p = Target(n)
  BY <1>2
<1>4. p.tries + 1 \in 0 .. AVATAR_RETRY_MAX
  BY <1>1, <1>3, Given DEF Pull
<1>5. [p EXCEPT !.tries = p.tries + 1] \in Pull
  BY <1>4 DEF Pull
<1> QED
  BY <1>1, <1>3, <1>5 DEF TypeOK

LEMMA TypeInit == Init => TypeOK
<1> SUFFICES ASSUME Init PROVE TypeOK
  OBVIOUS
<1> QED
  BY Given DEF Init, TypeOK

LEMMA TypeNext ==
  ASSUME TypeOK, [Next]_vars
  PROVE  TypeOK'
<1>1. ASSUME NEW n \in Nodes, NEW i \in Images \cup {None}, Change(n, i) PROVE TypeOK'
  BY <1>1, Given DEF Change, TypeOK
<1>2. ASSUME NEW n \in Nodes, SetHash(n) PROVE TypeOK'
  BY <1>2 DEF SetHash, TypeOK
<1>3. ASSUME NEW n \in Nodes, Push(n) PROVE TypeOK'
  <2>1. /\ changing' = [changing EXCEPT ![n] = "idle"]
        /\ UNCHANGED <<file, announced, changes, seen, cache, pull, answers>>
        /\ UNCHANGED <<wire, faults>> \/ Ask(n)
    BY <1>3 DEF Push
  <2>2. wire' \in [Nodes -> Seq(Message)] /\ faults' \in 0 .. MaxFaults
    BY <2>1, AskParts DEF TypeOK
  <2> QED
    BY <2>1, <2>2 DEF TypeOK
<1>4. ASSUME NEW n \in Nodes, Announce(n) PROVE TypeOK'
  <2>1. Peer(n) \in Nodes
    BY Given
  <2> QED
    BY <1>4, <2>1 DEF Announce, localVars, TypeOK
<1>5. CASE Break
  BY <1>5, FaultParts DEF Break, localVars, TypeOK
<1>6. ASSUME NEW n \in Nodes, Restart(n) PROVE TypeOK'
  BY <1>6, FaultParts DEF Restart, TypeOK
<1>7. ASSUME NEW n \in Nodes, PeerRemoved(n) \/ PullDone(n) PROVE TypeOK'
  BY <1>7 DEF PeerRemoved, PullDone, localVars, TypeOK
<1>8. ASSUME NEW n \in Nodes, Retry(n) PROVE TypeOK'
  <2>1. pull' \in [Nodes -> Pull \cup {NoPull}]
    BY <1>8, RetryParts
  <2>2. Ask(n) /\ UNCHANGED <<file, announced, changing, changes, seen, cache, answers>>
    BY <1>8 DEF Retry, localVars
  <2> QED
    BY <2>1, <2>2, AskParts DEF TypeOK
<1>9. ASSUME NEW n \in Nodes, HandleRequest(n) PROVE TypeOK'
  <2>1. /\ wire[n] # <<>> /\ wire' = [wire EXCEPT ![n] = Tail(@)]
        /\ cache' = Cached(n, Head(wire[n]).image)
        /\ \/ answers' = answers
           \/ file[n] # None /\ answers' = [answers EXCEPT ![n][file[n]] = @ + 1]
        /\ UNCHANGED <<file, announced, changing, changes, seen, pull, faults>>
    BY <1>9 DEF HandleRequest, localVars
  <2>2. /\ wire' \in [Nodes -> Seq(Message)] /\ cache' \in [Nodes -> Images \cup {None}]
    BY <2>1, WireParts, MessageParts, CachedParts
  <2>3. answers' \in [Nodes -> [Images -> Nat]]
    <3>1. CASE answers' = answers
      BY <3>1 DEF TypeOK
    <3>2. CASE file[n] # None /\ answers' = [answers EXCEPT ![n][file[n]] = @ + 1]
      <4>1. PICK i \in Images : i = file[n]
        BY <3>2 DEF TypeOK
      <4> QED
        BY <3>2, <4>1 DEF TypeOK
    <3> QED
      BY <2>1, <3>1, <3>2
  <2> QED
    BY <2>1, <2>2, <2>3 DEF TypeOK
<1>10. ASSUME NEW n \in Nodes, HandleReply(n) PROVE TypeOK'
  <2>1. /\ wire[n] # <<>> /\ wire' = [wire EXCEPT ![n] = Tail(@)]
        /\ cache' = Cached(n, Head(wire[n]).image)
        /\ UNCHANGED <<file, announced, changing, changes, seen, pull, answers, faults>>
    BY <1>10 DEF HandleReply, localVars
  <2>2. wire' \in [Nodes -> Seq(Message)] /\ cache' \in [Nodes -> Images \cup {None}]
    BY <2>1, WireParts, MessageParts, CachedParts
  <2> QED
    BY <2>1, <2>2 DEF TypeOK
<1>11. ASSUME NEW n \in Nodes, NEW i \in Images, Answer(n, i) PROVE TypeOK'
  <2>1. /\ answers[n][i] > 0 /\ answers' = [answers EXCEPT ![n][i] = @ - 1]
        /\ UNCHANGED <<file, announced, changing, changes, seen, cache, pull>>
        /\ \/ wire' = [wire EXCEPT ![Peer(n)] = Append(@, Reply(i))] /\ UNCHANGED faults
           \/ Fault("refuse") /\ UNCHANGED wire
    BY <1>11 DEF Answer, localVars
  <2>2. answers' \in [Nodes -> [Images -> Nat]]
    BY <2>1 DEF TypeOK
  <2>3. wire' \in [Nodes -> Seq(Message)] /\ faults' \in 0 .. MaxFaults
    <3>1. Peer(n) \in Nodes /\ Reply(i) \in Message /\ faults \in 0 .. MaxFaults
      BY Given, MessageParts DEF TypeOK
    <3>2. CASE wire' = [wire EXCEPT ![Peer(n)] = Append(@, Reply(i))] /\ UNCHANGED faults
      BY <3>1, <3>2, WireParts
    <3>3. CASE Fault("refuse") /\ UNCHANGED wire
      BY <3>1, <3>3, FaultParts DEF TypeOK
    <3> QED
      BY <2>1, <3>2, <3>3
  <2> QED
    BY <2>1, <2>2, <2>3 DEF TypeOK
<1>12. CASE UNCHANGED vars
  BY <1>12 DEF vars, localVars, TypeOK
<1> QED
  BY <1>1, <1>2, <1>3, <1>4, <1>5, <1>6, <1>7, <1>8, <1>9, <1>10, <1>11, <1>12 DEF Next, Proceed

\* Types; an image too large is never offered with a request, one that is asked
\* for was announced, and it is asked for at most AVATAR_RETRY_MAX times.
THEOREM TypeCorrect == Spec => []TypeOK
<1>1. Init => TypeOK
  BY TypeInit
<1>2. TypeOK /\ [Next]_vars => TypeOK'
  BY TypeNext
<1> QED
  BY <1>1, <1>2, PTL DEF Spec
=============================================================================
