---------------------------- MODULE GroupsProofs ----------------------------
(***************************************************************************)
(* Proofs about Groups for any nodes, any finite set of texts, any bound   *)
(* and any faults: types, that no copy of a group text or recall is        *)
(* forgotten, and that previews agree with the history.                    *)
(***************************************************************************)
EXTENDS Groups, FiniteSetTheorems, TLAPS

-----------------------------------------------------------------------------
(* The store. *)

\* What the store keeps for one node: rows, recalled texts and conversations.
StoreOK ==
    /\ row \in [Nodes -> [Texts -> Keys \cup {None}]]
    /\ recalled \in [Nodes -> SUBSET Texts]
    /\ conv \in [Nodes -> [Keys -> Conversation \cup {None}]]
    /\ \A n \in Nodes, m \in Texts : m \in recalled[n] => row[n][m] # None

LEMMA TextIsStamp == \A m \in Texts : m \in Nat /\ m # 0
  BY GroupsAssumption

LEMMA UpsertType ==
  ASSUME NEW old \in Conversation \cup {None}, NEW ts \in Nat, NEW preview \in Texts \cup {0}
  PROVE  Upsert(old, ts, preview) \in Conversation \cup {None}
  BY DEF Upsert, Conversation

LEMMA WithdrawType ==
  ASSUME NEW old \in Conversation \cup {None}, NEW m \in Texts
  PROVE  Withdraw(old, m) \in Conversation \cup {None}
  BY DEF Withdraw, Conversation

LEMMA InsertType ==
  ASSUME StoreOK, NEW n \in Nodes, NEW m \in Texts, NEW k \in Keys,
         InsertText(n, m, k), UNCHANGED recalled
  PROVE  StoreOK'
<1>1. CASE row[n][m] # None
  BY <1>1 DEF InsertText, StoreOK
<1>2. CASE row[n][m] = None
  <2>1. /\ row' = [row EXCEPT ![n][m] = k]
        /\ conv' = [conv EXCEPT ![n][k] = Upsert(conv[n][k], m, m)]
    BY <1>2 DEF InsertText
  <2>2. Upsert(conv[n][k], m, m) \in Conversation \cup {None}
    BY UpsertType, TextIsStamp DEF StoreOK
  <2>3. conv' \in [Nodes -> [Keys -> Conversation \cup {None}]]
    BY <2>1, <2>2 DEF StoreOK
  <2>4. row' \in [Nodes -> [Texts -> Keys \cup {None}]]
    BY <2>1 DEF StoreOK
  <2>5. \A p \in Nodes, l \in Texts : row[p][l] # None => row'[p][l] # None
    BY <1>2, <2>1 DEF StoreOK
  <2> QED
    BY <2>3, <2>4, <2>5 DEF StoreOK
<1> QED
  BY <1>1, <1>2

LEMMA RecallType ==
  ASSUME StoreOK, NEW n \in Nodes, NEW m \in Texts, row[n][m] # None, MarkRecalled(n, m)
  PROVE  StoreOK'
<1>1. /\ recalled' = [recalled EXCEPT ![n] = @ \cup {m}] /\ row' = row
      /\ conv' = [conv EXCEPT ![n][row[n][m]] = Withdraw(conv[n][row[n][m]], m)]
  BY DEF MarkRecalled
<1>2. row[n][m] \in Keys
  BY DEF StoreOK
<1>3. Withdraw(conv[n][row[n][m]], m) \in Conversation \cup {None}
  BY <1>2, WithdrawType DEF StoreOK
<1>4. conv' \in [Nodes -> [Keys -> Conversation \cup {None}]]
  BY <1>1, <1>2, <1>3 DEF StoreOK
<1> QED
  BY <1>1, <1>4 DEF StoreOK

-----------------------------------------------------------------------------
(* Types. *)

\* Copies, calls and lists of members.
CopiesOK ==
    /\ members \in [Nodes -> (SUBSET Nodes) \cup {None}]
    /\ owed \subseteq Copy
    /\ pending \cup wire \cup heard \subseteq owed
    /\ filed \subseteq owed /\ gone \subseteq owed
    /\ call \in [Calls -> {"new", "spread", "done"}]
    /\ todo \in [Calls -> SUBSET Nodes]
    /\ spent \in 0 .. MaxSpent

LEMMA TypeParts == (TypeOK <=> StoreOK /\ CopiesOK) /\ (TypeOK <=> StoreOK /\ CopiesOK)'
  BY DEF TypeOK, StoreOK, CopiesOK

LEMMA CallFacts ==
  ASSUME NEW m \in Texts
  PROVE  <<"text", m>> \in Calls /\ <<"recall", m>> \in Calls /\ Sender[m] \in Nodes
  BY GroupsAssumption DEF Calls

LEMMA CopyFacts ==
  ASSUME TypeOK, NEW c \in owed
  PROVE  c.text \in Texts /\ c.to \in Nodes /\ c.to \in Keys /\ From(c) \in Nodes
  BY GroupsAssumption DEF TypeOK, Copy, From, Keys

LEMMA TypeInit == Init => TypeOK
<1> SUFFICES ASSUME Init PROVE TypeOK
  OBVIOUS
<1>1. StoreOK
  BY DEF Init, StoreOK
<1>2. CopiesOK
  BY GroupsAssumption DEF Init, CopiesOK
<1> QED
  BY <1>1, <1>2, TypeParts

LEMMA UserType ==
  ASSUME TypeOK, NEW n \in Nodes,
         \/ CreateGroup(n) \/ DeleteGroup(n)
         \/ \E m \in Texts : DeleteMessage(n, m)
         \/ \E k \in Keys : DeleteConversation(n, k)
  PROVE  TypeOK'
<1>1. StoreOK /\ CopiesOK
  BY TypeParts
<1>2. CopiesOK'
  BY <1>1, GroupsAssumption
  DEF CreateGroup, DeleteGroup, DeleteMessage, DeleteConversation, CopiesOK, Spend, callVars
<1>3. StoreOK'
  <2>1. CASE CreateGroup(n) \/ DeleteGroup(n)
    BY <1>1, <2>1 DEF CreateGroup, DeleteGroup, StoreOK, storeVars
  <2>2. ASSUME NEW m \in Texts, DeleteMessage(n, m) PROVE StoreOK'
    BY <1>1, <2>2 DEF DeleteMessage, StoreOK
  <2>3. ASSUME NEW k \in Keys, DeleteConversation(n, k) PROVE StoreOK'
    BY <1>1, <2>3 DEF DeleteConversation, StoreOK
  <2> QED
    BY <2>1, <2>2, <2>3
<1> QED
  BY <1>2, <1>3, TypeParts

LEMMA TextType ==
  ASSUME TypeOK, NEW m \in Texts, StartText(m) \/ FinishText(m) \/ StartRecall(m)
  PROVE  TypeOK'
<1>1. StoreOK /\ CopiesOK
  BY TypeParts
<1>2. CASE StartText(m)
  <2>1. StoreOK'
    BY <1>1, <1>2 DEF StartText, StoreOK, storeVars
  <2>2. members[Sender[m]] \in SUBSET Nodes
    BY <1>1, <1>2, CallFacts DEF StartText, CopiesOK
  <2>3. CopiesOK'
    BY <1>1, <1>2, <2>2, CallFacts DEF StartText, CopiesOK
  <2> QED
    BY <2>1, <2>3, TypeParts
<1>3. CASE FinishText(m)
  <2>1. StoreOK'
    BY <1>1, <1>3, CallFacts, InsertType DEF FinishText, Keys
  <2>2. CopiesOK'
    BY <1>1, <1>3, CallFacts DEF FinishText, CopiesOK
  <2> QED
    BY <2>1, <2>2, TypeParts
<1>4. CASE StartRecall(m)
  <2> DEFINE n == Sender[m]
             k == row[n][m]
  <2>1. StoreOK'
    BY <1>1, <1>4, CallFacts, RecallType DEF StartRecall
  <2>2. n \in Nodes /\ k \in Keys
    <3>1. n \in Nodes /\ k # None
      BY <1>4, CallFacts DEF StartRecall
    <3>2. row[n] \in [Texts -> Keys \cup {None}]
      BY <1>1, <3>1 DEF StoreOK
    <3> QED
      BY <3>1, <3>2
  <2>3. Audience(n, k) \in SUBSET Nodes
    BY <1>1, <2>2 DEF Audience, Keys, CopiesOK
  <2>4. /\ call' = [call EXCEPT ![<<"recall", m>>] = "done"]
        /\ todo' = [todo EXCEPT ![<<"recall", m>>] = Audience(n, k)]
        /\ UNCHANGED <<members, pending, filed, wire, owed, heard, gone>>
        /\ spent < MaxSpent /\ spent' = spent + 1
    BY <1>4 DEF StartRecall, Spend
  <2>5. /\ call' \in [Calls -> {"new", "spread", "done"}] /\ todo' \in [Calls -> SUBSET Nodes]
        /\ spent' \in 0 .. MaxSpent
    <3>1. call' \in [Calls -> {"new", "spread", "done"}]
      BY <1>1, <2>4, CallFacts DEF CopiesOK
    <3>2. todo' \in [Calls -> SUBSET Nodes]
      BY <1>1, <2>3, <2>4, CallFacts DEF CopiesOK
    <3>3. spent' \in 0 .. MaxSpent
      BY <1>1, <2>4, GroupsAssumption DEF CopiesOK
    <3> QED
      BY <3>1, <3>2, <3>3
  <2>6. CopiesOK'
    BY <1>1, <2>4, <2>5 DEF CopiesOK
  <2> QED
    BY <2>1, <2>6, TypeParts
<1> QED
  BY <1>2, <1>3, <1>4

LEMMA SendType ==
  ASSUME TypeOK, NEW m \in Texts, NEW p \in Nodes, NEW kind \in {"text", "recall"},
         SendCopy(kind, m, p)
  PROVE  TypeOK'
<1>1. StoreOK /\ CopiesOK
  BY TypeParts
<1>2. StoreOK'
  BY <1>1 DEF SendCopy, StoreOK, storeVars
<1>3. CopyTo(p, kind, m) \in Copy /\ <<kind, m>> \in Calls
  BY DEF CopyTo, Copy, Calls
<1>4. CopiesOK'
  BY <1>1, <1>3 DEF SendCopy, Enqueue, CopiesOK
<1> QED
  BY <1>2, <1>4, TypeParts

LEMMA QueueType ==
  ASSUME TypeOK, NEW c \in pending, FlushText(c) \/ FlushRecall(c) \/ Expire(c)
  PROVE  TypeOK'
<1>1. StoreOK /\ CopiesOK /\ c \in owed
  BY TypeParts DEF CopiesOK
<1>2. c.text \in Texts /\ c.to \in Nodes /\ c.to \in Keys /\ From(c) \in Nodes
  BY <1>1, CopyFacts
<1>3. CopiesOK'
  BY <1>1, GroupsAssumption DEF FlushText, FlushRecall, Expire, CopiesOK, Spend, callVars
<1>4. CASE FlushText(c)
  BY <1>1, <1>2, <1>3, <1>4, InsertType, TypeParts DEF FlushText
<1>5. CASE FlushRecall(c)
  <2>1. RecallStamp(c.text) \in Nat
    <3>1. Cardinality(Texts) \in Nat
      BY GroupsAssumption, FS_CardinalityType
    <3> QED
      BY <1>2, <3>1, TextIsStamp DEF RecallStamp
  <2>2. Upsert(conv[From(c)][c.to], RecallStamp(c.text), 0) \in Conversation \cup {None}
    BY <1>1, <1>2, <2>1, UpsertType DEF StoreOK
  <2>3. conv' \in [Nodes -> [Keys -> Conversation \cup {None}]]
    <3>1. PICK v \in Conversation \cup {None} :
            conv' = conv \/ conv' = [conv EXCEPT ![From(c)][c.to] = v]
      BY <1>5, <2>2 DEF FlushRecall
    <3>2. ASSUME NEW n \in Nodes, NEW k \in Keys
          PROVE  [conv EXCEPT ![n][k] = v] \in [Nodes -> [Keys -> Conversation \cup {None}]]
      BY <1>1 DEF StoreOK
    <3>3. conv \in [Nodes -> [Keys -> Conversation \cup {None}]]
      BY <1>1 DEF StoreOK
    <3> QED
      BY <1>2, <3>1, <3>2, <3>3
  <2>4. StoreOK'
    BY <1>1, <1>5, <2>3 DEF FlushRecall, StoreOK
  <2> QED
    BY <1>3, <2>4, TypeParts
<1>6. CASE Expire(c)
  <2>1. StoreOK'
    BY <1>1, <1>6 DEF Expire, StoreOK, storeVars
  <2> QED
    BY <1>3, <2>1, TypeParts
<1> QED
  BY <1>4, <1>5, <1>6

LEMMA PumpType ==
  ASSUME TypeOK, NEW c \in wire, HandleText(c) \/ HandleRecall(c) \/ Break(c)
  PROVE  TypeOK'
<1>1. StoreOK /\ CopiesOK /\ c \in owed
  BY TypeParts DEF CopiesOK
<1>2. c.text \in Texts /\ c.to \in Nodes /\ From(c) \in Nodes
  BY <1>1, CopyFacts
<1>3. CASE HandleText(c)
  <2>1. StoreOK'
    BY <1>1, <1>2, <1>3, InsertType DEF HandleText, Keys
  <2>2. Join(c.to, From(c)) \in SUBSET Nodes
    BY <1>1, <1>2 DEF Join, CopiesOK
  <2>3. CopiesOK'
    BY <1>1, <1>2, <1>3, <2>2 DEF HandleText, CopiesOK, callVars
  <2> QED
    BY <2>1, <2>3, TypeParts
<1>4. CASE HandleRecall(c)
  <2>1. StoreOK'
    <3>1. CASE row[c.to][c.text] # None
      BY <1>1, <1>2, <1>4, <3>1, RecallType DEF HandleRecall
    <3>2. CASE row[c.to][c.text] = None
      BY <1>1, <1>4, <3>2 DEF HandleRecall, storeVars, StoreOK
    <3> QED
      BY <3>1, <3>2
  <2>2. CopiesOK'
    BY <1>1, <1>4 DEF HandleRecall, CopiesOK, callVars
  <2> QED
    BY <2>1, <2>2, TypeParts
<1>5. CASE Break(c)
  <2>1. StoreOK'
    BY <1>1, <1>5 DEF Break, StoreOK, storeVars
  <2>2. CopiesOK'
    BY <1>1, <1>5, GroupsAssumption DEF Break, CopiesOK, callVars, Spend
  <2> QED
    BY <2>1, <2>2, TypeParts
<1> QED
  BY <1>3, <1>4, <1>5

LEMMA TypeNext == TypeOK /\ [Next]_vars => TypeOK'
<1> SUFFICES ASSUME TypeOK, [Next]_vars PROVE TypeOK'
  OBVIOUS
<1>1. CASE UNCHANGED vars
  BY <1>1 DEF vars, storeVars, callVars, TypeOK
<1> QED
  BY <1>1, UserType, TextType, SendType, QueueType, PumpType DEF Next

\* Every variable of the group chats keeps its type: what is queued, under way,
\* heard or lost was sent by a call, and a recall mark belongs to a row
\* (send_group_text, recall_message, flush_pending, event_pump).
THEOREM TypeCorrect == Spec => []TypeOK
<1> QED
  BY TypeInit, TypeNext, PTL DEF Spec

-----------------------------------------------------------------------------
(* Copies. *)

LEMMA CopiesInit == Init => NoCopyForgotten
  BY DEF Init, NoCopyForgotten

LEMMA CopiesNext == TypeOK /\ NoCopyForgotten /\ [Next]_vars => NoCopyForgotten'
<1> SUFFICES ASSUME TypeOK, NoCopyForgotten, [Next]_vars PROVE NoCopyForgotten'
  OBVIOUS
<1>1. ASSUME UNCHANGED <<owed, heard, wire, pending, gone>> PROVE NoCopyForgotten'
  BY <1>1 DEF NoCopyForgotten
<1>2. ASSUME NEW n \in Nodes,
             \/ CreateGroup(n) \/ DeleteGroup(n)
             \/ \E m \in Texts : DeleteMessage(n, m)
             \/ \E k \in Keys : DeleteConversation(n, k)
      PROVE  NoCopyForgotten'
  BY <1>1, <1>2 DEF CreateGroup, DeleteGroup, DeleteMessage, DeleteConversation, callVars
<1>3. ASSUME NEW m \in Texts, StartText(m) \/ FinishText(m) \/ StartRecall(m)
      PROVE  NoCopyForgotten'
  BY <1>1, <1>3 DEF StartText, FinishText, StartRecall
<1>4. ASSUME NEW m \in Texts, NEW p \in Nodes, NEW kind \in {"text", "recall"},
             SendCopy(kind, m, p)
      PROVE  NoCopyForgotten'
  BY <1>4 DEF SendCopy, Enqueue, NoCopyForgotten
<1>5. ASSUME NEW c \in pending, FlushText(c) \/ FlushRecall(c) \/ Expire(c)
      PROVE  NoCopyForgotten'
  BY <1>5 DEF FlushText, FlushRecall, Expire, NoCopyForgotten, callVars
<1>6. ASSUME NEW c \in wire, HandleText(c) \/ HandleRecall(c) \/ Break(c)
      PROVE  NoCopyForgotten'
  BY <1>6 DEF HandleText, HandleRecall, Break, NoCopyForgotten, callVars
<1>7. CASE UNCHANGED vars
  BY <1>1, <1>7 DEF vars, callVars
<1> QED
  BY <1>2, <1>3, <1>4, <1>5, <1>6, <1>7 DEF Next

\* A copy of a group text or of a recall that a call has sent or queued is handled,
\* under way, queued, or was taken by a fault, for any group and any faults: a
\* broken connection takes nothing that is queued as well, and copies of one
\* message for two members do not replace each other (Store::enqueue).
THEOREM CopiesAreKept == Spec => []NoCopyForgotten
<1> QED
  BY TypeInit, TypeNext, CopiesInit, CopiesNext, PTL DEF Spec

-----------------------------------------------------------------------------
(* Previews. *)

\* A conversation that shows a text shows its newest one, and its row, if it is in
\* this conversation, is not recalled.
Truthful(c, k, rows, marks) ==
    c # None /\ c.preview \in Texts =>
        /\ c.last = c.preview
        /\ rows[c.preview] = k => c.preview \notin marks

LEMMA PreviewParts ==
  /\ PreviewTruthful <=>
       \A n \in Nodes, k \in Keys : Truthful(conv[n][k], k, row[n], recalled[n])
  /\ PreviewTruthful' <=>
       \A n \in Nodes, k \in Keys : Truthful(conv'[n][k], k, row'[n], recalled'[n])
  BY DEF PreviewTruthful, Truthful

LEMMA InsertTruthful ==
  ASSUME StoreOK, PreviewTruthful, NEW n \in Nodes, NEW m \in Texts, NEW k \in Keys,
         InsertText(n, m, k), UNCHANGED recalled
  PROVE  PreviewTruthful'
<1>1. CASE row[n][m] # None
  BY <1>1 DEF InsertText, PreviewTruthful
<1>2. CASE row[n][m] = None
  <2>1. /\ row' = [row EXCEPT ![n][m] = k]
        /\ conv' = [conv EXCEPT ![n][k] = Upsert(conv[n][k], m, m)]
    BY <1>2 DEF InsertText
  <2>2. m \notin recalled[n]
    BY <1>2 DEF StoreOK
  <2>3. Truthful(Upsert(conv[n][k], m, m), k, row'[n], recalled[n])
    <3>1. CASE conv[n][k] # None /\ m < conv[n][k].last
      <4>1. Upsert(conv[n][k], m, m) = conv[n][k]
        BY <3>1 DEF Upsert
      <4>2. Truthful(conv[n][k], k, row[n], recalled[n])
        BY PreviewParts
      <4>3. ASSUME conv[n][k].preview \in Texts PROVE conv[n][k].preview # m
        BY <3>1, <4>2, <4>3, TextIsStamp DEF Truthful
      <4> QED
        BY <2>1, <4>1, <4>2, <4>3 DEF Truthful, StoreOK
    <3>2. CASE ~(conv[n][k] # None /\ m < conv[n][k].last)
      BY <2>2, <3>2 DEF Truthful, Upsert
    <3> QED
      BY <3>1, <3>2
  <2>4. SUFFICES ASSUME NEW p \in Nodes, NEW j \in Keys
                 PROVE  Truthful(conv'[p][j], j, row'[p], recalled'[p])
    BY PreviewParts
  <2>5. CASE p = n /\ j = k
    BY <2>1, <2>3, <2>5 DEF StoreOK
  <2>6. CASE ~(p = n /\ j = k)
    <3>1. Truthful(conv[p][j], j, row[p], recalled[p])
      BY PreviewParts
    <3>2. conv'[p][j] = conv[p][j] /\ recalled'[p] = recalled[p]
      BY <2>1, <2>6 DEF StoreOK
    <3>3. \A l \in Texts : row'[p][l] = j => row[p][l] = j
      BY <2>1, <2>6 DEF StoreOK
    <3> QED
      BY <3>1, <3>2, <3>3 DEF Truthful
  <2> QED
    BY <2>5, <2>6
<1> QED
  BY <1>1, <1>2

LEMMA RecallTruthful ==
  ASSUME StoreOK, PreviewTruthful, NEW n \in Nodes, NEW m \in Texts,
         row[n][m] # None, MarkRecalled(n, m)
  PROVE  PreviewTruthful'
<1> DEFINE k == row[n][m]
<1>1. /\ recalled' = [recalled EXCEPT ![n] = @ \cup {m}] /\ row' = row
      /\ conv' = [conv EXCEPT ![n][k] = Withdraw(conv[n][k], m)]
  BY DEF MarkRecalled
<1>2. k \in Keys
  BY DEF StoreOK
<1>3. SUFFICES ASSUME NEW p \in Nodes, NEW j \in Keys
               PROVE  Truthful(conv'[p][j], j, row[p], recalled'[p])
  BY <1>1, PreviewParts
<1>4. Truthful(conv[p][j], j, row[p], recalled[p])
  BY PreviewParts
<1>5. CASE p = n /\ j = k
  <2>1. conv'[p][j] = Withdraw(conv[n][k], m) /\ recalled'[p] = recalled[n] \cup {m}
    BY <1>1, <1>2, <1>5 DEF StoreOK
  <2>2. CASE conv[n][k] # None /\ conv[n][k].last <= m
    <3>1. conv[n][k] \in Conversation
      BY <1>2, <2>2 DEF StoreOK
    <3>2. Withdraw(conv[n][k], m).preview = 0
      BY <2>2, <3>1 DEF Withdraw, Conversation
    <3> QED
      BY <2>1, <3>2, TextIsStamp DEF Truthful
  <2>3. CASE ~(conv[n][k] # None /\ conv[n][k].last <= m)
    <3>1. Withdraw(conv[n][k], m) = conv[n][k]
      BY <2>3 DEF Withdraw
    <3>2. ASSUME conv[n][k] # None, conv[n][k].preview \in Texts
          PROVE  conv[n][k].preview # m
      BY <1>4, <1>5, <2>3, <3>2, TextIsStamp DEF Truthful
    <3> QED
      BY <1>4, <1>5, <2>1, <3>1, <3>2 DEF Truthful
  <2> QED
    BY <2>2, <2>3
<1>6. CASE p = n /\ j # k
  <2>1. conv'[p][j] = conv[p][j] /\ recalled'[p] = recalled[n] \cup {m}
    BY <1>1, <1>6 DEF StoreOK
  <2> QED
    BY <1>4, <1>6, <2>1 DEF Truthful
<1>7. CASE p # n
  BY <1>1, <1>4, <1>7 DEF StoreOK
<1> QED
  BY <1>5, <1>6, <1>7

LEMMA PreviewInit == Init => PreviewTruthful
  BY DEF Init, PreviewTruthful

\* A row or a conversation that is deleted, and a preview without a text, cannot
\* say anything wrong.
LEMMA DeleteTruthful ==
  ASSUME TypeOK, PreviewTruthful, NEW n \in Nodes,
         \/ \E m \in Texts : DeleteMessage(n, m)
         \/ \E k \in Keys : DeleteConversation(n, k)
  PROVE  PreviewTruthful'
<1>1. ASSUME NEW m \in Texts, DeleteMessage(n, m) PROVE PreviewTruthful'
  <2>1. conv' = conv /\ \A p \in Nodes : recalled'[p] \subseteq recalled[p]
    BY <1>1 DEF DeleteMessage, TypeOK
  <2>2. \A p \in Nodes, l \in Texts : row'[p][l] = row[p][l] \/ l \notin recalled'[p]
    BY <1>1 DEF DeleteMessage, TypeOK
  <2> QED
    BY <2>1, <2>2 DEF PreviewTruthful
<1>2. ASSUME NEW k \in Keys, DeleteConversation(n, k) PROVE PreviewTruthful'
  <2>1. \A p \in Nodes, j \in Keys : conv'[p][j] \in {conv[p][j], None}
    BY <1>2 DEF DeleteConversation, TypeOK
  <2>2. row' = row /\ recalled' = recalled
    BY <1>2 DEF DeleteConversation
  <2> QED
    BY <2>1, <2>2 DEF PreviewTruthful
<1> QED
  BY <1>1, <1>2

LEMMA FlushTruthful ==
  ASSUME TypeOK, PreviewTruthful, NEW c \in pending, FlushRecall(c)
  PROVE  PreviewTruthful'
<1> DEFINE v == Upsert(conv[From(c)][c.to], RecallStamp(c.text), 0)
<1>1. row' = row /\ recalled' = recalled
  BY DEF FlushRecall
<1>2. CASE c \in filed
  BY <1>1, <1>2 DEF FlushRecall, PreviewTruthful
<1>3. CASE c \notin filed
  <2>1. From(c) \in Nodes /\ c.to \in Keys
    BY CopyFacts DEF TypeOK
  <2>2. conv' = [conv EXCEPT ![From(c)][c.to] = v]
    BY <1>3 DEF FlushRecall
  <2>3. v = conv[From(c)][c.to] \/ v.preview = 0
    BY DEF Upsert
  <2>4. ASSUME NEW p \in Nodes, NEW j \in Keys
        PROVE  conv'[p][j] = conv[p][j] \/ conv'[p][j].preview = 0
    BY <2>1, <2>2, <2>3 DEF TypeOK
  <2> QED
    BY <1>1, <2>4, TextIsStamp DEF PreviewTruthful
<1> QED
  BY <1>2, <1>3

LEMMA PreviewNext == TypeOK /\ PreviewTruthful /\ [Next]_vars => PreviewTruthful'
<1> SUFFICES ASSUME TypeOK, PreviewTruthful, [Next]_vars PROVE PreviewTruthful'
  OBVIOUS
<1>1. StoreOK
  BY TypeParts
<1>2. ASSUME UNCHANGED storeVars PROVE PreviewTruthful'
  BY <1>2 DEF PreviewTruthful, storeVars
<1>3. ASSUME NEW n \in Nodes, CreateGroup(n) \/ DeleteGroup(n) PROVE PreviewTruthful'
  BY <1>2, <1>3 DEF CreateGroup, DeleteGroup
<1>4. ASSUME NEW m \in Texts, StartText(m) \/ FinishText(m) \/ StartRecall(m)
      PROVE  PreviewTruthful'
  <2>1. CASE StartText(m)
    BY <1>2, <2>1 DEF StartText
  <2>2. CASE FinishText(m)
    BY <1>1, <2>2, CallFacts, InsertTruthful DEF FinishText, Keys
  <2>3. CASE StartRecall(m)
    BY <1>1, <2>3, CallFacts, RecallTruthful DEF StartRecall
  <2> QED
    BY <1>4, <2>1, <2>2, <2>3
<1>5. ASSUME NEW m \in Texts, NEW p \in Nodes, NEW kind \in {"text", "recall"},
             SendCopy(kind, m, p)
      PROVE  PreviewTruthful'
  BY <1>2, <1>5 DEF SendCopy
<1>6. ASSUME NEW c \in pending, FlushText(c) \/ Expire(c) PROVE PreviewTruthful'
  <2>1. c.text \in Texts /\ c.to \in Keys /\ From(c) \in Nodes
    BY CopyFacts DEF TypeOK
  <2>2. CASE FlushText(c)
    BY <1>1, <2>1, <2>2, InsertTruthful DEF FlushText
  <2>3. CASE Expire(c)
    BY <1>2, <2>3 DEF Expire
  <2> QED
    BY <1>6, <2>2, <2>3
<1>7. ASSUME NEW c \in wire, HandleText(c) \/ HandleRecall(c) \/ Break(c)
      PROVE  PreviewTruthful'
  <2>1. c.text \in Texts /\ c.to \in Nodes /\ "group" \in Keys
    BY CopyFacts DEF TypeOK, Keys
  <2>2. CASE HandleText(c)
    BY <1>1, <2>1, <2>2, InsertTruthful DEF HandleText
  <2>3. CASE HandleRecall(c)
    BY <1>1, <1>2, <2>1, <2>3, RecallTruthful DEF HandleRecall
  <2>4. CASE Break(c)
    BY <1>2, <2>4 DEF Break
  <2> QED
    BY <1>7, <2>2, <2>3, <2>4
<1>8. CASE UNCHANGED vars
  BY <1>2, <1>8 DEF vars
<1> QED
  BY <1>3, <1>4, <1>5, <1>6, <1>7, <1>8, DeleteTruthful, FlushTruthful DEF Next

\* A conversation that previews a text has the time of that text as its last, and
\* previews none that is recalled while it is filed there, in whatever order texts
\* and recalls arrive, are sent again, are filed under the group or a member, or
\* are deleted (insert_message, mark_message_recalled).
THEOREM PreviewsAreTruthful == Spec => []PreviewTruthful
<1> QED
  BY TypeInit, TypeNext, PreviewInit, PreviewNext, PTL DEF Spec

=============================================================================
