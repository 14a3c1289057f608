----------------------------- MODULE StreamProofs -----------------------------
(***************************************************************************)
(* Proofs about PropagationStream, for any identities, connections, batch  *)
(* size and number of rows.                                                *)
(*                                                                         *)
(* What a connection has still to send is, at any moment, what lies beyond *)
(* the last row it sent; its batch is the beginning of that, and when the  *)
(* batch is out the cursor stands at the last row.                         *)
(***************************************************************************)
EXTENDS PropagationStream, Counting

LastSent(c) == IF sent[c] = <<>> THEN 0 ELSE sent[c][Len(sent[c])]

SentRows(c) == {sent[c][n] : n \in DOMAIN sent[c]}

Ascending(ids) == \A m, n \in DOMAIN ids : m < n => ids[m] < ids[n]

(* A connection that is closed holds nothing back for the next client. *)
Reset(c) == sent[c] = <<>> /\ batch[c] = {} /\ lastRowID[c] = 0

Streaming(c) ==
    /\ Ascending(sent[c])
    /\ SentRows(c) = Beyond(client[c], 0) \ Beyond(client[c], LastSent(c))
    /\ batch[c] = {} => lastRowID[c] = LastSent(c)
    /\ batch[c] \subseteq Beyond(client[c], LastSent(c))
    /\ \A id \in batch[c], j \in Beyond(client[c], LastSent(c)) : j < id => j \in batch[c]

StreamInv ==
    /\ StreamTypeOK
    /\ \A c \in Connection : IF client[c] = Nobody THEN Reset(c) ELSE Streaming(c)

-----------------------------------------------------------------------------
(* A batch *)

LEMMA BeyondIsFinite ==
    ASSUME StreamTypeOK, NEW i, NEW cursor
    PROVE  /\ Beyond(i, cursor) \subseteq DOMAIN propagations
           /\ Beyond(i, cursor) \subseteq Nat
           /\ IsFiniteSet(Beyond(i, cursor))
           /\ \A id \in Beyond(i, cursor) : id <= Len(propagations)
  <1>1. DOMAIN propagations = 1..Len(propagations) /\ Len(propagations) \in Nat
    BY DEF StreamTypeOK
  <1>2. Beyond(i, cursor) \subseteq DOMAIN propagations
    BY DEF Beyond
  <1>3. IsFiniteSet(DOMAIN propagations)
    BY <1>1, FS_Interval
  <1> QED BY <1>1, <1>2, <1>3, FS_Subset

(* RecentPropagationsForIdentity returns the beginning of what is beyond   *)
(* the cursor, and no more than Limit rows.                                *)
LEMMA BatchIsBeginning ==
    ASSUME StreamTypeOK, NEW i, NEW cursor
    PROVE  /\ Recent(i, cursor) \subseteq Beyond(i, cursor)
           /\ \A id \in Recent(i, cursor), j \in Beyond(i, cursor) :
                 j < id => j \in Recent(i, cursor)
           /\ Cardinality(Recent(i, cursor)) <= Limit
  <1> DEFINE S == Beyond(i, cursor)
             UpTo(id) == {j \in S : j <= id}
             R == Recent(i, cursor)
  <1>1. S \subseteq Nat /\ IsFiniteSet(S) /\ \A id \in S : id <= Len(propagations)
    BY BeyondIsFinite
  <1>2. R = {id \in S : Cardinality(UpTo(id)) <= Limit}
    BY DEF Recent
  <1>3. \A id : IsFiniteSet(UpTo(id)) /\ Cardinality(UpTo(id)) \in Nat
    BY <1>1, CountIsNat
  <1> HIDE DEF S, R
  <1>4. ASSUME NEW id \in R, NEW j \in S, j < id PROVE j \in R
    <2>1. UpTo(j) \subseteq UpTo(id)
      <3>1. id \in Nat /\ j \in Nat /\ \A k \in S : k \in Nat
        BY <1>1, <1>2
      <3>2. ASSUME NEW k \in S, k <= j PROVE k <= id
        BY <1>4, <3>1, <3>2
      <3> QED BY <3>2
    <2>2. Cardinality(UpTo(j)) <= Cardinality(UpTo(id))
      BY <1>3, <2>1, FS_Subset
    <2>3. Cardinality(UpTo(id)) <= Limit
      BY <1>2
    <2> HIDE DEF UpTo
    <2> QED BY <1>2, <1>3, <2>2, <2>3, PropagationStreamAssumption
  <1>5. Cardinality(R) <= Limit
    <2>1. CASE R = {}
      BY <2>1, FS_EmptySet, PropagationStreamAssumption
    <2>2. CASE R # {}
      <3>1. R \subseteq Nat /\ \A k \in R : k <= Len(propagations)
        <4> HIDE DEF UpTo
        <4> QED BY <1>1, <1>2
      <3>0. Len(propagations) \in Nat
        BY DEF StreamTypeOK
      <3>2. PICK m \in R : \A k \in R : k <= m
        BY <2>2, <3>0, <3>1, GreatestElement
      <3>3. R \subseteq UpTo(m)
        BY <1>2, <3>2
      <3>4. Cardinality(R) <= Cardinality(UpTo(m)) /\ Cardinality(R) \in Nat
        BY <1>3, <3>3, FS_Subset, CountIsNat
      <3>5. Cardinality(UpTo(m)) <= Limit
        BY <1>2, <3>2
      <3> HIDE DEF UpTo
      <3> QED BY <1>3, <3>4, <3>5, PropagationStreamAssumption
    <2> QED BY <2>1, <2>2
  <1> QED BY <1>2, <1>4, <1>5 DEF S, R

-----------------------------------------------------------------------------
(* The table *)

LEMMA LastSentIsRow ==
    ASSUME StreamTypeOK, NEW c \in Connection
    PROVE  LastSent(c) \in 0..Len(propagations)
  <1>1. sent[c] \in Seq(DOMAIN propagations)
    BY DEF StreamTypeOK
  <1>2. DOMAIN propagations = 1..Len(propagations) /\ Len(propagations) \in Nat
    BY DEF StreamTypeOK
  <1>3. CASE sent[c] = <<>>
    BY <1>2, <1>3 DEF LastSent
  <1>4. CASE sent[c] # <<>>
    <2>1. Len(sent[c]) \in 1..Len(sent[c])
      BY <1>1, <1>4
    <2>2. sent[c][Len(sent[c])] \in DOMAIN propagations
      BY <1>1, <2>1
    <2> QED BY <1>2, <1>4, <2>2 DEF LastSent
  <1> QED BY <1>3, <1>4

(* A new row lies beyond every cursor, after every row there is. *)
LEMMA InsertKeeps ==
    ASSUME StreamInv, NEW i \in Identity, Insert(i) PROVE StreamInv'
  <1> DEFINE n == Len(propagations) + 1
             row == [identity |-> i, acked |-> FALSE]
  <1>1. /\ propagations' = Append(propagations, row)
        /\ UNCHANGED <<client, lastRowID, batch, sent>>
    BY DEF Insert
  <1>2. row \in Row /\ row.identity = i
    BY DEF Row
  <1>3. propagations \in Seq(Row) /\ Len(propagations) \in Nat
        /\ DOMAIN propagations = 1..Len(propagations)
    BY DEF StreamInv, StreamTypeOK
  <1> HIDE DEF row
  <1>4. /\ propagations' \in Seq(Row)
        /\ DOMAIN propagations' = DOMAIN propagations \cup {n}
        /\ Len(propagations') = n
        /\ propagations'[n].identity = i
        /\ \A id \in DOMAIN propagations : propagations'[id] = propagations[id]
    BY <1>1, <1>2, <1>3
  <1>5. StreamTypeOK'
    <2>1. 0..Len(propagations) \subseteq 0..Len(propagations')
      BY <1>3, <1>4
    <2>2. lastRowID' \in [Connection -> 0..Len(propagations')]
      BY <1>1, <2>1 DEF StreamInv, StreamTypeOK
    <2>3. batch' \in [Connection -> SUBSET DOMAIN propagations']
      BY <1>1, <1>4 DEF StreamInv, StreamTypeOK
    <2>4. sent' \in [Connection -> Seq(DOMAIN propagations')]
      <3>1. Seq(DOMAIN propagations) \subseteq Seq(DOMAIN propagations')
        BY <1>4
      <3> QED BY <1>1, <3>1 DEF StreamInv, StreamTypeOK
    <2> QED BY <1>1, <1>4, <2>2, <2>3, <2>4 DEF StreamInv, StreamTypeOK
  <1>6. ASSUME NEW c \in Connection, client[c] # Nobody PROVE Streaming(c)'
    <2>1. Streaming(c) /\ LastSent(c)' = LastSent(c) /\ SentRows(c)' = SentRows(c)
      BY <1>1, <1>6 DEF StreamInv, LastSent, SentRows
    <2>2. LastSent(c) \in 0..Len(propagations)
      BY LastSentIsRow DEF StreamInv
    <2>3. ASSUME NEW k \in 0..Len(propagations)
          PROVE  Beyond(client[c], k)' =
                     Beyond(client[c], k) \cup (IF client[c] = i THEN {n} ELSE {})
      BY <1>1, <1>3, <1>4 DEF Beyond
    <2>4. n \notin Beyond(client[c], 0) /\ n \notin Beyond(client[c], LastSent(c))
      BY <1>3 DEF Beyond
    <2>5. 0 \in 0..Len(propagations)
      BY <1>3
    <2>6. SentRows(c)' = Beyond(client[c], 0)' \ Beyond(client[c], LastSent(c))'
      BY <2>1, <2>2, <2>3, <2>4, <2>5 DEF Streaming
    <2>7. \A id \in batch[c] : id \in DOMAIN propagations /\ id < n
      BY <1>3 DEF StreamInv, StreamTypeOK
    <2>8. \A id \in batch[c], j \in Beyond(client[c], LastSent(c))' :
              j < id => j \in batch[c]
      BY <1>3, <2>1, <2>2, <2>3, <2>7 DEF Streaming
    <2>9. batch[c] \subseteq Beyond(client[c], LastSent(c))'
      BY <2>1, <2>2, <2>3 DEF Streaming
    <2> QED BY <1>1, <2>1, <2>6, <2>8, <2>9 DEF Streaming
  <1> QED BY <1>1, <1>5, <1>6 DEF StreamInv, Reset

(* An acknowledgement changes nothing that a reader asks for. *)
LEMMA AcknowledgeKeeps ==
    ASSUME StreamInv, NEW id \in DOMAIN propagations, Acknowledge(id) PROVE StreamInv'
  <1>1. /\ propagations' = [propagations EXCEPT ![id].acked = TRUE]
        /\ UNCHANGED <<client, lastRowID, batch, sent>>
    BY DEF Acknowledge
  <1>2. propagations \in Seq(Row) /\ propagations[id] \in Row
    BY DEF StreamInv, StreamTypeOK
  <1>3. /\ propagations' \in Seq(Row)
        /\ DOMAIN propagations' = DOMAIN propagations
        /\ Len(propagations') = Len(propagations)
        /\ \A j \in DOMAIN propagations : propagations'[j].identity = propagations[j].identity
    <2> DEFINE row == [propagations[id] EXCEPT !.acked = TRUE]
    <2>1. row \in Row /\ row.identity = propagations[id].identity
      BY <1>2 DEF Row
    <2>2. propagations' = [propagations EXCEPT ![id] = row]
      BY <1>1
    <2> HIDE DEF row
    <2> QED BY <1>2, <2>1, <2>2
  <1>4. \A i, k : Beyond(i, k)' = Beyond(i, k)
    BY <1>3 DEF Beyond
  <1>5. StreamTypeOK'
    BY <1>1, <1>3 DEF StreamInv, StreamTypeOK
  <1>6. ASSUME NEW c \in Connection, client[c] # Nobody PROVE Streaming(c)'
    <2>1. Streaming(c) /\ LastSent(c)' = LastSent(c) /\ SentRows(c)' = SentRows(c)
      BY <1>1, <1>6 DEF StreamInv, LastSent, SentRows
    <2> QED BY <1>1, <1>4, <2>1 DEF Streaming
  <1> QED BY <1>1, <1>5, <1>6 DEF StreamInv, Reset

-----------------------------------------------------------------------------
(* The connections *)

(* A step of one connection leaves the others as they were. *)
LEMMA OtherConnections ==
    ASSUME StreamInv, NEW c \in Connection, UNCHANGED propagations,
           \A d \in Connection \ {c} :
              /\ client'[d] = client[d] /\ lastRowID'[d] = lastRowID[d]
              /\ batch'[d] = batch[d] /\ sent'[d] = sent[d],
           StreamTypeOK',
           IF client'[c] = Nobody THEN Reset(c)' ELSE Streaming(c)'
    PROVE  StreamInv'
  <1>1. \A i, k : Beyond(i, k)' = Beyond(i, k)
    BY DEF Beyond
  <1>2. ASSUME NEW d \in Connection \ {c}
        PROVE  IF client'[d] = Nobody THEN Reset(d)' ELSE Streaming(d)'
    <2>1. IF client[d] = Nobody THEN Reset(d) ELSE Streaming(d)
      BY DEF StreamInv
    <2>2. LastSent(d)' = LastSent(d) /\ SentRows(d)' = SentRows(d)
      BY DEF LastSent, SentRows
    <2> QED BY <1>1, <2>1, <2>2 DEF Reset, Streaming
  <1> QED BY <1>2 DEF StreamInv

LEMMA ConnectKeeps ==
    ASSUME StreamInv, NEW c \in Connection, NEW i \in Identity, Connect(c, i)
    PROVE  StreamInv'
  <1>1. /\ client[c] = Nobody /\ client' = [client EXCEPT ![c] = i]
        /\ lastRowID' = [lastRowID EXCEPT ![c] = 0]
        /\ UNCHANGED <<propagations, batch, sent>>
    BY DEF Connect
  <1>2. /\ client'[c] = i /\ i # Nobody /\ lastRowID'[c] = 0
        /\ \A d \in Connection \ {c} : client'[d] = client[d] /\ lastRowID'[d] = lastRowID[d]
    BY <1>1, PropagationStreamAssumption DEF StreamInv, StreamTypeOK
  <1>3. StreamTypeOK'
    <2>1. 0 \in 0..Len(propagations)
      BY DEF StreamInv, StreamTypeOK
    <2> QED BY <1>1, <2>1 DEF StreamInv, StreamTypeOK
  <1>4. sent'[c] = <<>> /\ batch'[c] = {}
    BY <1>1 DEF StreamInv, Reset
  <1>5. Streaming(c)'
    <2>1. LastSent(c)' = 0 /\ SentRows(c)' = {}
      BY <1>4 DEF LastSent, SentRows
    <2> QED BY <1>2, <1>4, <2>1 DEF Streaming, Ascending
  <1> QED BY <1>1, <1>2, <1>3, <1>5, OtherConnections

LEMMA DisconnectKeeps ==
    ASSUME StreamInv, NEW c \in Connection, Disconnect(c) PROVE StreamInv'
  <1>1. /\ client' = [client EXCEPT ![c] = Nobody]
        /\ lastRowID' = [lastRowID EXCEPT ![c] = 0]
        /\ batch' = [batch EXCEPT ![c] = {}]
        /\ sent' = [sent EXCEPT ![c] = <<>>]
        /\ UNCHANGED propagations
    BY DEF Disconnect
  <1>2. /\ client'[c] = Nobody /\ lastRowID'[c] = 0 /\ batch'[c] = {} /\ sent'[c] = <<>>
        /\ \A d \in Connection \ {c} :
              /\ client'[d] = client[d] /\ lastRowID'[d] = lastRowID[d]
              /\ batch'[d] = batch[d] /\ sent'[d] = sent[d]
    BY <1>1 DEF StreamInv, StreamTypeOK
  <1>3. StreamTypeOK'
    <2>1. 0 \in 0..Len(propagations) /\ <<>> \in Seq(DOMAIN propagations)
      BY DEF StreamInv, StreamTypeOK
    <2>2. Cardinality({}) <= Limit
      BY FS_EmptySet, PropagationStreamAssumption
    <2>3. \A d \in Connection : Cardinality(batch'[d]) <= Limit
      BY <1>2, <2>2 DEF StreamInv, StreamTypeOK
    <2> QED BY <1>1, <2>1, <2>3 DEF StreamInv, StreamTypeOK
  <1> QED BY <1>1, <1>2, <1>3, OtherConnections DEF Reset

LEMMA PollKeeps ==
    ASSUME StreamInv, NEW c \in Connection, Poll(c) PROVE StreamInv'
  <1> DEFINE rows == Recent(client[c], lastRowID[c])
  <1>1. /\ client[c] # Nobody /\ batch[c] = {} /\ rows # {}
        /\ batch' = [batch EXCEPT ![c] = rows]
        /\ UNCHANGED <<propagations, client, lastRowID, sent>>
    BY DEF Poll
  <1>2. /\ Streaming(c) /\ lastRowID[c] = LastSent(c)
        /\ LastSent(c)' = LastSent(c) /\ SentRows(c)' = SentRows(c)
    BY <1>1 DEF StreamInv, Streaming, LastSent, SentRows
  <1>3. /\ rows \subseteq Beyond(client[c], LastSent(c))
        /\ \A id \in rows, j \in Beyond(client[c], LastSent(c)) : j < id => j \in rows
        /\ Cardinality(rows) <= Limit
        /\ rows \subseteq DOMAIN propagations
    BY <1>2, BatchIsBeginning, BeyondIsFinite DEF StreamInv
  <1> HIDE DEF rows
  <1>4. batch'[c] = rows /\ \A d \in Connection \ {c} : batch'[d] = batch[d]
    BY <1>1 DEF StreamInv, StreamTypeOK
  <1>5. StreamTypeOK'
    <2>1. \A d \in Connection : Cardinality(batch'[d]) <= Limit
      BY <1>3, <1>4 DEF StreamInv, StreamTypeOK
    <2> QED BY <1>1, <1>3, <2>1 DEF StreamInv, StreamTypeOK
  <1>6. \A i, k : Beyond(i, k)' = Beyond(i, k)
    BY <1>1 DEF Beyond
  <1>7. Streaming(c)'
    BY <1>1, <1>2, <1>3, <1>4, <1>6 DEF Streaming
  <1> QED BY <1>1, <1>4, <1>5, <1>7, OtherConnections

(* The row sent is the next one of its identity. *)
LEMMA SendKeeps ==
    ASSUME StreamInv, NEW c \in Connection, NEW id \in DOMAIN propagations, Send(c, id)
    PROVE  StreamInv'
  <1> DEFINE i == client[c]
             last == LastSent(c)
  <1>1. /\ id \in batch[c] /\ \A j \in batch[c] : id <= j
        /\ sent' = [sent EXCEPT ![c] = Append(@, id)]
        /\ batch' = [batch EXCEPT ![c] = @ \ {id}]
        /\ lastRowID' = [lastRowID EXCEPT ![c] = IF batch[c] = {id} THEN id ELSE @]
        /\ UNCHANGED <<propagations, client>>
    BY DEF Send, Oldest
  <1>2. /\ sent'[c] = Append(sent[c], id) /\ batch'[c] = batch[c] \ {id}
        /\ lastRowID'[c] = IF batch[c] = {id} THEN id ELSE lastRowID[c]
        /\ \A d \in Connection \ {c} :
              /\ client'[d] = client[d] /\ lastRowID'[d] = lastRowID[d]
              /\ batch'[d] = batch[d] /\ sent'[d] = sent[d]
    BY <1>1 DEF StreamInv, StreamTypeOK
  <1>3. DOMAIN propagations = 1..Len(propagations) /\ Len(propagations) \in Nat
    BY DEF StreamInv, StreamTypeOK
  <1>4. i # Nobody /\ Streaming(c)
    BY <1>1 DEF StreamInv, Reset
  <1>5. sent[c] \in Seq(DOMAIN propagations)
    BY DEF StreamInv, StreamTypeOK
  <1>6. StreamTypeOK'
    <2>1. \A d \in Connection : Cardinality(batch'[d]) <= Limit
      <3>1. Cardinality(batch[c]) <= Limit /\ batch[c] \subseteq DOMAIN propagations
        BY DEF StreamInv, StreamTypeOK
      <3>2. IsFiniteSet(batch[c])
        <4>1. IsFiniteSet(DOMAIN propagations)
          BY <1>3, FS_Interval
        <4> QED BY <3>1, <4>1, FS_Subset
      <3>3. Cardinality(batch[c] \ {id}) = Cardinality(batch[c]) - 1
        BY <1>1, <3>2, CountLoses
      <3>4. Cardinality(batch[c]) \in Nat
        BY <3>2, FS_CardinalityType
      <3>5. Cardinality(batch'[c]) <= Limit
        BY <1>2, <3>1, <3>3, <3>4, PropagationStreamAssumption
      <3> QED BY <1>2, <3>5 DEF StreamInv, StreamTypeOK
    <2>2. sent' \in [Connection -> Seq(DOMAIN propagations)]
      BY <1>1, <1>5 DEF StreamInv, StreamTypeOK
    <2>3. batch' \in [Connection -> SUBSET DOMAIN propagations]
      BY <1>1 DEF StreamInv, StreamTypeOK
    <2>4. lastRowID' \in [Connection -> 0..Len(propagations)]
      <3>1. id \in 0..Len(propagations)
        BY <1>3
      <3> QED BY <1>1, <3>1 DEF StreamInv, StreamTypeOK
    <2> QED BY <1>1, <2>1, <2>2, <2>3, <2>4 DEF StreamInv, StreamTypeOK
  <1>7. Streaming(c)'
    <2>1. /\ DOMAIN sent'[c] = DOMAIN sent[c] \cup {Len(sent[c]) + 1}
          /\ sent'[c][Len(sent[c]) + 1] = id
          /\ \A n \in DOMAIN sent[c] : sent'[c][n] = sent[c][n]
          /\ sent'[c] # <<>> /\ Len(sent'[c]) = Len(sent[c]) + 1
      BY <1>2, <1>5, AppendKeeps
    <2>2. LastSent(c)' = id
      BY <2>1 DEF LastSent
    <2>3. SentRows(c)' = SentRows(c) \cup {id}
      BY <2>1 DEF SentRows
    <2>4. /\ id \in Beyond(i, last) /\ last \in 0..Len(propagations) /\ id > last
      BY <1>1, <1>4, LastSentIsRow DEF Streaming, StreamInv, Beyond
    <2>5. \A j \in Beyond(i, last) : id <= j
      <3>1. ASSUME NEW j \in Beyond(i, last), j < id PROVE FALSE
        <4>1. j \in batch[c]
          BY <1>1, <1>4, <3>1 DEF Streaming
        <4> QED BY <1>1, <1>3, <3>1, <4>1 DEF Beyond
      <3> QED BY <1>3, <3>1 DEF Beyond
    <2>6. /\ Beyond(i, id) = Beyond(i, last) \ {id}
          /\ Beyond(i, last) \subseteq Beyond(i, 0)
      <3>1. Beyond(i, last) \subseteq Beyond(i, 0)
        BY <1>3, <2>4 DEF Beyond
      <3>2. ASSUME NEW j \in Beyond(i, last), j # id PROVE j \in Beyond(i, id)
        BY <1>3, <2>5, <3>2 DEF Beyond
      <3>3. ASSUME NEW j \in Beyond(i, id) PROVE j \in Beyond(i, last) /\ j # id
        BY <1>3, <2>4 DEF Beyond
      <3> QED BY <3>1, <3>2, <3>3
    <2>7. \A k : Beyond(i, k)' = Beyond(i, k)
      BY <1>1 DEF Beyond
    <2>8. client'[c] = i
      BY <1>1
    <2>9. Ascending(sent[c])'
      <3>1. \A n \in DOMAIN sent[c] : sent[c][n] < id
        <4> SUFFICES ASSUME NEW n \in DOMAIN sent[c] PROVE sent[c][n] < id
          OBVIOUS
        <4>1. sent[c][n] \in Beyond(i, 0) \ Beyond(i, last)
          BY <1>4 DEF Streaming, SentRows
        <4> QED BY <1>3, <2>4, <4>1 DEF Beyond
      <3>2. Ascending(sent[c]) /\ DOMAIN sent[c] = 1..Len(sent[c]) /\ Len(sent[c]) \in Nat
        BY <1>4, <1>5 DEF Streaming
      <3> QED BY <2>1, <3>1, <3>2 DEF Ascending
    <2>10. SentRows(c)' = Beyond(i, 0) \ Beyond(i, id)
      BY <1>4, <2>3, <2>4, <2>6 DEF Streaming
    <2>11. batch'[c] = {} => lastRowID'[c] = id
      BY <1>1, <1>2
    <2>12. batch'[c] \subseteq Beyond(i, id)
      BY <1>2, <1>4, <2>6 DEF Streaming
    <2>13. \A k \in batch'[c], j \in Beyond(i, id) : j < k => j \in batch'[c]
      BY <1>2, <1>4, <2>6 DEF Streaming
    <2>14. /\ Beyond(client[c], 0)' = Beyond(i, 0)
           /\ Beyond(client[c], LastSent(c))' = Beyond(i, id)
      BY <2>2, <2>7, <2>8
    <2> HIDE DEF i, last
    <2> QED BY <2>2, <2>9, <2>10, <2>11, <2>12, <2>13, <2>14 DEF Streaming
  <1> QED BY <1>1, <1>2, <1>4, <1>6, <1>7, OtherConnections

-----------------------------------------------------------------------------
LEMMA StreamInvInit == StreamInit => StreamInv
  <1> SUFFICES ASSUME StreamInit PROVE StreamInv
    OBVIOUS
  <1> USE DEF StreamInit
  <1>1. propagations \in Seq(Row) /\ Len(propagations) = 0 /\ DOMAIN propagations = {}
    OBVIOUS
  <1>2. Cardinality({}) <= Limit
    BY FS_EmptySet, PropagationStreamAssumption
  <1>3. StreamTypeOK
    BY <1>1, <1>2 DEF StreamTypeOK
  <1> QED BY <1>3 DEF StreamInv, Reset

LEMMA StreamInvStep ==
    ASSUME StreamInv, [StreamNext]_streamVars PROVE StreamInv'
  <1>1. CASE UNCHANGED streamVars
    <2>1. UNCHANGED <<propagations, client, lastRowID, batch, sent>>
      BY <1>1 DEF streamVars
    <2>2. \A i, k : Beyond(i, k)' = Beyond(i, k)
      BY <2>1 DEF Beyond
    <2>3. StreamTypeOK'
      BY <2>1 DEF StreamInv, StreamTypeOK
    <2> QED BY <2>1, <2>2, <2>3 DEF StreamInv, Reset, Streaming, LastSent, SentRows
  <1>2. ASSUME NEW c \in Connection, SendOldest(c) PROVE StreamInv'
    BY <1>2, SendKeeps DEF SendOldest
  <1> QED BY <1>1, <1>2, InsertKeeps, AcknowledgeKeeps, ConnectKeeps, DisconnectKeeps,
             PollKeeps DEF StreamNext

(* The inductive invariant: the batch is the beginning of what has not     *)
(* been sent, and the cursor moves only when the batch is out.             *)
THEOREM StreamInvAlways == StreamSpec => []StreamInv
  BY StreamInvInit, StreamInvStep, PTL DEF StreamSpec

(* The variables have their types; a batch has at most Limit rows          *)
(* (interest.go:276-279).                                                  *)
THEOREM StreamTypeCorrect == StreamSpec => []StreamTypeOK
  <1>1. StreamInv => StreamTypeOK
    BY DEF StreamInv
  <1> QED BY <1>1, StreamInvAlways, PTL

(* Every row of the client's identity is sent once and in order, whatever  *)
(* is inserted or acknowledged meanwhile (serve.go:62-82).                 *)
THEOREM NoGapInAStream == StreamSpec => []InOrderWithoutGaps
  <1>1. ASSUME StreamInv PROVE InOrderWithoutGaps
    <2> SUFFICES ASSUME NEW c \in Connection, client[c] # Nobody
                 PROVE  /\ Ascending(sent[c])
                        /\ SentRows(c) = Beyond(client[c], 0) \ Beyond(client[c], LastSent(c))
      BY DEF InOrderWithoutGaps, Ascending, SentRows, LastSent
    <2> QED BY <1>1 DEF StreamInv, Streaming
  <1> QED BY <1>1, StreamInvAlways, PTL
=============================================================================
