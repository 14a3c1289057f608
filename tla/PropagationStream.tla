-------------------------- MODULE PropagationStream --------------------------
(***************************************************************************)
(* serve.go and the reading side of interest.go: the table propagations as *)
(* its readers see it, `interest ack`, and the SSE stream that pushes an   *)
(* identity's propagations to an HTTP client.                              *)
(*                                                                         *)
(* Each connection runs sseStreamInterestHandler in a goroutine of its     *)
(* own: at every tick it reads a batch of rows beyond its cursor and sends *)
(* them one by one, and moves the cursor when the batch is out.  Rows are  *)
(* appended meanwhile by matchAndPropagate in other processes; the index   *)
(* of a row is its rowid, since rows are never deleted and SQLite lets one *)
(* writer commit at a time.                                                *)
(***************************************************************************)
EXTENDS Integers, Sequences, FiniteSets

CONSTANTS
    Identity,
    Connection,         \* HTTP clients, each with one stream at a time
    Nobody,             \* the identity of a closed connection
    Limit,              \* rows per batch: 50 in serve.go
    MaxPropagations     \* bound: rows ever inserted

ASSUME PropagationStreamAssumption ==
    /\ Limit \in Nat \ {0}
    /\ MaxPropagations \in Nat
    /\ Nobody \notin Identity

Row == [identity : Identity, acked : BOOLEAN]

VARIABLES
    propagations,   \* table propagations
    client,         \* the identity each connection streams
    lastRowID,      \* cursor of each connection
    batch,          \* rows read and still to be sent, the oldest first
    sent            \* history: rows sent on each connection since it opened

streamVars == <<propagations, client, lastRowID, batch, sent>>

StreamTypeOK ==
    /\ propagations \in Seq(Row)
    /\ client \in [Connection -> Identity \cup {Nobody}]
    /\ lastRowID \in [Connection -> 0..Len(propagations)]
    /\ batch \in [Connection -> SUBSET DOMAIN propagations]
    /\ \A c \in Connection : Cardinality(batch[c]) <= Limit
    /\ sent \in [Connection -> Seq(DOMAIN propagations)]

StreamInit ==
    /\ propagations = <<>>
    /\ client = [c \in Connection |-> Nobody]
    /\ lastRowID = [c \in Connection |-> 0]
    /\ batch = [c \in Connection |-> {}]
    /\ sent = [c \in Connection |-> <<>>]

Insert(i) ==
    /\ Len(propagations) < MaxPropagations
    /\ propagations' = Append(propagations, [identity |-> i, acked |-> FALSE])
    /\ UNCHANGED <<client, lastRowID, batch, sent>>

(* A second acknowledgement changes no row and is no error. *)
Acknowledge(id) ==
    /\ ~propagations[id].acked
    /\ propagations' = [propagations EXCEPT ![id].acked = TRUE]
    /\ UNCHANGED <<client, lastRowID, batch, sent>>

(* Every request starts from row 0: a client that reconnects is sent its   *)
(* whole history again.                                                    *)
Connect(c, i) ==
    /\ client[c] = Nobody
    /\ client' = [client EXCEPT ![c] = i]
    /\ lastRowID' = [lastRowID EXCEPT ![c] = 0]
    /\ UNCHANGED <<propagations, batch, sent>>

Disconnect(c) ==
    /\ client[c] # Nobody
    /\ client' = [client EXCEPT ![c] = Nobody]
    /\ lastRowID' = [lastRowID EXCEPT ![c] = 0]
    /\ batch' = [batch EXCEPT ![c] = {}]
    /\ sent' = [sent EXCEPT ![c] = <<>>]
    /\ UNCHANGED propagations

Beyond(i, cursor) ==
    {id \in DOMAIN propagations : id > cursor /\ propagations[id].identity = i}

(* Mutant: the LIMIT is forgotten. *)
RecentUnbounded(i, cursor) == Beyond(i, cursor)

(* Mutant: a batch is the newest rows. *)
RecentLast(i, cursor) ==
    {id \in Beyond(i, cursor) :
        Cardinality({j \in Beyond(i, cursor) : j >= id}) <= Limit}

(* RecentPropagationsForIdentity: rows of i beyond the cursor, ascending,  *)
(* at most Limit of them.  (A negative limit would be clamped to 0; the    *)
(* only caller passes 50.)                                                 *)
Recent(i, cursor) ==
    {id \in Beyond(i, cursor) :
        Cardinality({j \in Beyond(i, cursor) : j <= id}) <= Limit}

(* A tick.  A read that fails leaves everything as it was, as does one     *)
(* that finds nothing.                                                     *)
Poll(c) ==
    LET rows == Recent(client[c], lastRowID[c]) IN
    /\ client[c] # Nobody
    /\ batch[c] = {}
    /\ rows # {}
    /\ batch' = [batch EXCEPT ![c] = rows]
    /\ UNCHANGED <<propagations, client, lastRowID, sent>>

Oldest(c, id) == id \in batch[c] /\ \A j \in batch[c] : id <= j

(* Mutant: the cursor counts rows instead of naming one. *)
SendCounting(c, id) ==
    /\ Oldest(c, id)
    /\ sent' = [sent EXCEPT ![c] = Append(@, id)]
    /\ batch' = [batch EXCEPT ![c] = @ \ {id}]
    /\ lastRowID' = [lastRowID EXCEPT ![c] = @ + 1]
    /\ UNCHANGED <<propagations, client>>

(* The cursor moves when the last row of the batch is out. *)
Send(c, id) ==
    /\ Oldest(c, id)
    /\ sent' = [sent EXCEPT ![c] = Append(@, id)]
    /\ batch' = [batch EXCEPT ![c] = @ \ {id}]
    /\ lastRowID' = [lastRowID EXCEPT ![c] = IF batch[c] = {id} THEN id ELSE @]
    /\ UNCHANGED <<propagations, client>>

SendOldest(c) == \E id \in DOMAIN propagations : Send(c, id)

StreamNext ==
    \/ \E i \in Identity : Insert(i)
    \/ \E id \in DOMAIN propagations : Acknowledge(id)
    \/ \E c \in Connection :
          \/ \E i \in Identity : Connect(c, i)
          \/ Disconnect(c)
          \/ Poll(c)
          \/ SendOldest(c)

StreamSpec == StreamInit /\ [][StreamNext]_streamVars

(* The ticker fires for as long as the request lives, and its reads do not *)
(* fail for ever.                                                          *)
FairStreamSpec ==
    StreamSpec /\ \A c \in Connection : WF_streamVars(Poll(c)) /\ WF_streamVars(SendOldest(c))

-----------------------------------------------------------------------------
(* Properties *)

(* On one connection every row of the client's identity is sent once and   *)
(* in order: what has been sent is the identity's rows up to the last one  *)
(* sent, without a gap, whatever was inserted between polls, between the   *)
(* rows of a batch, or for other identities, and whether or not the rows   *)
(* are acknowledged (serve.go:62-82).                                      *)
InOrderWithoutGaps ==
    \A c \in Connection : client[c] # Nobody =>
        LET ids == sent[c]
            last == IF ids = <<>> THEN 0 ELSE ids[Len(ids)]
        IN  /\ \A m, n \in DOMAIN ids : m < n => ids[m] < ids[n]
            /\ {ids[n] : n \in DOMAIN ids} = Beyond(client[c], 0) \ Beyond(client[c], last)

(* Every propagation of a connected client's identity is pushed, unless    *)
(* the client goes away first, however many rows there are per batch.      *)
Sent(c, id) == \E n \in DOMAIN sent[c] : sent[c][n] = id

EveryRowIsPushed ==
    \A c \in Connection, id \in 1..MaxPropagations, i \in Identity :
        (client[c] = i /\ id \in Beyond(i, 0)) ~> (client[c] = Nobody \/ Sent(c, id))
=============================================================================
