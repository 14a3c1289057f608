-------------------------- MODULE TacticFilesProofs --------------------------
(***************************************************************************)
(* Theorems about TacticFiles, for any number of processes and names, any  *)
(* flags and any texts in them.                                            *)
(***************************************************************************)
EXTENDS TacticFiles, Counting

(* A command that creates a file knows its flags. *)
BusyInv == \A p \in Process : pc[p] \in {"stat", "open", "write"} => create[p] \in Flags

(* A file that p is about to write is still empty. *)
EmptyInv == \A p \in Process : pc[p] = "write" /\ StillThere(p) => files[create[p].name].lines = <<>>

(* A file is made from flags of its name. *)
NamedInv == \A n \in Name : Exists(n) => files[n].flags \in Flags /\ files[n].flags.name = n

Writers(n) == {p \in Process : pc[p] = "write" /\ create[p].name = n}

(* Every file that was ever there was created once: its creator has said   *)
(* so, is about to, or was stopped.                                        *)
CreatorsInv ==
    \A n \in Name :
        wins[n] + Cardinality(Writers(n)) <= removals[n] + IF Exists(n) THEN 1 ELSE 0

SteadyInv == \A p \in Process, n \in Name : n \in listing[p].steady => Readable(n)

FilesInv == TacticTypeOK /\ BusyInv /\ EmptyInv /\ NamedInv

-----------------------------------------------------------------------------
(* Lines and files *)

LEMMA LineType ==
    ASSUME NEW k \in Key, NEW v \in Scalar \cup {NotAList} \cup Seq(Scalar)
    PROVE  Line(k, v) \in FileLine
  BY DEF Line, FileLine

LEMMA FieldType ==
    ASSUME NEW k \in Scalars, NEW text \in FieldText
    PROVE  RenderField(k, text) \in Seq(FileLine)
  <1>1. Line(k, text.word) \in FileLine /\ text.rest \in Seq(FileLine)
    BY LineType DEF FieldText, Key
  <1> QED BY <1>1 DEF RenderField

LEMMA RenderType ==
    ASSUME NEW flags \in CreateFlags
    PROVE  Render(flags) \in Seq(FileLine)
  <1>1. /\ RenderField("name", flags.name) \in Seq(FileLine)
        /\ RenderField("capability", flags.capability) \in Seq(FileLine)
        /\ RenderField("harness", flags.harness) \in Seq(FileLine)
    BY FieldType DEF CreateFlags, Scalars
  <1>2. ToolsLine(flags.tools) \in FileLine /\ flags.tools.rest \in Seq(FileLine)
    <2>1. flags.tools.entries \in Seq(Scalar) /\ flags.tools.rest \in Seq(FileLine)
      BY DEF CreateFlags
    <2> QED BY <2>1, LineType DEF ToolsLine, Key
  <1>3. Delimiter \in FileLine /\ Malformed \in FileLine
    BY LineType DEF Delimiter, Malformed, Key, Scalar
  <1> QED BY <1>1, <1>2, <1>3 DEF Render

LEMMA FileType ==
    ASSUME TacticTypeOK, NEW p \in Process, create[p] \in Flags, NEW lines \in Seq(FileLine)
    PROVE  /\ File(lines, p) \in TacticFile /\ File(lines, p) # NoFile
           /\ File(lines, p).lines = lines /\ File(lines, p).maker = p
           /\ File(lines, p).flags = create[p]
  BY TacticFilesAssumption DEF File, TacticFile

LEMMA PutType ==
    ASSUME TacticTypeOK, NEW n \in Name, NEW file \in TacticFile \cup {NoFile}, Put(n, file)
    PROVE  /\ files' \in [Name -> TacticFile \cup {NoFile}] /\ files'[n] = file
           /\ \A m \in Name : m # n => files'[m] = files[m]
           /\ listing' \in [Process -> [todo : SUBSET Name, shown : SUBSET Name,
                                        skipped : SUBSET Name, steady : SUBSET Name]]
           /\ \A q \in Process : /\ listing'[q].steady = listing[q].steady \ {n}
                                 /\ listing'[q].todo = listing[q].todo
                                 /\ listing'[q].shown = listing[q].shown
  <1> DEFINE L == [todo : SUBSET Name, shown : SUBSET Name,
                   skipped : SUBSET Name, steady : SUBSET Name]
  <1>1. files' = [files EXCEPT ![n] = file]
        /\ listing' = [q \in Process |-> [listing[q] EXCEPT !.steady = @ \ {n}]]
    BY DEF Put
  <1>2. files \in [Name -> TacticFile \cup {NoFile}] /\ \A q \in Process : listing[q] \in L
    BY DEF TacticTypeOK
  <1>3. ASSUME NEW l \in L
        PROVE  /\ [l EXCEPT !.steady = @ \ {n}] \in L
               /\ [l EXCEPT !.steady = @ \ {n}].steady = l.steady \ {n}
               /\ [l EXCEPT !.steady = @ \ {n}].todo = l.todo
               /\ [l EXCEPT !.steady = @ \ {n}].shown = l.shown
    OBVIOUS
  <1> HIDE DEF L
  <1>4. listing' \in [Process -> L]
    BY <1>1, <1>2, <1>3
  <1>5. \A q \in Process : /\ listing'[q].steady = listing[q].steady \ {n}
                           /\ listing'[q].todo = listing[q].todo
                           /\ listing'[q].shown = listing[q].shown
    BY <1>1, <1>2, <1>3
  <1> QED BY <1>1, <1>2, <1>4, <1>5 DEF L

-----------------------------------------------------------------------------
(* Slots *)

Slot(p, label, flags) == pc'[p] = label /\ create'[p] = flags

OthersKept(p) == \A q \in Process : q # p => pc'[q] = pc[q] /\ create'[q] = create[q]

Labels == {"idle", "stat", "open", "write", "list"}

LEMMA GotoSlot ==
    ASSUME TacticTypeOK, NEW p \in Process, NEW l \in Labels, Goto(p, l), UNCHANGED create
    PROVE  /\ pc' \in [Process -> Labels] /\ create' \in [Process -> Flags \cup {NoFlags}]
           /\ Slot(p, l, create[p]) /\ OthersKept(p)
  BY DEF TacticTypeOK, Goto, Slot, OthersKept, Labels

LEMMA EndSlot ==
    ASSUME TacticTypeOK, NEW p \in Process, EndCreate(p)
    PROVE  /\ pc' \in [Process -> Labels] /\ create' \in [Process -> Flags \cup {NoFlags}]
           /\ Slot(p, "idle", NoFlags) /\ OthersKept(p)
  BY DEF TacticTypeOK, EndCreate, Goto, Slot, OthersKept, Labels

Writes(p, n) == pc[p] = "write" /\ create[p].name = n

LEMMA WritersMove ==
    ASSUME NEW p \in Process, OthersKept(p), NEW n
    PROVE  /\ Cardinality(Writers(n)) \in Nat /\ Cardinality(Writers(n)') \in Nat
           /\ Cardinality(Writers(n)') =
                 Cardinality(Writers(n)) + One(Writes(p, n)') - One(Writes(p, n))
  <1> DEFINE S == Writers(n)
             T == {q \in Process : Writes(q, n)'}
  <1>1. \A q \in Process : q # p => (q \in T <=> q \in S)
    BY DEF Writers, Writes, OthersKept
  <1>2. Writers(n)' = T /\ S \subseteq Process /\ T \subseteq Process
    BY DEF Writers, Writes
  <1>3. (p \in S <=> Writes(p, n)) /\ (p \in T <=> Writes(p, n)')
    BY DEF Writers, Writes
  <1>4. One(p \in S) = One(Writes(p, n)) /\ One(p \in T) = One(Writes(p, n)')
    BY <1>3 DEF One
  <1> HIDE DEF S, T
  <1>5. /\ Cardinality(S) \in Nat /\ Cardinality(T) \in Nat
        /\ Cardinality(T) = Cardinality(S) + One(p \in T) - One(p \in S)
    BY <1>1, <1>2, TacticFilesAssumption, MemberMoves
  <1> QED BY <1>2, <1>4, <1>5 DEF S

(* What p does to the file of name n, for the count of creators: a win, a  *)
(* deletion, or a file that comes or goes.                                 *)
There(n) == IF Exists(n) THEN 1 ELSE 0

LEMMA CountMoves ==
    ASSUME TacticTypeOK, CreatorsInv, NEW p \in Process, OthersKept(p), NEW n \in Name,
           NEW w \in Nat, wins'[n] = wins[n] + w, NEW d \in Nat, removals'[n] = removals[n] + d,
           w + One(Writes(p, n)') + There(n) <= One(Writes(p, n)) + d + There(n)'
    PROVE  wins'[n] + Cardinality(Writers(n)') <= removals'[n] + There(n)'
  <1>1. wins[n] + Cardinality(Writers(n)) <= removals[n] + There(n)
    BY DEF CreatorsInv, There
  <1>2. /\ Cardinality(Writers(n)) \in Nat /\ Cardinality(Writers(n)') \in Nat
        /\ Cardinality(Writers(n)') =
              Cardinality(Writers(n)) + One(Writes(p, n)') - One(Writes(p, n))
    BY WritersMove
  <1>3. /\ wins[n] \in Nat /\ removals[n] \in Nat /\ There(n) \in Nat /\ There(n)' \in Nat
        /\ One(Writes(p, n)') \in Nat /\ One(Writes(p, n)) \in Nat
    BY DEF TacticTypeOK, There, One
  <1> HIDE DEF There, One, Writes
  <1> QED BY <1>1, <1>2, <1>3

-----------------------------------------------------------------------------
(* Steps that leave the directory alone *)

LEMMA ListStep ==
    ASSUME TacticTypeOK, NEW p \in Process,
           StartList(p) \/ EndList(p) \/ \E n \in Name : ParseTacticFile(p, n)
    PROVE  /\ listing' \in [Process -> [todo : SUBSET Name, shown : SUBSET Name,
                                        skipped : SUBSET Name, steady : SUBSET Name]]
           /\ pc' \in [Process -> Labels] /\ create' = create
           /\ pc'[p] \in {"list", "idle"} /\ pc[p] \in {"list", "idle"} /\ OthersKept(p)
  <1> DEFINE L == [todo : SUBSET Name, shown : SUBSET Name,
                   skipped : SUBSET Name, steady : SUBSET Name]
  <1>0. listing \in [Process -> L] /\ pc \in [Process -> Labels] /\ NoListing \in L
    BY DEF TacticTypeOK, Labels, NoListing
  <1>1. CASE StartList(p)
    <2> DEFINE l == [NoListing EXCEPT !.todo = {n \in Name : Exists(n)},
                                      !.steady = {n \in Name : Readable(n)}]
    <2>1. l \in L
      BY DEF NoListing
    <2>2. listing' = [listing EXCEPT ![p] = l]
      BY <1>1 DEF StartList
    <2> HIDE DEF l, L
    <2>3. listing' \in [Process -> L]
      BY <1>0, <2>1, <2>2
    <2> QED BY <1>0, <1>1, <2>3 DEF StartList, Goto, Labels, OthersKept, L
  <1>2. CASE EndList(p)
    <2> HIDE DEF L
    <2>1. listing' \in [Process -> L]
      BY <1>0, <1>2 DEF EndList
    <2> QED BY <1>0, <1>2, <2>1 DEF EndList, Goto, Labels, OthersKept, L
  <1>3. ASSUME NEW n \in Name, ParseTacticFile(p, n)
        PROVE  /\ listing' \in [Process -> L]
               /\ pc' = pc /\ create' = create /\ pc[p] = "list"
    <2>1. ASSUME NEW l \in L
          PROVE  /\ [l EXCEPT !.todo = @ \ {n}, !.shown = @ \cup {n}] \in L
                 /\ [l EXCEPT !.todo = @ \ {n}, !.skipped = @ \cup {n}] \in L
      OBVIOUS
    <2> HIDE DEF L
    <2>2. listing' = [listing EXCEPT ![p] = [listing[p] EXCEPT !.todo = @ \ {n}, !.shown = @ \cup {n}]]
          \/ listing' = [listing EXCEPT ![p] = [listing[p] EXCEPT !.todo = @ \ {n}, !.skipped = @ \cup {n}]]
      BY <1>0, <1>3 DEF ParseTacticFile
    <2> QED BY <1>0, <1>3, <2>1, <2>2 DEF ParseTacticFile
  <1> QED BY <1>0, <1>1, <1>2, <1>3 DEF OthersKept, Labels

-----------------------------------------------------------------------------
(* The directory *)

Overwrites(n) ==
    Exists(n) /\ files'[n] # files[n] =>
        \/ removals'[n] = removals[n] + 1
        \/ /\ files[n].lines = <<>>
           /\ files'[n] # NoFile
           /\ files'[n].maker = files[n].maker

DirectoryGood == FilesInv' /\ CreatorsInv' /\ \A n \in Name : Overwrites(n)

SlotTypes ==
    /\ pc' \in [Process -> Labels]
    /\ create' \in [Process -> Flags \cup {NoFlags}]
    /\ listing' \in [Process -> [todo : SUBSET Name, shown : SUBSET Name,
                                 skipped : SUBSET Name, steady : SUBSET Name]]

(* p says "created", for the file it had opened. *)
Wins(p) == pc[p] = "write" /\ wins' = [wins EXCEPT ![create[p].name] = @ + 1]

LEMMA NameOf ==
    ASSUME BusyInv, NEW p \in Process, pc[p] \in {"stat", "open", "write"}
    PROVE  create[p] \in Flags /\ create[p].name \in Name
  BY DEF BusyInv, Name

LEMMA WinTypes ==
    ASSUME FilesInv, NEW p \in Process, wins' = wins \/ Wins(p)
    PROVE  /\ wins' \in [Name -> Nat]
           /\ \A n \in Name : \/ wins'[n] = wins[n] + 0
                              \/ Writes(p, n) /\ wins'[n] = wins[n] + 1
  <1>1. wins \in [Name -> Nat]
    BY DEF FilesInv, TacticTypeOK
  <1>2. CASE Wins(p)
    <2>1. create[p].name \in Name
      BY <1>2, NameOf DEF Wins, FilesInv
    <2> QED BY <1>1, <1>2, <2>1 DEF Wins, Writes
  <1> QED BY <1>1, <1>2

(* A step that touches no file. *)
LEMMA QuietStep ==
    ASSUME FilesInv, CreatorsInv, SlotTypes, NEW p \in Process, OthersKept(p),
           UNCHANGED <<files, torn, removals>>, wins' = wins \/ Wins(p),
           pc'[p] # "write", pc'[p] \in {"stat", "open"} => create'[p] \in Flags
    PROVE  DirectoryGood
  <1>1. TacticTypeOK /\ wins' \in [Name -> Nat]
    BY WinTypes DEF FilesInv
  <1>2. TacticTypeOK'
    BY <1>1 DEF TacticTypeOK, SlotTypes, Labels
  <1>3. BusyInv'
    BY <1>1 DEF FilesInv, BusyInv, OthersKept
  <1>4. EmptyInv'
    BY DEF FilesInv, EmptyInv, StillThere, Exists, OthersKept
  <1>5. NamedInv'
    BY DEF FilesInv, NamedInv, Exists
  <1>6. ASSUME NEW n \in Name
        PROVE  wins'[n] + Cardinality(Writers(n)') <= removals'[n] + There(n)'
    <2>1. There(n)' = There(n) /\ There(n) \in Nat
      BY DEF There, Exists
    <2>2. One(Writes(p, n)') = 0 /\ One(Writes(p, n)) \in Nat
      BY DEF One, Writes
    <2>3. removals'[n] = removals[n] + 0
      BY <1>1 DEF TacticTypeOK
    <2>4. CASE wins'[n] = wins[n] + 0
      <3>1. 0 + One(Writes(p, n)') + There(n) <= One(Writes(p, n)) + 0 + There(n)'
        BY <2>1, <2>2
      <3> QED BY <1>1, <1>6, <2>3, <2>4, <3>1, CountMoves
    <2>5. CASE Writes(p, n) /\ wins'[n] = wins[n] + 1
      <3>1. One(Writes(p, n)) = 1
        BY <2>5 DEF One
      <3>2. 1 + One(Writes(p, n)') + There(n) <= One(Writes(p, n)) + 0 + There(n)'
        BY <2>1, <2>2, <3>1
      <3> QED BY <1>1, <1>6, <2>3, <2>5, <3>2, CountMoves
    <2> QED BY <1>6, <2>4, <2>5, WinTypes
  <1>7. CreatorsInv'
    BY <1>6 DEF CreatorsInv, There
  <1> QED BY <1>2, <1>3, <1>4, <1>5, <1>7 DEF DirectoryGood, FilesInv, Overwrites

(* A step that fills the file p has just made, or makes it. *)
LEMMA PutStep ==
    ASSUME FilesInv, CreatorsInv, SlotTypes, NEW p \in Process, OthersKept(p),
           pc[p] \in {"open", "write"}, NEW lines \in Seq(FileLine),
           Put(create[p].name, File(lines, p)),
           torn' \in SUBSET Name, removals' = removals, wins' = wins \/ Wins(p),
           \/ /\ pc[p] = "open" /\ ~Exists(create[p].name) /\ lines = <<>>
              /\ pc'[p] = "write" /\ create' = create
           \/ /\ pc[p] = "write" /\ StillThere(p) /\ pc'[p] = "idle"
    PROVE  DirectoryGood
  <1> DEFINE n == create[p].name
             file == File(lines, p)
  <1>1. TacticTypeOK /\ wins' \in [Name -> Nat]
    BY WinTypes DEF FilesInv
  <1>2. create[p] \in Flags /\ n \in Name
    BY NameOf DEF FilesInv
  <1>3. /\ file \in TacticFile /\ file # NoFile /\ file.lines = lines
        /\ file.maker = p /\ file.flags = create[p]
    BY <1>1, <1>2, FileType
  <1>4. /\ files' \in [Name -> TacticFile \cup {NoFile}] /\ files'[n] = file
        /\ \A m \in Name : m # n => files'[m] = files[m]
    <2> HIDE DEF file
    <2> QED BY <1>1, <1>2, <1>3, PutType DEF file
  <1> HIDE DEF file
  <1>5. TacticTypeOK'
    BY <1>1, <1>4 DEF TacticTypeOK, SlotTypes, Labels
  <1>6. BusyInv'
    BY <1>2 DEF FilesInv, BusyInv, OthersKept
  <1>7. EmptyInv'
    <2> SUFFICES ASSUME NEW q \in Process, pc'[q] = "write", StillThere(q)'
                 PROVE  files'[create'[q].name].lines = <<>>
      BY DEF EmptyInv
    <2>1. create'[q].name \in Name
      BY <1>6 DEF BusyInv, Name
    <2>2. CASE create'[q].name = n
      <3>1. q = p
        BY <1>3, <1>4, <2>2 DEF StillThere
      <3>2. lines = <<>>
        BY <3>1
      <3> QED BY <1>3, <1>4, <2>2, <3>2
    <2>3. CASE create'[q].name # n
      <3>1. q # p
        BY <2>3
      <3>2. pc[q] = "write" /\ create'[q] = create[q]
        BY <3>1 DEF OthersKept
      <3>3. files'[create[q].name] = files[create[q].name] /\ StillThere(q)
        BY <1>4, <2>1, <2>3, <3>2 DEF StillThere, Exists
      <3> QED BY <3>2, <3>3 DEF FilesInv, EmptyInv
    <2> QED BY <2>2, <2>3
  <1>8. NamedInv'
    BY <1>2, <1>3, <1>4 DEF FilesInv, NamedInv, Exists
  <1>9. ASSUME NEW m \in Name
        PROVE  wins'[m] + Cardinality(Writers(m)') <= removals'[m] + There(m)'
    <2>1. removals'[m] = removals[m] + 0
      BY <1>1 DEF TacticTypeOK
    <2>2. ASSUME NEW w \in {0, 1}, wins'[m] = wins[m] + w, w = 1 => Writes(p, m)
          PROVE  w + One(Writes(p, m)') + There(m) <= One(Writes(p, m)) + 0 + There(m)'
      <3>1. CASE m # n
        BY <1>4, <2>2, <3>1 DEF One, There, Writes, Exists
      <3>2. CASE m = n
        <4>1. Exists(m)'
          BY <1>3, <1>4, <3>2 DEF Exists
        <4>2. CASE pc[p] = "open"
          BY <2>2, <3>2, <4>1, <4>2 DEF One, There, Writes
        <4>3. CASE pc[p] = "write"
          BY <2>2, <3>2, <4>1, <4>3 DEF One, There, Writes
        <4> QED BY <4>2, <4>3
      <3> QED BY <3>1, <3>2
    <2>3. CASE wins'[m] = wins[m] + 0
      <3>1. 0 + One(Writes(p, m)') + There(m) <= One(Writes(p, m)) + 0 + There(m)'
        BY <2>2, <2>3
      <3> QED BY <1>1, <1>9, <2>1, <2>3, <3>1, CountMoves
    <2>4. CASE Writes(p, m) /\ wins'[m] = wins[m] + 1
      <3>1. 1 + One(Writes(p, m)') + There(m) <= One(Writes(p, m)) + 0 + There(m)'
        BY <2>2, <2>4
      <3> QED BY <1>1, <1>9, <2>1, <2>4, <3>1, CountMoves
    <2> QED BY <1>9, <2>3, <2>4, WinTypes
  <1>10. CreatorsInv'
    BY <1>9 DEF CreatorsInv, There
  <1>11. ASSUME NEW m \in Name PROVE Overwrites(m)
    <2>1. CASE m # n
      BY <1>4, <2>1 DEF Overwrites
    <2>2. CASE m = n /\ pc[p] = "open"
      BY <2>2 DEF Overwrites
    <2>3. CASE m = n /\ pc[p] = "write"
      <3>1. StillThere(p) /\ files[n].lines = <<>> /\ files[n].maker = p
        BY <2>3 DEF FilesInv, EmptyInv, StillThere
      <3> QED BY <1>3, <1>4, <2>3, <3>1 DEF Overwrites
    <2> QED BY <2>1, <2>2, <2>3
  <1> QED BY <1>5, <1>6, <1>7, <1>8, <1>10, <1>11 DEF DirectoryGood, FilesInv

LEMMA RemoveStep ==
    ASSUME FilesInv, CreatorsInv, NEW n \in Name, Remove(n)
    PROVE  DirectoryGood
  <1>1. /\ Exists(n) /\ Put(n, NoFile) /\ torn' = torn \ {n}
        /\ removals' = [removals EXCEPT ![n] = @ + 1]
        /\ pc' = pc /\ create' = create /\ wins' = wins /\ TacticTypeOK
    BY DEF Remove, FilesInv
  <1>2. /\ files' \in [Name -> TacticFile \cup {NoFile}] /\ files'[n] = NoFile
        /\ \A m \in Name : m # n => files'[m] = files[m]
        /\ listing' \in [Process -> [todo : SUBSET Name, shown : SUBSET Name,
                                     skipped : SUBSET Name, steady : SUBSET Name]]
    BY <1>1, PutType
  <1>3. /\ removals' \in [Name -> Nat] /\ removals'[n] = removals[n] + 1
        /\ \A m \in Name : m # n => removals'[m] = removals[m]
    BY <1>1 DEF TacticTypeOK
  <1>4. TacticTypeOK'
    BY <1>1, <1>2, <1>3 DEF TacticTypeOK
  <1>5. BusyInv'
    BY <1>1 DEF FilesInv, BusyInv
  <1>6. EmptyInv' /\ NamedInv'
    <2>1. \A m \in Name : Exists(m)' => Exists(m) /\ files'[m] = files[m]
      BY <1>2 DEF Exists
    <2>2. \A q \in Process : pc[q] = "write" => create[q].name \in Name
      BY NameOf DEF FilesInv
    <2> QED BY <1>1, <2>1, <2>2 DEF FilesInv, EmptyInv, NamedInv, StillThere
  <1>7. CreatorsInv'
    <2> SUFFICES ASSUME NEW m \in Name
                 PROVE  wins'[m] + Cardinality(Writers(m)') <= removals'[m] + There(m)'
      BY DEF CreatorsInv, There
    <2>1. wins[m] + Cardinality(Writers(m)) <= removals[m] + There(m)
      BY DEF CreatorsInv, There
    <2>2. Writers(m)' = Writers(m) /\ wins'[m] = wins[m]
      BY <1>1 DEF Writers
    <2>3. removals[m] + There(m) <= removals'[m] + There(m)'
      BY <1>1, <1>2, <1>3 DEF There, Exists, TacticTypeOK
    <2>4. /\ wins[m] \in Nat /\ removals[m] \in Nat /\ removals'[m] \in Nat
          /\ There(m) \in Nat /\ There(m)' \in Nat
      BY <1>1, <1>3 DEF TacticTypeOK, There
    <2>5. Cardinality(Writers(m)) \in Nat
      BY CountIsNat, TacticFilesAssumption DEF Writers
    <2> HIDE DEF There
    <2> QED BY <2>1, <2>2, <2>3, <2>4, <2>5
  <1>8. \A m \in Name : Overwrites(m)
    BY <1>2, <1>3 DEF Overwrites
  <1> QED BY <1>4, <1>5, <1>6, <1>7, <1>8 DEF DirectoryGood, FilesInv

LEMMA CreateSteps ==
    ASSUME FilesInv, CreatorsInv, NEW p \in Process,
           \/ \E flags \in Flags : StartCreate(p, flags)
           \/ Stat(p) \/ Open(p) \/ WriteString(p) \/ Stop(p)
    PROVE  /\ DirectoryGood /\ OthersKept(p) /\ pc'[p] # "list"
           /\ \/ listing' = listing /\ files' = files
              \/ listing' = [listing EXCEPT ![p] = NoListing] /\ files' = files
              \/ \E n \in Name, file \in TacticFile : Put(n, file)
  <1> DEFINE n == create[p].name
             L == [todo : SUBSET Name, shown : SUBSET Name,
                   skipped : SUBSET Name, steady : SUBSET Name]
  <1>0. TacticTypeOK /\ BusyInv /\ listing \in [Process -> L] /\ NoListing \in L
    BY DEF FilesInv, TacticTypeOK, NoListing
  <1>a. listing' = listing \/ listing' = [listing EXCEPT ![p] = NoListing]
           => listing' \in [Process -> L]
    <2> HIDE DEF L
    <2> QED BY <1>0
  <1>b. ASSUME pc[p] \in {"open", "write"}, NEW lines \in Seq(FileLine), Put(n, File(lines, p))
        PROVE  /\ listing' \in [Process -> L]
               /\ \E m \in Name, file \in TacticFile : Put(m, file)
    <2>1. n \in Name /\ File(lines, p) \in TacticFile
      BY <1>0, <1>b, NameOf, FileType
    <2> QED BY <1>0, <1>b, <2>1, PutType
  <1>1. ASSUME NEW flags \in Flags, StartCreate(p, flags)
        PROVE  /\ DirectoryGood /\ OthersKept(p) /\ pc'[p] # "list"
               /\ listing' = listing /\ files' = files
    <2>1. /\ pc' = [pc EXCEPT ![p] = "stat"] /\ create' = [create EXCEPT ![p] = flags]
          /\ UNCHANGED <<directory, listing>>
      BY <1>1 DEF StartCreate, Goto
    <2>2. /\ pc' \in [Process -> Labels] /\ create' \in [Process -> Flags \cup {NoFlags}]
          /\ OthersKept(p) /\ pc'[p] = "stat" /\ create'[p] = flags
      BY <1>0, <2>1 DEF TacticTypeOK, OthersKept, Labels
    <2> QED BY <1>a, <2>1, <2>2, QuietStep DEF SlotTypes, directory
  <1>2. CASE Stat(p)
    <2>1. UNCHANGED <<directory, listing>> /\ pc[p] = "stat"
      BY <1>2 DEF Stat
    <2>2. CASE Goto(p, "open") /\ UNCHANGED create
      <3>1. create[p] \in Flags
        BY <1>0, <2>1, NameOf
      <3> QED BY <1>0, <1>a, <2>1, <2>2, <3>1, GotoSlot, QuietStep
              DEF SlotTypes, directory, Slot, Labels
    <2>3. CASE EndCreate(p)
      BY <1>0, <1>a, <2>1, <2>3, EndSlot, QuietStep DEF SlotTypes, directory, Slot
    <2> QED BY <1>2, <2>2, <2>3 DEF Stat
  <1>3. CASE Open(p)
    <2>1. UNCHANGED <<torn, wins, removals>> /\ pc[p] = "open"
      BY <1>3 DEF Open
    <2>2. CASE Exists(n)
      <3>1. EndCreate(p) /\ UNCHANGED <<files, listing>>
        BY <1>3, <2>2 DEF Open
      <3> QED BY <1>0, <1>a, <2>1, <3>1, EndSlot, QuietStep DEF SlotTypes, Slot
    <2>3. CASE ~Exists(n)
      <3>1. Put(n, File(<<>>, p)) /\ Goto(p, "write") /\ UNCHANGED create
        BY <1>3, <2>3 DEF Open
      <3>2. <<>> \in Seq(FileLine)
        OBVIOUS
      <3>3. torn' \in SUBSET Name
        BY <1>0, <2>1 DEF TacticTypeOK
      <3>4. SlotTypes /\ OthersKept(p) /\ pc'[p] = "write"
        BY <1>0, <1>b, <2>1, <3>1, <3>2, GotoSlot DEF SlotTypes, Slot, Labels
      <3>5. DirectoryGood
        BY <2>1, <2>3, <3>1, <3>2, <3>3, <3>4, PutStep
      <3> QED BY <1>b, <2>1, <3>1, <3>2, <3>4, <3>5
    <2> QED BY <2>2, <2>3
  <1>4. CASE WriteString(p)
    <2>1. /\ EndCreate(p) /\ UNCHANGED <<torn, removals>> /\ pc[p] = "write" /\ Wins(p)
          /\ torn' \in SUBSET Name
      BY <1>0, <1>4 DEF WriteString, Wins, TacticTypeOK
    <2>2. CASE StillThere(p)
      <3>1. Put(n, File(Render(create[p]), p)) /\ Render(create[p]) \in Seq(FileLine)
        BY <1>0, <1>4, <2>1, <2>2, NameOf, RenderType, TacticFilesAssumption DEF WriteString
      <3>2. SlotTypes /\ OthersKept(p) /\ pc'[p] = "idle"
        BY <1>0, <1>b, <2>1, <3>1, EndSlot DEF SlotTypes, Slot
      <3>3. DirectoryGood
        BY <2>1, <2>2, <3>1, <3>2, PutStep
      <3> QED BY <1>b, <2>1, <3>1, <3>2, <3>3
    <2>3. CASE ~StillThere(p)
      <3>1. UNCHANGED <<files, listing>>
        BY <1>4, <2>3 DEF WriteString
      <3> QED BY <1>0, <1>a, <2>1, <3>1, EndSlot, QuietStep DEF SlotTypes, Slot
    <2> QED BY <2>2, <2>3
  <1>5. CASE Stop(p)
    <2>1. EndCreate(p) /\ UNCHANGED <<wins, removals>>
      BY <1>5 DEF Stop
    <2>2. CASE pc[p] = "write" /\ StillThere(p)
      <3>1. PICK k \in 0..(Len(Render(create[p])) - 1) :
                Put(n, File(SubSeq(Render(create[p]), 1, k), p))
        BY <1>5, <2>2 DEF Stop
      <3> DEFINE lines == SubSeq(Render(create[p]), 1, k)
      <3>2. lines \in Seq(FileLine)
        <4>1. Render(create[p]) \in Seq(FileLine)
          BY <1>0, <2>2, NameOf, RenderType, TacticFilesAssumption
        <4>2. ASSUME NEW s \in Seq(FileLine), NEW j \in 0..(Len(s) - 1)
              PROVE  SubSeq(s, 1, j) \in Seq(FileLine)
          OBVIOUS
        <4> QED BY <4>1, <4>2
      <3>3. torn' \in SUBSET Name
        BY <1>0, <1>5, <2>2, NameOf DEF Stop, TacticTypeOK
      <3> HIDE DEF lines
      <3>4. Put(n, File(lines, p))
        BY <3>1 DEF lines
      <3>5. SlotTypes /\ OthersKept(p) /\ pc'[p] = "idle"
        BY <1>0, <1>b, <2>1, <2>2, <3>2, <3>4, EndSlot DEF SlotTypes, Slot
      <3>6. DirectoryGood
        BY <2>1, <2>2, <3>2, <3>3, <3>4, <3>5, PutStep
      <3> QED BY <1>b, <2>2, <3>2, <3>4, <3>5, <3>6
    <2>3. CASE ~(pc[p] = "write" /\ StillThere(p))
      <3>1. listing' = [listing EXCEPT ![p] = NoListing] /\ UNCHANGED <<files, torn>>
        BY <1>5, <2>3 DEF Stop
      <3> QED BY <1>0, <1>a, <2>1, <3>1, EndSlot, QuietStep DEF SlotTypes, Slot
    <2> QED BY <2>2, <2>3
  <1> QED BY <1>1, <1>2, <1>3, <1>4, <1>5

-----------------------------------------------------------------------------
(* Listings *)

LEMMA ListingAfterCreate ==
    ASSUME FilesInv, SteadyInv, NothingFineIsHidden, NEW p \in Process,
           OthersKept(p), pc'[p] # "list",
           \/ listing' = listing /\ files' = files
           \/ listing' = [listing EXCEPT ![p] = NoListing] /\ files' = files
           \/ \E n \in Name, file \in TacticFile : Put(n, file)
    PROVE  SteadyInv' /\ NothingFineIsHidden'
  <1>1. \A q \in Process : pc'[q] = "list" => q # p /\ pc[q] = "list"
    BY DEF OthersKept
  <1>2. listing \in [Process -> [todo : SUBSET Name, shown : SUBSET Name,
                                 skipped : SUBSET Name, steady : SUBSET Name]]
    BY DEF FilesInv, TacticTypeOK
  <1>3. CASE listing' = listing /\ files' = files
    BY <1>1, <1>3 DEF SteadyInv, NothingFineIsHidden, Readable, Exists
  <1>4. CASE listing' = [listing EXCEPT ![p] = NoListing] /\ files' = files
    <2>1. \A q \in Process : listing'[q] = IF q = p THEN NoListing ELSE listing[q]
      BY <1>2, <1>4
    <2>2. NoListing.steady = {}
      BY DEF NoListing
    <2>3. SteadyInv'
      BY <1>4, <2>1, <2>2 DEF SteadyInv, Readable, Exists
    <2>4. NothingFineIsHidden'
      BY <1>1, <2>1 DEF NothingFineIsHidden
    <2> QED BY <2>3, <2>4
  <1>5. ASSUME NEW n \in Name, NEW file \in TacticFile, Put(n, file)
        PROVE  SteadyInv' /\ NothingFineIsHidden'
    <2>1. /\ \A m \in Name : m # n => files'[m] = files[m]
          /\ \A q \in Process : /\ listing'[q].steady = listing[q].steady \ {n}
                                /\ listing'[q].todo = listing[q].todo
                                /\ listing'[q].shown = listing[q].shown
      BY <1>5, PutType DEF FilesInv
    <2>2. SteadyInv'
      BY <2>1 DEF SteadyInv, Readable, Exists
    <2>3. NothingFineIsHidden'
      BY <1>1, <2>1 DEF NothingFineIsHidden
    <2> QED BY <2>2, <2>3
  <1> QED BY <1>3, <1>4, <1>5

LEMMA ListingAfterRemove ==
    ASSUME FilesInv, SteadyInv, NothingFineIsHidden, NEW n \in Name, Remove(n)
    PROVE  SteadyInv' /\ NothingFineIsHidden'
  <1>1. /\ \A m \in Name : m # n => files'[m] = files[m]
        /\ \A q \in Process : /\ listing'[q].steady = listing[q].steady \ {n}
                              /\ listing'[q].todo = listing[q].todo
                              /\ listing'[q].shown = listing[q].shown
    BY PutType DEF FilesInv, Remove
  <1>2. pc' = pc
    BY DEF Remove
  <1>3. SteadyInv'
    BY <1>1 DEF SteadyInv, Readable, Exists
  <1> QED BY <1>1, <1>2, <1>3 DEF NothingFineIsHidden

LEMMA ListingSteps ==
    ASSUME FilesInv, CreatorsInv, SteadyInv, NothingFineIsHidden, NEW p \in Process,
           StartList(p) \/ EndList(p) \/ \E n \in Name : ParseTacticFile(p, n)
    PROVE  DirectoryGood /\ SteadyInv' /\ NothingFineIsHidden'
  <1>1. UNCHANGED directory
    BY DEF StartList, EndList, ParseTacticFile
  <1>2. TacticTypeOK
    BY DEF FilesInv
  <1>3. /\ SlotTypes /\ OthersKept(p) /\ pc'[p] # "write"
        /\ (pc'[p] \in {"stat", "open"} => create'[p] \in Flags)
    BY <1>2, ListStep DEF SlotTypes, TacticTypeOK
  <1>4. DirectoryGood
    BY <1>1, <1>3, QuietStep DEF directory
  <1>5. \A n : Readable(n)' <=> Readable(n)
    BY <1>1 DEF Readable, Exists, directory
  <1>6. ASSUME NEW l, listing' = [listing EXCEPT ![p] = l]
        PROVE  \A q \in Process : listing'[q] = IF q = p THEN l ELSE listing[q]
    BY <1>2, <1>6 DEF TacticTypeOK
  <1>7. CASE StartList(p)
    <2> DEFINE l == [NoListing EXCEPT !.todo = {n \in Name : Exists(n)},
                                      !.steady = {n \in Name : Readable(n)}]
    <2>1. \A q \in Process : listing'[q] = IF q = p THEN l ELSE listing[q]
      BY <1>6, <1>7 DEF StartList
    <2>2. l.todo = {n \in Name : Exists(n)} /\ l.steady = {n \in Name : Readable(n)}
      BY DEF NoListing
    <2> HIDE DEF l
    <2>3. SteadyInv'
      BY <1>5, <2>1, <2>2 DEF SteadyInv
    <2>4. l.steady \subseteq l.todo
      BY <2>2 DEF Readable
    <2>5. NothingFineIsHidden'
      BY <1>3, <2>1, <2>4 DEF NothingFineIsHidden, OthersKept
    <2> QED BY <1>4, <2>3, <2>5
  <1>8. CASE EndList(p)
    <2>1. \A q \in Process : listing'[q] = IF q = p THEN NoListing ELSE listing[q]
      BY <1>6, <1>8 DEF EndList
    <2>2. NoListing.steady = {} /\ pc'[p] = "idle"
      BY <1>2, <1>8 DEF NoListing, EndList, Goto, TacticTypeOK
    <2>3. SteadyInv'
      BY <1>5, <2>1, <2>2 DEF SteadyInv
    <2>4. NothingFineIsHidden'
      BY <1>3, <2>1, <2>2 DEF NothingFineIsHidden, OthersKept
    <2> QED BY <1>4, <2>3, <2>4
  <1>9. ASSUME NEW n \in Name, ParseTacticFile(p, n)
        PROVE  SteadyInv' /\ NothingFineIsHidden'
    <2>1. listing[p] \in [todo : SUBSET Name, shown : SUBSET Name,
                          skipped : SUBSET Name, steady : SUBSET Name]
      BY <1>2 DEF TacticTypeOK
    <2>2. PICK l : /\ listing' = [listing EXCEPT ![p] = l] /\ l.steady = listing[p].steady
                   /\ l.todo = listing[p].todo \ {n}
                   /\ l.shown = IF Readable(n) THEN listing[p].shown \cup {n} ELSE listing[p].shown
      <3>1. CASE Readable(n)
        <4>1. listing' = [listing EXCEPT ![p] =
                            [listing[p] EXCEPT !.todo = @ \ {n}, !.shown = @ \cup {n}]]
          BY <1>2, <1>9, <3>1 DEF ParseTacticFile, TacticTypeOK
        <4>2. ASSUME NEW x \in [todo : SUBSET Name, shown : SUBSET Name,
                                skipped : SUBSET Name, steady : SUBSET Name]
              PROVE  LET y == [x EXCEPT !.todo = @ \ {n}, !.shown = @ \cup {n}]
                     IN  /\ y.steady = x.steady /\ y.todo = x.todo \ {n}
                         /\ y.shown = x.shown \cup {n}
          OBVIOUS
        <4> DEFINE y == [listing[p] EXCEPT !.todo = @ \ {n}, !.shown = @ \cup {n}]
        <4>3. /\ y.steady = listing[p].steady /\ y.todo = listing[p].todo \ {n}
              /\ y.shown = listing[p].shown \cup {n}
          BY <2>1, <4>2
        <4> HIDE DEF y
        <4>4. listing' = [listing EXCEPT ![p] = y]
          BY <4>1 DEF y
        <4> QED BY <3>1, <4>3, <4>4
      <3>2. CASE ~Readable(n)
        <4>1. listing' = [listing EXCEPT ![p] =
                            [listing[p] EXCEPT !.todo = @ \ {n}, !.skipped = @ \cup {n}]]
          BY <1>2, <1>9, <3>2 DEF ParseTacticFile, TacticTypeOK
        <4>2. ASSUME NEW x \in [todo : SUBSET Name, shown : SUBSET Name,
                                skipped : SUBSET Name, steady : SUBSET Name]
              PROVE  LET y == [x EXCEPT !.todo = @ \ {n}, !.skipped = @ \cup {n}]
                     IN  /\ y.steady = x.steady /\ y.todo = x.todo \ {n}
                         /\ y.shown = x.shown
          OBVIOUS
        <4> DEFINE y == [listing[p] EXCEPT !.todo = @ \ {n}, !.skipped = @ \cup {n}]
        <4>3. /\ y.steady = listing[p].steady /\ y.todo = listing[p].todo \ {n}
              /\ y.shown = listing[p].shown
          BY <2>1, <4>2
        <4> HIDE DEF y
        <4>4. listing' = [listing EXCEPT ![p] = y]
          BY <4>1 DEF y
        <4> QED BY <3>2, <4>3, <4>4
      <3> QED BY <3>1, <3>2
    <2>3. \A q \in Process : listing'[q] = IF q = p THEN l ELSE listing[q]
      BY <1>6, <2>2
    <2>4. SteadyInv'
      BY <1>5, <2>2, <2>3 DEF SteadyInv
    <2>5. pc' = pc /\ (n \in listing[p].steady => Readable(n))
      BY <1>9 DEF ParseTacticFile, SteadyInv
    <2>6. NothingFineIsHidden'
      BY <2>2, <2>3, <2>5 DEF NothingFineIsHidden
    <2> QED BY <2>4, <2>6
  <1> QED BY <1>4, <1>7, <1>8, <1>9

-----------------------------------------------------------------------------
TacticInv == FilesInv /\ CreatorsInv /\ SteadyInv /\ NothingFineIsHidden

LEMMA TacticInvInit == TacticInit => TacticInv
  <1> SUFFICES ASSUME TacticInit PROVE TacticInv
    OBVIOUS
  <1>1. TacticTypeOK /\ BusyInv /\ EmptyInv /\ NamedInv
    BY DEF TacticInit, TacticTypeOK, BusyInv, EmptyInv, NamedInv, NoListing, Exists
  <1>2. SteadyInv /\ NothingFineIsHidden
    BY DEF TacticInit, SteadyInv, NothingFineIsHidden, NoListing
  <1>3. CreatorsInv
    <2>1. \A n : Writers(n) = {}
      BY DEF TacticInit, Writers
    <2> QED BY <2>1, FS_EmptySet DEF TacticInit, CreatorsInv, Exists
  <1> QED BY <1>1, <1>2, <1>3 DEF TacticInv, FilesInv

LEMMA TacticInvStep ==
    ASSUME TacticInv, [TacticNext]_tacticVars
    PROVE  TacticInv' /\ \A n \in Name : Overwrites(n)
  <1> USE DEF TacticInv, DirectoryGood
  <1>1. ASSUME NEW p \in Process,
               \/ \E flags \in Flags : StartCreate(p, flags)
               \/ Stat(p) \/ Open(p) \/ WriteString(p) \/ Stop(p)
        PROVE  TacticInv' /\ \A n \in Name : Overwrites(n)
    BY <1>1, CreateSteps, ListingAfterCreate
  <1>2. ASSUME NEW p \in Process,
               StartList(p) \/ EndList(p) \/ \E n \in Name : ParseTacticFile(p, n)
        PROVE  TacticInv' /\ \A n \in Name : Overwrites(n)
    BY <1>2, ListingSteps
  <1>3. ASSUME NEW n \in Name, Remove(n)
        PROVE  TacticInv' /\ \A m \in Name : Overwrites(m)
    BY <1>3, RemoveStep, ListingAfterRemove
  <1>4. CASE UNCHANGED tacticVars
    <2>1. UNCHANGED <<files, pc, create, listing, torn, wins, removals>>
      BY <1>4 DEF tacticVars
    <2>2. FilesInv'
      BY <2>1 DEF FilesInv, TacticTypeOK, BusyInv, EmptyInv, NamedInv, StillThere, Exists
    <2>3. CreatorsInv' /\ SteadyInv' /\ NothingFineIsHidden'
      BY <2>1 DEF CreatorsInv, Writers, SteadyInv, NothingFineIsHidden, Readable, Exists
    <2>4. \A n \in Name : Overwrites(n)
      BY <2>1 DEF Overwrites
    <2> QED BY <2>2, <2>3, <2>4
  <1> QED BY <1>1, <1>2, <1>3, <1>4 DEF TacticNext

LEMMA TacticInvAlways == TacticSpec => []TacticInv
  BY TacticInvInit, TacticInvStep, PTL DEF TacticSpec

(* Whatever processes race for a name, and whatever texts they were given, *)
(* one of them says "created", and another only after the file was deleted *)
(* (tactic.go:275-311).                                                    *)
THEOREM OneCreatorWins == TacticSpec => []OneCreator
  <1>1. TacticInv => OneCreator
    <2> SUFFICES ASSUME TacticInv, NEW n \in Name PROVE wins[n] <= removals[n] + 1
      BY DEF OneCreator
    <2>1. wins[n] + Cardinality(Writers(n)) <= removals[n] + IF Exists(n) THEN 1 ELSE 0
      BY DEF TacticInv, CreatorsInv
    <2>2. Cardinality(Writers(n)) \in Nat
      BY CountIsNat, TacticFilesAssumption DEF Writers
    <2>3. wins[n] \in Nat /\ removals[n] \in Nat
      BY DEF TacticInv, FilesInv, TacticTypeOK
    <2> QED BY <2>1, <2>2, <2>3
  <1> QED BY <1>1, TacticInvAlways, PTL

(* A file with content keeps it until somebody deletes it; an empty one is *)
(* filled only by its own creator (tactic.go:275, 295-307).                *)
THEOREM FilesAreKept == TacticSpec => NothingIsOverwritten
  <1> DEFINE A == \A n \in Name : Overwrites(n)
  <1>1. NothingIsOverwritten <=> [][A]_tacticVars
    BY DEF NothingIsOverwritten, Overwrites
  <1>2. TacticInv /\ [TacticNext]_tacticVars => A
    BY TacticInvStep
  <1> HIDE DEF A
  <1> QED BY <1>1, <1>2, TacticInvAlways, PTL DEF TacticSpec

(* A listing shows every file that could be read all the time it ran,      *)
(* whatever is created, torn or deleted meanwhile (tactic.go:313-354).     *)
THEOREM ListingsAreComplete == TacticSpec => []NothingFineIsHidden
  <1>1. TacticInv => NothingFineIsHidden
    BY DEF TacticInv
  <1> QED BY <1>1, TacticInvAlways, PTL

-----------------------------------------------------------------------------
(* What is stored is read back *)

(* The header that Tactic.render writes for flags of one line each. *)
Headed(s, n, c, h, tools) ==
    /\ s[1] = Delimiter /\ s[6] = Delimiter
    /\ s[2] = Line("name", n) /\ s[3] = Line("capability", c)
    /\ s[4] = Line("harness", h) /\ s[5] = Line("tools", tools)

LEMMA HeadedIsRead ==
    ASSUME NEW s \in Seq(FileLine), Len(s) >= 6, NEW n \in Word, NEW c \in Word, NEW h \in Word,
           NEW tools \in Seq(Word) \ {<<>>}, Headed(s, n, c, h, tools)
    PROVE  ParseTactic(s) = Fields(n, c, h, tools)
  <1>1. /\ s[1] = Delimiter /\ s[6] = Delimiter
        /\ s[2].key = "name" /\ s[2].value = n
        /\ s[3].key = "capability" /\ s[3].value = c
        /\ s[4].key = "harness" /\ s[4].value = h
        /\ s[5].key = "tools" /\ s[5].value = tools
        /\ Delimiter.key = "---" /\ Len(s) \in Nat
    BY DEF Headed, Line, Delimiter
  <1>2. \A j \in 2..5 : s[j] # Delimiter
    <2>1. \A j \in 2..5 : j = 2 \/ j = 3 \/ j = 4 \/ j = 5
      OBVIOUS
    <2> QED BY <1>1, <2>1
  <1>3. Closing(s) = 6
    <2> DEFINE P(i) == s[i] = Delimiter /\ \A j \in 2..(i - 1) : s[j] # Delimiter
    <2>1. 6 \in 2..Len(s) /\ P(6)
      BY <1>1, <1>2
    <2>2. ASSUME NEW i \in 2..Len(s), P(i) PROVE i = 6
      <3>1. ~(i < 6)
        BY <1>2, <2>2
      <3>2. ~(i > 6)
        <4>1. i > 6 => 6 \in 2..(i - 1)
          OBVIOUS
        <4> QED BY <1>1, <2>2, <4>1
      <3> QED BY <3>1, <3>2
    <2>3. (CHOOSE i \in 2..Len(s) : P(i)) = 6
      <3> HIDE DEF P
      <3> QED BY <2>1, <2>2
    <2> QED BY <2>3 DEF Closing
  <1>4. Header(s) = {2, 3, 4, 5}
    BY <1>3 DEF Header
  <1>5. /\ With(s, "name") = {2} /\ With(s, "capability") = {3}
        /\ With(s, "harness") = {4} /\ With(s, "tools") = {5}
    BY <1>1, <1>4 DEF With
  <1>6. ASSUME NEW key, NEW i \in Nat, With(s, key) = {i} PROVE Value(s, key) = s[i].value
    <2>1. (CHOOSE m \in With(s, key) : \A j \in With(s, key) : j <= m) = i
      BY <1>6
    <2> QED BY <2>1 DEF Value
  <1>7. /\ Value(s, "name") = n /\ Value(s, "capability") = c
        /\ Value(s, "harness") = h /\ Value(s, "tools") = tools
    BY <1>1, <1>5, <1>6
  <1>8. n # Blank /\ c # Blank /\ h # Blank /\ IsToolsList(tools)
    BY TacticFormatAssumption DEF IsToolsList
  <1>9. Delimited(s)
    <2>1. s # <<>> /\ 6 \in 2..Len(s)
      BY <1>1
    <2> QED BY <1>1, <2>1 DEF Delimited
  <1>10. WellFormed(s)
    BY <1>1, <1>4, <1>8 DEF WellFormed
  <1>11. Complete(s)
    BY <1>5, <1>7, <1>8 DEF Complete, Scalars
  <1> QED BY <1>7, <1>9, <1>10, <1>11 DEF ParseTactic

LEMMA UnclosedIsUnreadable ==
    ASSUME NEW s \in Seq(FileLine), \A i \in 2..Len(s) : s[i] # Delimiter
    PROVE  ParseTactic(s) = Unreadable
  BY DEF ParseTactic, Delimited

LEMMA AppendLine ==
    ASSUME NEW u \in Seq(FileLine), NEW x \in FileLine
    PROVE  /\ u \o <<x>> \in Seq(FileLine) /\ Len(u \o <<x>>) = Len(u) + 1
           /\ (u \o <<x>>)[Len(u) + 1] = x
           /\ \A i \in 1..Len(u) : (u \o <<x>>)[i] = u[i]
  OBVIOUS

(* Render's lines, in their order, when there is nothing but one line for  *)
(* each flag.                                                              *)
LEMMA RenderedLines ==
    ASSUME NEW flags \in CreateFlags, AllStorable(flags)
    PROVE  /\ Len(Render(flags)) = 7
           /\ Headed(Render(flags), flags.name.word, flags.capability.word,
                     flags.harness.word, flags.tools.entries)
  <1> DEFINE n == Line("name", flags.name.word)
             c == Line("capability", flags.capability.word)
             h == Line("harness", flags.harness.word)
             t == Line("tools", flags.tools.entries)
             s1 == <<Delimiter>>
             s2 == s1 \o <<n>>
             s3 == s2 \o <<c>>
             s4 == s3 \o <<h>>
             s5 == s4 \o <<t>>
             s6 == s5 \o <<Delimiter, Malformed>>
  <1>1. /\ RenderField("name", flags.name) = <<n>>
        /\ RenderField("capability", flags.capability) = <<c>>
        /\ RenderField("harness", flags.harness) = <<h>>
    <2>1. /\ flags.name.rest = <<>> /\ flags.capability.rest = <<>> /\ flags.harness.rest = <<>>
      BY DEF AllStorable, Storable, Scalars
    <2>2. ASSUME NEW x PROVE <<x>> \o <<>> = <<x>>
      OBVIOUS
    <2> QED BY <2>1, <2>2 DEF RenderField
  <1>2. ToolsLine(flags.tools) = t /\ flags.tools.rest = <<>>
    BY DEF AllStorable, ToolsLine
  <1>3. /\ n \in FileLine /\ c \in FileLine /\ h \in FileLine /\ t \in FileLine
        /\ Delimiter \in FileLine /\ Malformed \in FileLine
    <2>1. /\ flags.name.word \in Scalar /\ flags.capability.word \in Scalar
          /\ flags.harness.word \in Scalar /\ flags.tools.entries \in Seq(Scalar)
      BY DEF CreateFlags, FieldText
    <2> QED BY <2>1, LineType DEF Delimiter, Malformed, Key, Scalars, Scalar
  <1>4. Render(flags) = s5 \o <<>> \o <<Delimiter, Malformed>>
    BY <1>1, <1>2 DEF Render
  <1> HIDE DEF n, c, h, t
  <1>5. s1 \in Seq(FileLine) /\ Len(s1) = 1 /\ s1[1] = Delimiter
    BY <1>3
  <1> HIDE DEF s1
  <1>6. /\ s2 \in Seq(FileLine) /\ Len(s2) = 2
        /\ s2[1] = Delimiter /\ s2[2] = n
    <2>1. /\ s2 \in Seq(FileLine) /\ Len(s2) = Len(s1) + 1 /\ s2[Len(s1) + 1] = n
          /\ \A i \in 1..Len(s1) : s2[i] = s1[i]
      BY <1>3, <1>5, AppendLine, Zenon
    <2> HIDE DEF s2
    <2> QED BY <1>5, <2>1
  <1> HIDE DEF s2
  <1>7. /\ s3 \in Seq(FileLine) /\ Len(s3) = 3
        /\ s3[1] = Delimiter /\ s3[2] = n /\ s3[3] = c
    <2>1. /\ s3 \in Seq(FileLine) /\ Len(s3) = Len(s2) + 1 /\ s3[Len(s2) + 1] = c
          /\ \A i \in 1..Len(s2) : s3[i] = s2[i]
      BY <1>3, <1>6, AppendLine, Zenon
    <2> HIDE DEF s3
    <2> QED BY <1>6, <2>1
  <1> HIDE DEF s3
  <1>8. /\ s4 \in Seq(FileLine) /\ Len(s4) = 4
        /\ s4[1] = Delimiter /\ s4[2] = n /\ s4[3] = c /\ s4[4] = h
    <2>1. /\ s4 \in Seq(FileLine) /\ Len(s4) = Len(s3) + 1 /\ s4[Len(s3) + 1] = h
          /\ \A i \in 1..Len(s3) : s4[i] = s3[i]
      BY <1>3, <1>7, AppendLine, Zenon
    <2> HIDE DEF s4
    <2> QED BY <1>7, <2>1
  <1> HIDE DEF s4
  <1>9. /\ s5 \in Seq(FileLine) /\ Len(s5) = 5
        /\ s5[1] = Delimiter /\ s5[2] = n /\ s5[3] = c /\ s5[4] = h /\ s5[5] = t
    <2>1. /\ s5 \in Seq(FileLine) /\ Len(s5) = Len(s4) + 1 /\ s5[Len(s4) + 1] = t
          /\ \A i \in 1..Len(s4) : s5[i] = s4[i]
      BY <1>3, <1>8, AppendLine, Zenon
    <2> HIDE DEF s5
    <2> QED BY <1>8, <2>1
  <1> HIDE DEF s5
  <1>10. s5 \o <<>> = s5
    BY <1>9
  <1>11. /\ Len(s6) = 7 /\ s6[1] = Delimiter /\ s6[2] = n /\ s6[3] = c
         /\ s6[4] = h /\ s6[5] = t /\ s6[6] = Delimiter
    <2>1. ASSUME NEW u \in Seq(FileLine), NEW v \in Seq(FileLine), Len(u) = 5, Len(v) = 2
          PROVE  /\ Len(u \o v) = 7 /\ (u \o v)[6] = v[1]
                 /\ \A i \in 1..5 : (u \o v)[i] = u[i]
      <3>1. Len(u \o v) = Len(u) + Len(v)
        OBVIOUS
      <3>2. \A i \in 1..Len(u) : (u \o v)[i] = u[i]
        OBVIOUS
      <3>3. \A i \in (Len(u) + 1)..(Len(u) + Len(v)) : (u \o v)[i] = v[i - Len(u)]
        OBVIOUS
      <3>4. 6 \in (Len(u) + 1)..(Len(u) + Len(v)) /\ 6 - Len(u) = 1
        BY <2>1
      <3> QED BY <2>1, <3>1, <3>2, <3>3, <3>4
    <2>2. /\ <<Delimiter, Malformed>> \in Seq(FileLine) /\ Len(<<Delimiter, Malformed>>) = 2
          /\ <<Delimiter, Malformed>>[1] = Delimiter
      BY <1>3
    <2>3. Len(s6) = 7 /\ s6[6] = Delimiter /\ \A i \in 1..5 : s6[i] = s5[i]
      BY <1>9, <2>1, <2>2, Zenon
    <2> HIDE DEF s6
    <2> QED BY <1>9, <2>3
  <1>12. Render(flags) = s6
    BY <1>4, <1>10
  <1> QED BY <1>11, <1>12 DEF Headed, n, c, h, t

LEMMA HeadedIsAsked ==
    ASSUME NEW s \in Seq(FileLine), Len(s) >= 6, NEW flags \in CreateFlags, AllStorable(flags),
           Headed(s, flags.name.word, flags.capability.word, flags.harness.word,
                  flags.tools.entries)
    PROVE  ParseTactic(s) = Asked(flags)
  <1> DEFINE n == flags.name.word
             c == flags.capability.word
             h == flags.harness.word
             t == flags.tools.entries
  <1>1. n \in Word /\ c \in Word /\ h \in Word /\ t \in Seq(Word) \ {<<>>}
    <2>1. n \in Word /\ c \in Word /\ h \in Word
      BY DEF AllStorable, Storable, Scalars, CreateFlags, FieldText, Scalar
    <2>2. /\ t \in Seq(Scalar) /\ t # <<>>
          /\ \A i \in DOMAIN t : t[i] # Blank
      BY DEF AllStorable, Accepted, CreateFlags
    <2> HIDE DEF t
    <2>3. \A i \in 1..Len(t) : t[i] \in Word
      BY <2>2 DEF Scalar
    <2>4. t \in Seq(Word)
      BY <2>2, <2>3
    <2> QED BY <2>1, <2>2, <2>4
  <1>2. Asked(flags) = Fields(n, c, h, t)
    BY DEF Asked
  <1>3. Headed(s, n, c, h, t)
    OBVIOUS
  <1> HIDE DEF n, c, h, t
  <1>4. ParseTactic(s) = Fields(n, c, h, t)
    BY <1>1, <1>3, HeadedIsRead
  <1> QED BY <1>2, <1>4

(* What the writer wrote, all of it or the first k lines, is read as what  *)
(* was asked for or, below 6 lines, not at all.                            *)
LEMMA PrefixIsRead ==
    ASSUME NEW flags \in CreateFlags, AllStorable(flags)
    PROVE  /\ ParseTactic(Render(flags)) = Asked(flags)
           /\ \A k \in 0..(Len(Render(flags)) - 1) :
                 ParseTactic(SubSeq(Render(flags), 1, k)) \in {Asked(flags), Unreadable}
  <1> DEFINE r == Render(flags)
  <1>1. /\ r \in Seq(FileLine) /\ Len(r) = 7
        /\ Headed(r, flags.name.word, flags.capability.word,
                  flags.harness.word, flags.tools.entries)
    BY RenderType, RenderedLines
  <1>2. r[1] = Delimiter /\ \A j \in 2..5 : r[j] # Delimiter
    <2>1. \A j \in 2..5 : j = 2 \/ j = 3 \/ j = 4 \/ j = 5
      OBVIOUS
    <2> HIDE DEF r
    <2> QED BY <1>1, <2>1 DEF Headed, Line, Delimiter
  <1> HIDE DEF r
  <1>3. ParseTactic(r) = Asked(flags)
    <2>1. Len(r) >= 6
      BY <1>1
    <2> QED BY <1>1, <2>1, HeadedIsAsked, Zenon
  <1>4. ASSUME NEW k \in 0..6
        PROVE  ParseTactic(SubSeq(r, 1, k)) \in {Asked(flags), Unreadable}
    <2> DEFINE s == SubSeq(r, 1, k)
    <2>1. s \in Seq(FileLine) /\ Len(s) = k /\ \A i \in 1..k : s[i] = r[i]
      <3>1. ASSUME NEW u \in Seq(FileLine), NEW j \in 0..Len(u)
            PROVE  /\ SubSeq(u, 1, j) \in Seq(FileLine) /\ Len(SubSeq(u, 1, j)) = j
                   /\ \A i \in 1..j : SubSeq(u, 1, j)[i] = u[i]
        OBVIOUS
      <3>2. k \in 0..Len(r)
        BY <1>1
      <3> QED BY <1>1, <3>1, <3>2
    <2> HIDE DEF s
    <2>2. CASE k = 6
      <3>1. Headed(s, flags.name.word, flags.capability.word,
                   flags.harness.word, flags.tools.entries)
        BY <1>1, <2>1, <2>2 DEF Headed
      <3>2. ParseTactic(s) = Asked(flags)
        <4>1. Len(s) >= 6
          BY <2>1, <2>2
        <4> QED BY <2>1, <3>1, <4>1, HeadedIsAsked, Zenon
      <3> QED BY <3>2 DEF s
    <2>3. CASE k < 6
      <3>1. \A i \in 2..Len(s) : s[i] # Delimiter
        BY <1>2, <2>1, <2>3
      <3>2. ParseTactic(s) = Unreadable
        BY <2>1, <3>1, UnclosedIsUnreadable
      <3> QED BY <3>2 DEF s
    <2> QED BY <2>2, <2>3
  <1> QED BY <1>1, <1>3, <1>4 DEF r

(* n's creator is at work on it. *)
Writing(n) == \E p \in Process : pc[p] = "write" /\ create[p].name = n /\ files[n].maker = p

ReadAt(n) ==
    Exists(n) /\ AllStorable(files[n].flags) =>
        \/ ParseTactic(files[n].lines) = Asked(files[n].flags)
        \/ ParseTactic(files[n].lines) = Unreadable /\ (Writing(n) \/ n \in torn)

LEMMA ReadEverywhere == ReadBack <=> \A n \in Name : ReadAt(n)
  BY DEF ReadBack, ReadAt, Writing

LEMMA ReadStays ==
    ASSUME NEW n, ReadAt(n), files'[n] = files[n], n \in torn => n \in torn',
           Exists(n) /\ Writing(n) => Writing(n)'
    PROVE  ReadAt(n)'
  BY DEF ReadAt, Exists

LEMMA ReadAfterQuiet ==
    ASSUME ReadBack, NEW p \in Process, OthersKept(p), files' = files, torn' = torn,
           ~(pc[p] = "write" /\ StillThere(p))
    PROVE  ReadBack'
  <1> SUFFICES ASSUME NEW n \in Name PROVE ReadAt(n)'
    BY ReadEverywhere DEF ReadBack, ReadAt, Writing
  <1>1. ReadAt(n)
    BY ReadEverywhere
  <1>2. Exists(n) /\ Writing(n) => Writing(n)'
    BY DEF Writing, StillThere, OthersKept
  <1> QED BY <1>1, <1>2, ReadStays

LEMMA ReadAfterPut ==
    ASSUME FilesInv, ReadBack, NEW p \in Process, OthersKept(p), pc[p] \in {"open", "write"},
           NEW lines \in Seq(FileLine), Put(create[p].name, File(lines, p)),
           \A m \in torn : m \in torn',
           AllStorable(create[p]) =>
               \/ ParseTactic(lines) = Asked(create[p])
               \/ /\ ParseTactic(lines) = Unreadable
                  /\ \/ create[p].name \in torn'
                     \/ pc'[p] = "write" /\ create'[p] = create[p]
    PROVE  ReadBack'
  <1> DEFINE file == File(lines, p)
  <1>0. TacticTypeOK /\ create[p] \in Flags /\ create[p].name \in Name
    BY NameOf DEF FilesInv
  <1>1. PICK n \in Name : n = create[p].name
    BY <1>0
  <1>2. /\ file \in TacticFile /\ file.lines = lines
        /\ file.maker = p /\ file.flags = create[p]
    BY <1>0, FileType
  <1> HIDE DEF file
  <1>3. files'[n] = file /\ \A m \in Name : m # n => files'[m] = files[m]
    BY <1>0, <1>1, <1>2, PutType DEF file
  <1>4. ASSUME NEW m \in Name, m # n PROVE ReadAt(m)'
    <2>1. ReadAt(m)
      BY ReadEverywhere
    <2>2. Writing(m) => Writing(m)'
      BY <1>1, <1>3, <1>4 DEF Writing, OthersKept
    <2> QED BY <1>3, <1>4, <2>1, <2>2, ReadStays
  <1>5. ReadAt(n)'
    <2>1. files'[n].lines = lines /\ files'[n].flags = create[p] /\ files'[n].maker = p
      BY <1>2, <1>3
    <2>2. (pc'[p] = "write" /\ create'[p] = create[p]) => Writing(n)'
      BY <1>1, <2>1 DEF Writing
    <2>3. AllStorable(create[p]) =>
              \/ ParseTactic(lines) = Asked(create[p])
              \/ ParseTactic(lines) = Unreadable /\ (Writing(n)' \/ n \in torn')
      BY <1>1, <2>2
    <2> QED BY <2>1, <2>3 DEF ReadAt
  <1>6. \A m \in Name : ReadAt(m)'
    BY <1>4, <1>5
  <1> QED BY <1>6 DEF ReadBack, ReadAt, Writing

LEMMA EmptyIsUnreadable == ParseTactic(<<>>) = Unreadable
  BY DEF ParseTactic, Delimited

LEMMA ReadAfterCreate ==
    ASSUME FilesInv, ReadBack, NEW p \in Process, OthersKept(p),
           \/ \E flags \in Flags : StartCreate(p, flags)
           \/ Stat(p) \/ Open(p) \/ WriteString(p) \/ Stop(p)
    PROVE  ReadBack'
  <1> DEFINE n == create[p].name
  <1>1. CASE (\E flags \in Flags : StartCreate(p, flags)) \/ Stat(p)
    <2>1. files' = files /\ torn' = torn /\ pc[p] # "write"
      BY <1>1 DEF StartCreate, Stat, directory
    <2> QED BY <2>1, ReadAfterQuiet
  <1>2. CASE Open(p)
    <2>1. torn' = torn /\ pc[p] = "open" /\ pc \in [Process -> Labels]
      BY <1>2 DEF Open, FilesInv, TacticTypeOK, Labels
    <2>2. CASE Exists(n)
      BY <1>2, <2>1, <2>2, ReadAfterQuiet DEF Open
    <2>3. CASE ~Exists(n)
      <3>1. Put(n, File(<<>>, p)) /\ Goto(p, "write") /\ create' = create
        BY <1>2, <2>3 DEF Open
      <3>2. pc'[p] = "write" /\ create'[p] = create[p] /\ <<>> \in Seq(FileLine)
        BY <2>1, <3>1 DEF Goto
      <3> QED BY <2>1, <3>1, <3>2, EmptyIsUnreadable, ReadAfterPut
    <2> QED BY <2>2, <2>3
  <1>3. ASSUME pc[p] = "write"
        PROVE  create[p] \in CreateFlags /\ n \in Name /\ Render(create[p]) \in Seq(FileLine)
    BY <1>3, NameOf, RenderType, TacticFilesAssumption DEF FilesInv
  <1>4. CASE WriteString(p)
    <2>1. torn' = torn /\ pc[p] = "write"
      BY <1>4 DEF WriteString
    <2>2. CASE StillThere(p)
      <3>1. Put(n, File(Render(create[p]), p))
        BY <1>4, <2>2 DEF WriteString
      <3>2. AllStorable(create[p]) => ParseTactic(Render(create[p])) = Asked(create[p])
        BY <1>3, <2>1, PrefixIsRead
      <3> QED BY <1>3, <2>1, <3>1, <3>2, ReadAfterPut
    <2>3. CASE ~StillThere(p)
      BY <1>4, <2>1, <2>3, ReadAfterQuiet DEF WriteString
    <2> QED BY <2>2, <2>3
  <1>5. CASE Stop(p)
    <2>1. CASE pc[p] = "write" /\ StillThere(p)
      <3>1. /\ torn' = torn \cup {n}
            /\ \E k \in 0..(Len(Render(create[p])) - 1) :
                   Put(n, File(SubSeq(Render(create[p]), 1, k), p))
        BY <1>5, <2>1 DEF Stop
      <3>2. PICK k \in 0..(Len(Render(create[p])) - 1) :
                Put(n, File(SubSeq(Render(create[p]), 1, k), p))
        BY <3>1
      <3> DEFINE lines == SubSeq(Render(create[p]), 1, k)
      <3>3. lines \in Seq(FileLine)
        <4>1. ASSUME NEW s \in Seq(FileLine), NEW j \in 0..(Len(s) - 1)
              PROVE  SubSeq(s, 1, j) \in Seq(FileLine)
          OBVIOUS
        <4> QED BY <1>3, <2>1, <4>1
      <3>4. AllStorable(create[p]) => ParseTactic(lines) \in {Asked(create[p]), Unreadable}
        BY <1>3, <2>1, PrefixIsRead
      <3>5. Put(n, File(lines, p))
        BY <3>2
      <3> HIDE DEF lines
      <3> QED BY <2>1, <3>1, <3>3, <3>4, <3>5, ReadAfterPut
    <2>2. CASE ~(pc[p] = "write" /\ StillThere(p))
      <3>1. files' = files /\ torn' = torn
        BY <1>5, <2>2 DEF Stop
      <3> QED BY <2>2, <3>1, ReadAfterQuiet
    <2> QED BY <2>1, <2>2
  <1> QED BY <1>1, <1>2, <1>4, <1>5

LEMMA ReadAfterRemove ==
    ASSUME FilesInv, ReadBack, NEW n \in Name, Remove(n)
    PROVE  ReadBack'
  <1>1. /\ Put(n, NoFile) /\ torn' = torn \ {n} /\ pc' = pc /\ create' = create /\ TacticTypeOK
    BY DEF Remove, FilesInv
  <1>2. files'[n] = NoFile /\ \A m \in Name : m # n => files'[m] = files[m]
    BY <1>1, PutType
  <1>3. ASSUME NEW m \in Name PROVE ReadAt(m)'
    <2>1. CASE m = n
      BY <1>2, <2>1 DEF ReadAt, Exists
    <2>2. CASE m # n
      <3>1. ReadAt(m) /\ files'[m] = files[m] /\ (m \in torn => m \in torn')
        BY <1>1, <1>2, <2>2, ReadEverywhere
      <3>2. Writing(m) => Writing(m)'
        BY <1>1, <3>1 DEF Writing
      <3> QED BY <3>1, <3>2, ReadStays
    <2> QED BY <2>1, <2>2
  <1> QED BY <1>3 DEF ReadBack, ReadAt, Writing

(* A file of storable flags is read back as what was asked for, or, while  *)
(* its creator is at work or when that was stopped, not at all: it is      *)
(* never read as another tactic (tactic.go:93-167, 211-224, 295-311).      *)
THEOREM NoOtherTacticIsRead == TacticSpec => []ReadBack
  <1>1. TacticInit => ReadBack
    BY DEF TacticInit, ReadBack, Exists
  <1>2. ASSUME FilesInv, CreatorsInv, ReadBack, [TacticNext]_tacticVars
        PROVE  ReadBack'
    <2>1. ASSUME NEW p \in Process,
                 \/ \E flags \in Flags : StartCreate(p, flags)
                 \/ Stat(p) \/ Open(p) \/ WriteString(p) \/ Stop(p)
          PROVE  ReadBack'
      <3>1. OthersKept(p)
        BY <1>2, <2>1, CreateSteps
      <3> QED BY <1>2, <2>1, <3>1, ReadAfterCreate
    <2>2. ASSUME NEW p \in Process,
                 StartList(p) \/ EndList(p) \/ \E n \in Name : ParseTacticFile(p, n)
          PROVE  ReadBack'
      <3>1. OthersKept(p) /\ pc[p] # "write"
        BY <1>2, <2>2, ListStep DEF FilesInv
      <3>2. files' = files /\ torn' = torn
        BY <2>2 DEF StartList, EndList, ParseTacticFile, directory
      <3> QED BY <1>2, <3>1, <3>2, ReadAfterQuiet
    <2>3. CASE UNCHANGED tacticVars
      BY <1>2, <2>3 DEF tacticVars, ReadBack, Exists
    <2> QED BY <1>2, <2>1, <2>2, <2>3, ReadAfterRemove DEF TacticNext
  <1>3. TacticInv => FilesInv /\ CreatorsInv
    BY DEF TacticInv
  <1> QED BY <1>1, <1>2, <1>3, TacticInvAlways, PTL DEF TacticSpec

(* The directory, the commands and the histories stay what they are taken  *)
(* for (tactic.go:246-354).                                                *)
THEOREM TacticTypeCorrect == TacticSpec => []TacticTypeOK
  <1>1. TacticInv => TacticTypeOK
    BY DEF TacticInv, FilesInv
  <1> QED BY <1>1, TacticInvAlways, PTL
=============================================================================
