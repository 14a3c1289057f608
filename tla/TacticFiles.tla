---------------------------- MODULE TacticFiles ----------------------------
(***************************************************************************)
(* The directory of tactics: `tactic create` and `tactic list` in several  *)
(* processes that may stop, and a person who deletes files, which is the   *)
(* only way to be rid of one.  Contents are those of module TacticFormat.  *)
(* `tactic show` reads one file as list does and is left out.              *)
(***************************************************************************)
EXTENDS TacticFormat, FiniteSets

CONSTANTS
    Process,      \* slots in which one command runs at a time
    Flags,        \* the arguments of `tactic create`
    NoFile,       \* no file of this name
    NoFlags,      \* a slot that runs no `tactic create`
    MaxRemovals   \* bound: once one file has been deleted this often, none is

TacticFile == [lines : Seq(FileLine), maker : Process, flags : Flags]

ASSUME TacticFilesAssumption ==
    /\ MaxRemovals \in Nat
    /\ IsFiniteSet(Process)
    /\ Flags \subseteq CreateFlags
    /\ NoFlags \notin Flags
    /\ NoFile \notin TacticFile

(* A file is named after the -name it was created with. *)
Name == {flags.name : flags \in Flags}

VARIABLES
    files,     \* content of the directory, by name
    pc,        \* next call of the command in each slot
    create,    \* the flags of `tactic create`, by process
    listing,   \* locals of `tactic list`
    torn,      \* history: files whose writer stopped before the end
    wins,      \* history: commands that said "created", by name
    removals   \* history: deletions, by name

tacticVars == <<files, pc, create, listing, torn, wins, removals>>
directory == <<files, torn, wins, removals>>

(* steady: history, the files that have been readable since ReadDir. *)
NoListing == [todo |-> {}, shown |-> {}, skipped |-> {}, steady |-> {}]

Exists(n) == files[n] # NoFile

(* maker and flags are history: who made the file, and from what. *)
File(lines, p) == [lines |-> lines, maker |-> p, flags |-> create[p]]

Readable(n) == Exists(n) /\ ParseTactic(files[n].lines) # Unreadable

TacticInit ==
    /\ files = [n \in Name |-> NoFile]
    /\ pc = [p \in Process |-> "idle"]
    /\ create = [p \in Process |-> NoFlags]
    /\ listing = [p \in Process |-> NoListing]
    /\ torn = {}
    /\ wins = [n \in Name |-> 0]
    /\ removals = [n \in Name |-> 0]

Goto(p, label) == pc' = [pc EXCEPT ![p] = label]

(* A file that changes is no longer one of any listing's steady files. *)
Put(n, file) ==
    /\ files' = [files EXCEPT ![n] = file]
    /\ listing' = [q \in Process |-> [listing[q] EXCEPT !.steady = @ \ {n}]]

EndCreate(p) == Goto(p, "idle") /\ create' = [create EXCEPT ![p] = NoFlags]

-----------------------------------------------------------------------------
(* tactic create *)

(* validTacticName excludes separators and NUL, which no name here has.    *)
StartCreate(p, flags) ==
    /\ pc[p] = "idle"
    /\ Accepted(flags)
    /\ Goto(p, "stat")
    /\ create' = [create EXCEPT ![p] = flags]
    /\ UNCHANGED <<directory, listing>>

Stat(p) ==
    /\ pc[p] = "stat"
    /\ \/ ~Exists(create[p].name) /\ Goto(p, "open") /\ UNCHANGED create
       \/ Exists(create[p].name) /\ EndCreate(p)
    /\ UNCHANGED <<directory, listing>>

(* Mutant: O_TRUNC for O_EXCL. *)
OpenTruncating(p) ==
    /\ pc[p] = "open"
    /\ Put(create[p].name, File(<<>>, p))
    /\ Goto(p, "write")
    /\ UNCHANGED <<create, torn, wins, removals>>

(* Mutant: O_CREATE alone, and the file there is written to. *)
OpenShared(p) ==
    LET n == create[p].name IN
    /\ pc[p] = "open"
    /\ \/ ~Exists(n) /\ Put(n, File(<<>>, p))
       \/ Exists(n) /\ UNCHANGED <<files, listing>>
    /\ Goto(p, "write")
    /\ UNCHANGED <<create, torn, wins, removals>>

(* O_CREATE|O_EXCL: the file appears empty, if there was none. *)
Open(p) ==
    LET n == create[p].name IN
    /\ pc[p] = "open"
    /\ \/ /\ ~Exists(n)
          /\ Put(n, File(<<>>, p))
          /\ Goto(p, "write")
          /\ UNCHANGED create
       \/ /\ Exists(n)
          /\ EndCreate(p)
          /\ UNCHANGED <<files, listing>>
    /\ UNCHANGED <<torn, wins, removals>>

(* The open file, if it has not been deleted since. *)
StillThere(p) ==
    Exists(create[p].name) /\ files[create[p].name].maker = p

WriteString(p) ==
    LET n == create[p].name IN
    /\ pc[p] = "write"
    /\ \/ StillThere(p) /\ Put(n, File(Render(create[p]), p))
       \/ ~StillThere(p) /\ UNCHANGED <<files, listing>>
    /\ wins' = [wins EXCEPT ![n] = @ + 1]
    /\ EndCreate(p)
    /\ UNCHANGED <<torn, removals>>

(* A kill, or a write that fails: what had been written of the file stays. *)
Stop(p) ==
    LET n == create[p].name IN
    /\ pc[p] # "idle"
    /\ \/ /\ pc[p] = "write" /\ StillThere(p)
          /\ \E k \in 0..(Len(Render(create[p])) - 1) :
                Put(n, File(SubSeq(Render(create[p]), 1, k), p))
          /\ torn' = torn \cup {n}
       \/ /\ ~(pc[p] = "write" /\ StillThere(p))
          /\ listing' = [listing EXCEPT ![p] = NoListing]
          /\ UNCHANGED <<files, torn>>
    /\ EndCreate(p)
    /\ UNCHANGED <<wins, removals>>

-----------------------------------------------------------------------------
(* tactic list *)

(* Mutant: what is no tactic file is not filtered out. *)
StartListUnfiltered(p) ==
    /\ pc[p] = "idle"
    /\ Goto(p, "list")
    /\ listing' = [listing EXCEPT ![p] =
                      [NoListing EXCEPT !.todo = {n \in Name : Exists(n)} \cup {NoFile},
                                        !.steady = {n \in Name : Readable(n)}]]
    /\ UNCHANGED <<directory, create>>

(* os.ReadDir *)
StartList(p) ==
    /\ pc[p] = "idle"
    /\ Goto(p, "list")
    /\ listing' = [listing EXCEPT ![p] =
                      [NoListing EXCEPT !.todo = {n \in Name : Exists(n)},
                                        !.steady = {n \in Name : Readable(n)}]]
    /\ UNCHANGED <<directory, create>>

(* Mutant: the first file that does not parse ends the listing. *)
ParseTacticFileStrict(p, n) ==
    /\ pc[p] = "list"
    /\ n \in listing[p].todo
    /\ listing' = IF Readable(n)
                  THEN [listing EXCEPT ![p].todo = @ \ {n}, ![p].shown = @ \cup {n}]
                  ELSE [listing EXCEPT ![p].todo = {}, ![p].skipped = @ \cup {n}]
    /\ UNCHANGED <<directory, pc, create>>

(* One file of the list is read: shown, or reported and skipped.  The      *)
(* order of the names makes no difference.                                 *)
ParseTacticFile(p, n) ==
    /\ pc[p] = "list"
    /\ n \in listing[p].todo
    /\ listing' = IF Readable(n)
                  THEN [listing EXCEPT ![p].todo = @ \ {n}, ![p].shown = @ \cup {n}]
                  ELSE [listing EXCEPT ![p].todo = @ \ {n}, ![p].skipped = @ \cup {n}]
    /\ UNCHANGED <<directory, pc, create>>

EndList(p) ==
    /\ pc[p] = "list"
    /\ listing[p].todo = {}
    /\ Goto(p, "idle")
    /\ listing' = [listing EXCEPT ![p] = NoListing]
    /\ UNCHANGED <<directory, create>>

(* rm: the way to get past "already exists, refusing to overwrite". *)
Remove(n) ==
    /\ Exists(n)
    /\ \A m \in Name : removals[m] < MaxRemovals
    /\ Put(n, NoFile)
    /\ torn' = torn \ {n}
    /\ removals' = [removals EXCEPT ![n] = @ + 1]
    /\ UNCHANGED <<pc, create, wins>>

TacticNext ==
    \/ \E p \in Process :
          \/ \E flags \in Flags : StartCreate(p, flags)
          \/ Stat(p)
          \/ Open(p)
          \/ WriteString(p)
          \/ Stop(p)
          \/ StartList(p)
          \/ \E n \in Name : ParseTacticFile(p, n)
          \/ EndList(p)
    \/ \E n \in Name : Remove(n)

TacticSpec == TacticInit /\ [][TacticNext]_tacticVars

-----------------------------------------------------------------------------
(* Properties *)

TacticTypeOK ==
    /\ files \in [Name -> TacticFile \cup {NoFile}]
    /\ pc \in [Process -> {"idle", "stat", "open", "write", "list"}]
    /\ create \in [Process -> Flags \cup {NoFlags}]
    /\ listing \in [Process -> [todo : SUBSET Name, shown : SUBSET Name,
                                skipped : SUBSET Name, steady : SUBSET Name]]
    /\ torn \in SUBSET Name
    /\ wins \in [Name -> Nat]
    /\ removals \in [Name -> Nat]

(* "refusing to overwrite" (tactic.go:276, 300): whatever happens between  *)
(* Stat, O_EXCL and the write, a file that has content keeps it until a    *)
(* person deletes it, and an empty one is filled only by its own creator.  *)
NothingIsOverwritten ==
    [][\A n \in Name :
          Exists(n) /\ files'[n] # files[n] =>
             \/ removals'[n] = removals[n] + 1
             \/ /\ files[n].lines = <<>>
                /\ files'[n] # NoFile
                /\ files'[n].maker = files[n].maker]_tacticVars

(* Of the commands that race for a name one says "created", and another    *)
(* only after the file was deleted.                                        *)
OneCreator == \A n \in Name : wins[n] <= removals[n] + 1

(* A file of storable flags is read back as what was asked for, or not at  *)
(* all, even when its writer stopped half way: never as another tactic.    *)
(* And it is unreadable only while its creator is at work or when that     *)
(* creator was stopped (tactic.go:211-224, 297-307).                       *)
ReadBack ==
    \A n \in Name :
        Exists(n) /\ AllStorable(files[n].flags) =>
            LET tactic == ParseTactic(files[n].lines)
                writing == \E p \in Process : /\ pc[p] = "write"
                                              /\ create[p].name = n
                                              /\ files[n].maker = p
            IN  \/ tactic = Asked(files[n].flags)
                \/ tactic = Unreadable /\ (writing \/ n \in torn)

(* "one hand-edited bad file shouldn't hide every other tactic that's      *)
(* fine" (tactic.go:340-342): a listing shows each file that was readable  *)
(* all the time it ran, whatever else came, went or was torn meanwhile.    *)
NothingFineIsHidden ==
    \A p \in Process :
        pc[p] = "list" => listing[p].steady \subseteq listing[p].todo \cup listing[p].shown
=============================================================================
