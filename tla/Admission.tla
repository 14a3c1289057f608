----------------------------- MODULE Admission -----------------------------
(***************************************************************************)
(* What a command does before its own work: openStore (module Migration),  *)
(* then, if it acts for an identity, VerifyIdentityToken.  identity.go is  *)
(* modelled in full but for listing: identities, with a token or without,  *)
(* are created by commands that go through the same opening.               *)
(*                                                                         *)
(* A token and its hash are the identity it was generated for: tokens are  *)
(* random, and so are ids, which is why nobody uses an id before the       *)
(* command that creates it.  Other labels may be used without being        *)
(* created at all.  Arguments are chosen by the action that first reads    *)
(* them.                                                                   *)
(***************************************************************************)
EXTENDS Migration

CONSTANTS
    Identity,     \* ids that `identity create` may come to generate
    Label,        \* names used for an identity that was never created
    OtherToken,   \* a token of nobody
    NoToken,      \* neither flag nor environment: the empty string
    NoRow,        \* no row with this id
    Unprotected   \* a row with token_hash NULL

Token == Identity \cup {OtherToken, NoToken}

ASSUME AdmissionAssumption ==
    /\ Identity \cap Label = {}
    /\ {NoRow, Unprotected, OtherToken, NoToken} \cap Identity = {}
    /\ OtherToken # NoToken
    /\ NoRow # Unprotected

VARIABLES
    identities,  \* table identities: token_hash by id
    cmd,         \* the identity a command creates or acts for, and its tokens
    printed,     \* history: ids whose token has been printed
    lostTokens   \* history: ids whose token was lost with its process

identityVars == <<identities, cmd, printed, lostTokens>>
admissionVars == <<migrationVars, identityVars>>

Subject == Identity \cup Label

NoCommand == [identity |-> NoRow, flag |-> NoToken, env |-> NoToken]

Protected(i) == identities[i] \in Identity

(* An old file's identities have no token_hash, the first column of the    *)
(* list, which then reads as NULL.                                         *)
AdmissionInit ==
    /\ MigrationInit
    /\ identities \in [Identity -> IF EvolvedTable[1] \in tables
                                  THEN {NoRow, Unprotected} ELSE {NoRow}]
    /\ cmd = [p \in Process |-> NoCommand]
    /\ printed = {}
    /\ lostTokens = {}

(* Going on with, or leaving, a command that has the store open. *)
Continue(p, label, command) ==
    /\ Goto(p, label, 1)
    /\ cmd' = [cmd EXCEPT ![p] = command]
    /\ UNCHANGED <<schema, admitted, refused, stopped, lostTokens>>

-----------------------------------------------------------------------------
(* identity create *)

CreateIdentity(p, i) ==
    /\ pc[p] = "opened"
    /\ identities[i] = NoRow
    /\ identities' = [identities EXCEPT ![i] = Unprotected]
    /\ Continue(p, "idle", NoCommand)
    /\ UNCHANGED printed

(* Mutant: the hash of the new token does not reach the row. *)
CreateProtectedIdentityUnhashed(p, i) ==
    /\ pc[p] = "opened"
    /\ identities[i] = NoRow
    /\ identities' = [identities EXCEPT ![i] = Unprotected]
    /\ Continue(p, "print", [NoCommand EXCEPT !.identity = i])
    /\ UNCHANGED printed

(* With -protect the row carries the token's hash ... *)
CreateProtectedIdentity(p, i) ==
    /\ pc[p] = "opened"
    /\ identities[i] = NoRow
    /\ identities' = [identities EXCEPT ![i] = i]
    /\ Continue(p, "print", [NoCommand EXCEPT !.identity = i])
    /\ UNCHANGED printed

(* ... and cmdIdentityCreate prints the token, the only time it is seen.   *)
PrintToken(p) ==
    /\ pc[p] = "print"
    /\ printed' = printed \cup {cmd[p].identity}
    /\ Continue(p, "idle", NoCommand)
    /\ UNCHANGED identities

-----------------------------------------------------------------------------
(* Commands that act for an identity *)

(* Mutant: the environment wins over the flag. *)
ResolveTokenEnvFirst(flag, env) == IF env # NoToken THEN env ELSE flag

ResolveToken(flag, env) == IF flag # NoToken THEN flag ELSE env

(* VerifyIdentityToken's answer for a row's token_hash. *)
Accepts(hash, token) == hash \in {NoRow, Unprotected} \/ token = hash

HashOf(i) == IF i \in Label THEN NoRow ELSE identities[i]

(* Ids of rows that are there, and labels that need none. *)
InUse == Label \cup {i \in Identity : identities[i] # NoRow}

VerifyIdentityToken(p, i, flag, env) ==
    /\ pc[p] = "opened"
    /\ \/ /\ Accepts(HashOf(i), ResolveToken(flag, env))
          /\ Continue(p, "act", [identity |-> i, flag |-> flag, env |-> env])
       \/ /\ ~Accepts(HashOf(i), ResolveToken(flag, env))
          /\ Continue(p, "idle", NoCommand)
    /\ UNCHANGED <<identities, printed>>

(* The command's own statements, in LockProtocol and the other modules: of *)
(* any of the commands that check a token.                                 *)
Act(p) ==
    /\ pc[p] = "act"
    /\ Continue(p, "idle", NoCommand)
    /\ UNCHANGED <<identities, printed>>

(* Reading commands, which need no identity. *)
JustRead(p) ==
    /\ pc[p] = "opened"
    /\ Continue(p, "idle", NoCommand)
    /\ UNCHANGED <<identities, printed>>

StopCommand(p) ==
    /\ Stop(p)
    /\ cmd' = [cmd EXCEPT ![p] = NoCommand]
    /\ lostTokens' = IF pc[p] = "print" THEN lostTokens \cup {cmd[p].identity}
                                        ELSE lostTokens
    /\ UNCHANGED <<identities, printed>>

AdmissionNext ==
    \E p \in Process :
        \/ MigrationStep(p) /\ UNCHANGED identityVars
        \/ \E i \in Identity : CreateIdentity(p, i) \/ CreateProtectedIdentity(p, i)
        \/ PrintToken(p)
        \/ \E i \in InUse, flag \in Token, env \in Token :
              VerifyIdentityToken(p, i, flag, env)
        \/ Act(p)
        \/ JustRead(p)
        \/ StopCommand(p)

AdmissionSpec == AdmissionInit /\ [][AdmissionNext]_admissionVars

-----------------------------------------------------------------------------
(* Properties *)

AdmissionTypeOK ==
    /\ MigrationTypeOK
    /\ pc \in [Process -> Opening \cup {"idle", "opened", "print", "act"}]
    /\ pos \in [Process -> Nat \ {0}]
    /\ identities \in [Identity -> Identity \cup {NoRow, Unprotected}]
    /\ cmd \in [Process -> [identity : Subject \cup {NoRow}, flag : Token, env : Token]]
    /\ printed \in SUBSET Identity
    /\ lostTokens \in SUBSET Identity

(* A command that acts for a protected identity was given its token, by    *)
(* the flag or, without a flag, by the environment; and it still is so at  *)
(* the moment it acts, whatever happened to the table since the check      *)
(* (identity.go:154-177, 186-193).                                         *)
GivenToken(c) == c.flag = c.identity \/ (c.flag = NoToken /\ c.env = c.identity)

ActsAreAuthorised ==
    \A p \in Process :
        /\ pc[p] = "act"
        /\ cmd[p].identity \in Identity
        /\ Protected(cmd[p].identity)
        => GivenToken(cmd[p])

(* "printed exactly once, never recoverable" (identity.go:227), of which   *)
(* this says that it is printed at all, not how often: the identities that *)
(* need a token are exactly those whose token was printed, is about to be, *)
(* or went down with the process that had generated it.  A printed token   *)
(* is never one that does not work.                                        *)
Printing == {cmd[p].identity : p \in {q \in Process : pc[q] = "print"}}

TokensAreKnown ==
    \A i \in Identity : Protected(i) <=> i \in printed \cup Printing \cup lostTokens
=============================================================================
