---------------------------- MODULE DbCredentials ----------------------------
(***************************************************************************)
(* Database credentials read from a file (internal/store/credentials.go):  *)
(* each new connection looks whether the file has changed and reads it if  *)
(* so.  What it holds then replaces the DSN's own user and password; when  *)
(* the file has changed and cannot be read, nothing does.  A rotation      *)
(* swaps the file atomically at any moment, between the look, the read and *)
(* the second look that remembers which file was read.                     *)
(*                                                                         *)
(* A file is a version; its user and its password are of that version.     *)
(***************************************************************************)
EXTENDS Naturals

CONSTANTS
  Rotations,      \* bound: versions of the file
  Malformed,      \* versions that name neither key, or cannot be read to their end
  UserOnly,       \* versions that name DB_USER only
  PasswordOnly    \* and DB_PASSWORD only

\* The process starts with a file it can read.
ASSUME FirstIsGood == 1 \notin Malformed

Gone == 0         \* no file: between two versions, or while it is swapped
Own == 0          \* the DSN's own user, or password

VARIABLES
  file,           \* the version the path leads to, or Gone
  newest,         \* versions written so far
  held,           \* credentials: user, password and the version remembered
  opening,        \* a connection being opened, behind the mutex
  opened          \* the pair of the last connection opened

\* What a version names; a key it does not name stays empty, and the DSN's own
\* is used for it.
PairOf(v) == [user |-> IF v \in PasswordOnly THEN Own ELSE v,
              password |-> IF v \in UserOnly THEN Own ELSE v]
OwnPair == [user |-> Own, password |-> Own]

credVars == <<file, newest, held, opening, opened>>

\* newCredentials: a first version that is no pair ends the process.
CredInit ==
  /\ file = 1 /\ newest = 1
  /\ held = [user |-> PairOf(1).user, password |-> PairOf(1).password, mod |-> 1]
  /\ opening = [pc |-> "rest", from |-> Gone]
  /\ opened = PairOf(1)

Rotate ==
  /\ newest < Rotations
  /\ newest' = newest + 1 /\ file' = newest + 1
  /\ UNCHANGED <<held, opening, opened>>

Vanish ==
  /\ file # Gone /\ newest < Rotations
  /\ file' = Gone
  /\ UNCHANGED <<newest, held, opening, opened>>

\* changed: a file that is not there counts as unchanged.
Look ==
  /\ opening.pc = "rest"
  /\ opening' = [opening EXCEPT !.pc = IF file # Gone /\ file # held.mod THEN "read" ELSE "apply"]
  /\ UNCHANGED <<file, newest, held, opened>>

\* Mutated KeepOnError: the fields are set line by line while the file is scanned.
KeepOnError_Partly == [held EXCEPT !.user = file]

\* The fields are set only when the whole file has been read.
KeepOnError == held

\* On an error the connection is left as the DSN has it: apply returns before it
\* sets either field, and what is held serves the next one that sees no change.
ReadFile ==
  /\ opening.pc = "read"
  /\ IF file = Gone \/ file \in Malformed
     THEN /\ opening' = [opening EXCEPT !.pc = "rest"]
          /\ held' = IF file = Gone THEN held ELSE KeepOnError
          /\ opened' = OwnPair
     ELSE /\ opening' = [pc |-> "remember", from |-> file]
          /\ UNCHANGED <<held, opened>>
  /\ UNCHANGED <<file, newest>>

\* The modification time is that of whatever the path leads to by now.
Remember ==
  /\ opening.pc = "remember"
  /\ held' = [user |-> PairOf(opening.from).user, password |-> PairOf(opening.from).password,
              mod |-> IF file = Gone THEN held.mod ELSE file]
  /\ opening' = [pc |-> "apply", from |-> Gone]
  /\ UNCHANGED <<file, newest, opened>>

Apply ==
  /\ opening.pc = "apply"
  /\ opened' = [user |-> held.user, password |-> held.password]
  /\ opening' = [opening EXCEPT !.pc = "rest"]
  /\ UNCHANGED <<file, newest, held>>

CredNext == Rotate \/ Vanish \/ Look \/ ReadFile \/ Remember \/ Apply

-----------------------------------------------------------------------------
(* Properties.                                                             *)

\* "user, password" (credentials.go, apply): a connection is opened with what
\* one well-formed version of the file names, the DSN's own standing in for a
\* key it does not name, or with the DSN's own pair; never with the user of one
\* version and the password of another, wherever between the look, the read and
\* the second look a rotation comes, the file vanishes or is malformed.
PairMatches ==
  opened = OwnPair \/ \E v \in 1..newest : v \notin Malformed /\ opened = PairOf(v)

=============================================================================
