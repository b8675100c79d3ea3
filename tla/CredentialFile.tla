----------------------------- MODULE CredentialFile -----------------------------
(***************************************************************************)
(* What the two auth managers share with the vendor's own CLI: the         *)
(* credential store on disk and the OAuth server.  External to the         *)
(* repository; modelled from how src/src/codex-auth.ts and                 *)
(* src/src/claude-auth.ts use them.                                        *)
(*                                                                         *)
(* Tokens are numbered in the order the server grants them: grant n is the *)
(* access token n and, where the server rotates, the refresh token n.      *)
(***************************************************************************)
EXTENDS Naturals

CONSTANTS
  MaxTokens,  (* BOUND: grants                                              *)
  Rotates     (* whether a refresh uses up the refresh token it is given    *)

ASSUME ServerAssumption == MaxTokens \in Nat \ {0} /\ Rotates \in BOOLEAN

VARIABLES
  file,       (* the credential file                                        *)
  issued,     (* grants so far; also the clock of last_refresh              *)
  live,       (* the refresh tokens the server accepts                      *)
  cli         (* a grant the CLI has not written to the file yet, or 0      *)

fileVars == <<file, issued, live, cli>>

Tokens == 1 .. MaxTokens

(* "good": a usable credential.  "partial": well-formed, but without the    *)
(* account id (Codex) or the refresh token (Claude).  "unreadable":         *)
(* missing, locked or not in this format.                                   *)
File == [kind : {"good", "partial", "unreadable"}, at : Tokens, rt : Tokens, last : Tokens]
Readable(f) == f.kind # "unreadable"

FileInit ==
  /\ file = [kind |-> "good", at |-> 1, rt |-> 1, last |-> 1]
  /\ issued = 1
  /\ live = {1}
  /\ cli = 0

(* The server accepts refresh token r and grants issued + 1.                *)
Grant(r) ==
  /\ issued < MaxTokens
  /\ r \in live
  /\ issued' = issued + 1
  /\ live' = IF Rotates THEN (live \ {r}) \cup {issued'} ELSE live

CliRefresh ==
  /\ cli = 0 /\ Readable(file)
  /\ Grant(file.rt)
  /\ cli' = issued'
  /\ UNCHANGED file

(* A login is a grant of its own; earlier ones stay valid.                  *)
CliLogin ==
  /\ cli = 0 /\ issued < MaxTokens
  /\ issued' = issued + 1
  /\ live' = live \cup {issued'}
  /\ cli' = issued'
  /\ UNCHANGED file

CliWrite ==
  /\ cli # 0
  /\ file' = [kind |-> "good", at |-> cli, last |-> cli,
              rt |-> IF cli \in live THEN cli ELSE file.rt]
  /\ cli' = 0
  /\ UNCHANGED <<issued, live>>

(* The file is removed, damaged or edited by hand.                          *)
Damage ==
  /\ \E k \in {"partial", "unreadable"} : k # file.kind /\ file' = [file EXCEPT !.kind = k]
  /\ UNCHANGED <<issued, live, cli>>

FileTypeOK ==
  /\ file \in File
  /\ issued \in Tokens
  /\ live \subseteq 1 .. issued
  /\ cli \in 0 .. issued
=================================================================================
