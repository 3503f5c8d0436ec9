----------------------------- MODULE CloudAccess -----------------------------
(***************************************************************************)
(* What a cloud account promises its owner: a session that is accepted was *)
(* opened with the password that is in force, and setting a password, by a *)
(* change or by a reset, ends every session in the same instant.           *)
(* CloudAccounts, whose handlers commit statement by statement, implements *)
(* this.                                                                   *)
(***************************************************************************)
EXTENDS Sequences

CONSTANTS
    Secrets,         \* the passwords
    Numbers          \* the numbers of sessions

VARIABLES
    password,        \* the password of each account
    open             \* the accepted sessions of each account, each with the password it was opened with

access == <<password, open>>

AccessInit == password = <<>> /\ open = <<>>

SignUp(p) ==
    /\ password' = Append(password, p)
    /\ open' = Append(open, {})

Enter(u, p) ==
    /\ p = password[u]
    /\ \E n \in Numbers :
        /\ [number |-> n, password |-> p] \notin open[u]
        /\ open' = [open EXCEPT ![u] = @ \cup {[number |-> n, password |-> p]}]
    /\ UNCHANGED password

Leave(u) ==
    /\ \E some \in SUBSET open[u] : open' = [open EXCEPT ![u] = some]
    /\ UNCHANGED password

SetPassword(u, p) ==
    /\ password' = [password EXCEPT ![u] = p]
    /\ open' = [open EXCEPT ![u] = {}]

AccessNext ==
    \E p \in Secrets :
        SignUp(p) \/ \E u \in DOMAIN password : Enter(u, p) \/ Leave(u) \/ SetPassword(u, p)

AccessSpec == AccessInit /\ [][AccessNext]_access
=============================================================================
