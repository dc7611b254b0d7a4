----------------------------- MODULE SieveFilters -----------------------------
(* The Sieve routes (worker/api/routes/filters.py), next to the routes of
   Provisioning that make and delete the accounts they are for.  A user's scripts
   are files in a directory, the active one is what the symbolic link
   .dovecot.sieve points to.  A route changes files one system call after the
   other, and may be stopped between any two: by an error (HTTP 500, no event) or
   with the process.  Nothing of this is undone, and deleting an account leaves
   its files. *)
EXTENDS Provisioning

CONSTANTS
    User,       \* the accounts whose scripts are followed
    Script      \* names of scripts, "vacation" among them

ASSUME SieveAssumption ==
    /\ User \subseteq Account
    /\ "vacation" \in Script
    /\ "none" \notin Script

VARIABLES
    scripts,    \* the files of each user
    link        \* the script .dovecot.sieve points to, or "none"

sieveVars == <<scripts, link>>
vars == <<provVars, sieveVars>>

SieveInit ==
    /\ Init
    /\ scripts = [u \in User |-> {}]
    /\ link = [u \in User |-> "none"]

(* Every row but the flag of the account stays, and no event is about them. *)
FilesOnly == UNCHANGED <<schema, tables, mirror>>

Write(u, n) == scripts' = [scripts EXCEPT ![u] = @ \cup {n}]
PointTo(u, n) == link' = [link EXCEPT ![u] = n]

(* unlink, symlink, lchown: stopped before the first, between the two, or not. *)
Relink(u, n) ==
    \/ UNCHANGED link /\ answer' = "error"
    \/ PointTo(u, "none") /\ answer' = "error"
    \/ PointTo(u, n) /\ answer' \in {"ok", "error"}

NotFound == Refused /\ UNCHANGED sieveVars

CreateFilter(u, n, active) ==
    \/ u \notin DOMAIN accounts /\ NotFound
    \/ /\ u \in DOMAIN accounts
       /\ FilesOnly
       /\ Write(u, n)
       /\ \/ active /\ Relink(u, n)
          \/ ~active /\ UNCHANGED link /\ answer' \in {"ok", "error"}

(* Slip: the file goes first. *)
DeleteFileFirst(u, n) ==
    \/ n \notin scripts[u] /\ NotFound
    \/ /\ n \in scripts[u]
       /\ FilesOnly
       /\ scripts' = [scripts EXCEPT ![u] = @ \ {n}]
       /\ \/ UNCHANGED link /\ answer' = "error"
          \/ link' = [link EXCEPT ![u] = IF @ = n THEN "none" ELSE @] /\ answer' = "ok"

(* The link goes first when it points to the script, then the file, then its
   compiled form. *)
DeleteFilter(u, n) ==
    \/ n \notin scripts[u] /\ NotFound
    \/ /\ n \in scripts[u]
       /\ FilesOnly
       /\ link' = [link EXCEPT ![u] = IF @ = n THEN "none" ELSE @]
       /\ \/ UNCHANGED scripts /\ answer' = "error"
          \/ scripts' = [scripts EXCEPT ![u] = @ \ {n}] /\ answer' \in {"ok", "error"}

(* Neither this nor the deletion looks whether the account exists. *)
ActivateFilter(u, n) ==
    \/ n \notin scripts[u] /\ NotFound
    \/ /\ n \in scripts[u]
       /\ FilesOnly
       /\ UNCHANGED scripts
       /\ Relink(u, n)

Flag(u, on) == accounts' = [accounts EXCEPT ![u].vacation = on]

(* Turning it on writes and activates the script vacation, in the place of the
   user's own, and then sets the flag; turning it off only clears the flag. *)
ManageVacation(u, on) ==
    \/ u \notin DOMAIN accounts /\ NotFound
    \/ /\ u \in DOMAIN accounts /\ on
       /\ Write(u, "vacation")
       /\ UNCHANGED <<schema, orgs, domains, aliases, endpoints, mirror>>
       /\ \/ Relink(u, "vacation") /\ answer' = "error" /\ UNCHANGED accounts
          \/ PointTo(u, "vacation") /\ Flag(u, on) /\ answer' \in {"ok", "error"}
    \/ /\ u \in DOMAIN accounts /\ ~on
       /\ Flag(u, on) /\ answer' = "ok"
       /\ UNCHANGED <<sieveVars, schema, orgs, domains, aliases, endpoints, mirror>>

ListFilters(u) ==
    \/ u \notin DOMAIN accounts /\ NotFound
    \/ u \in DOMAIN accounts /\ Served /\ UNCHANGED sieveVars
GetFilter(u, n) ==
    \/ n \notin scripts[u] /\ NotFound
    \/ n \in scripts[u] /\ Served /\ UNCHANGED sieveVars

SieveRequest ==
    \E u \in User :
        \/ ListFilters(u)
        \/ \E on \in BOOLEAN : ManageVacation(u, on)
        \/ \E n \in Script :
             \/ DeleteFilter(u, n) \/ ActivateFilter(u, n) \/ GetFilter(u, n)
             \/ \E active \in BOOLEAN : CreateFilter(u, n, active)

Next ==
    \/ ProvNext /\ UNCHANGED sieveVars
    \/ SieveRequest

Spec == SieveInit /\ [][Next]_vars

-------------------------------------------------------------------------------
(* Types of all variables. *)
TypeOK ==
    /\ ProvTypeOK
    /\ scripts \in [User -> SUBSET Script]
    /\ link \in [User -> Script \cup {"none"}]

(* Dovecot follows the link at each delivery and runs no filter when it leads
   nowhere: whatever stops a route midway, the link points to a script that is
   there, or is not there at all. *)
ActiveScriptStored ==
    \A u \in User : link[u] # "none" => link[u] \in scripts[u]
=============================================================================
