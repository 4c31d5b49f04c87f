------------------------------- MODULE Accounts -------------------------------
(***************************************************************************)
(* Accounts (api/admin.py, api/users.py, api/auth.py): roles, activation   *)
(* and recovery codes.  A request reads and checks, and its session writes *)
(* when it commits (database.py), with the others free to commit between   *)
(* the two; a value that the request does not change is not written.       *)
(***************************************************************************)
EXTENDS Naturals

CONSTANTS
    Account,   \* accounts
    Client,    \* connections that a request may be under way on
    Overlap,   \* requests may overlap
    MaxCodes   \* bound on recovery codes issued

ASSUME AccountsAssumption ==
    /\ Account # {}
    /\ Overlap \in BOOLEAN /\ MaxCodes \in Nat

VARIABLES
    role,     \* User.role of each account
    active,   \* User.is_active
    code,     \* User.recovery_code_hash: which code it is of, 0 for none
    issued,   \* codes issued so far
    open,     \* the request each client has under way, checked and not committed
    sessions  \* history: the sessions that each code has been exchanged for

accountVars == <<role, active, code, issued, open, sessions>>

UserRole == {"learner", "contributor", "professor", "editor", "admin"}
NoRequest == [op |-> "none"]
Write == [op : {"role"}, who : Account, to : UserRole]
         \cup [op : {"active"}, who : Account, to : BOOLEAN]
         \cup [op : {"recover"}, who : Account, with : 1 .. MaxCodes]

AccountsTypeOK ==
    /\ role \in [Account -> UserRole]
    /\ active \in [Account -> BOOLEAN]
    /\ code \in [Account -> 0 .. MaxCodes]
    /\ issued \in 0 .. MaxCodes
    /\ open \in [Client -> Write \cup {NoRequest}]
    /\ sessions \in [1 .. MaxCodes -> Nat]

\* The accounts of a site that has an admin (the bootstrap admin of the seed).
AccountsInit ==
    /\ role \in [Account -> {"learner", "admin"}]
    /\ \E a \in Account : role[a] = "admin"
    /\ active = [a \in Account |-> TRUE]
    /\ code = [a \in Account |-> 0]
    /\ issued = 0
    /\ open = [c \in Client |-> NoRequest]
    /\ sessions = [k \in 1 .. MaxCodes |-> 0]

-----------------------------------------------------------------------------
\* get_current_user and require_role.
Admin(a) == role[a] = "admin" /\ active[a]

\* Mutant of LastAdmin: the account itself is counted too.
LastAdminOfAll(a) == \A b \in Account : ~ Admin(b)

\* _active_admin_count(db, a) = 0.
LastAdmin(a) == \A b \in Account \ {a} : ~ Admin(b)

Alone == Overlap \/ \A d \in Client : open[d] = NoRequest

Free(c) == open[c] = NoRequest /\ Alone

Begin(c, w) == /\ Free(c)
               /\ open' = [open EXCEPT ![c] = w]
               /\ UNCHANGED <<role, active, code, issued, sessions>>

\* set_role by the admin a, as far as the commit.
SetRole(c, a, u, r) ==
    /\ Admin(a)
    /\ role[u] # r
    /\ ~ (role[u] = "admin" /\ LastAdmin(u))
    /\ Begin(c, [op |-> "role", who |-> u, to |-> r])

\* set_active; nobody deactivates their own account.
SetActive(c, a, u, on) ==
    /\ Admin(a)
    /\ u = a => on
    /\ ~ (role[u] = "admin" /\ ~ on /\ LastAdmin(u))
    /\ active[u] # on
    /\ Begin(c, [op |-> "active", who |-> u, to |-> on])

\* recover: the code is verified against the hash that was read.
Recover(c, u, k) ==
    /\ active[u] /\ code[u] = k
    /\ Begin(c, [op |-> "recover", who |-> u, with |-> k])

\* Mutant of Spent: the code stays.
SpentNot(u) == code

\* The code after an exchange: none.
Spent(u) == [code EXCEPT ![u] = 0]

Commit(c) ==
    /\ open[c] # NoRequest
    /\ open' = [open EXCEPT ![c] = NoRequest]
    /\ LET w == open[c]
       IN \/ /\ w.op = "role"
             /\ role' = [role EXCEPT ![w.who] = w.to]
             /\ UNCHANGED <<active, code, sessions>>
          \/ /\ w.op = "active"
             /\ active' = [active EXCEPT ![w.who] = w.to]
             /\ UNCHANGED <<role, code, sessions>>
          \/ /\ w.op = "recover"
             /\ code' = Spent(w.who)
             /\ sessions' = [sessions EXCEPT ![w.with] = @ + 1]
             /\ UNCHANGED <<role, active>>
    /\ UNCHANGED issued

\* The commit fails: rolled back.
Abandon(c) ==
    /\ open[c] # NoRequest
    /\ open' = [open EXCEPT ![c] = NoRequest]
    /\ UNCHANGED <<role, active, code, issued, sessions>>

\* generate_recovery_code writes whatever it read, so that nothing can come
\* between: the new code replaces the old one.
GenerateCode(u) ==
    /\ Alone
    /\ active[u] /\ issued < MaxCodes
    /\ issued' = issued + 1
    /\ code' = [code EXCEPT ![u] = issued + 1]
    /\ UNCHANGED <<role, active, open, sessions>>

\* change_password, given the current one, drops the code.
ChangePassword(u) ==
    /\ Alone
    /\ active[u]
    /\ code' = [code EXCEPT ![u] = 0]
    /\ UNCHANGED <<role, active, issued, open, sessions>>

AccountsNext ==
    \/ \E c \in Client :
          \/ \E a, u \in Account : \/ \E r \in UserRole : SetRole(c, a, u, r)
                                   \/ \E on \in BOOLEAN : SetActive(c, a, u, on)
          \/ \E u \in Account, k \in 1 .. MaxCodes : Recover(c, u, k)
          \/ Commit(c) \/ Abandon(c)
    \/ \E u \in Account : GenerateCode(u) \/ ChangePassword(u)

AccountsSpec == AccountsInit /\ [][AccountsNext]_accountVars

-----------------------------------------------------------------------------
(***************************************************************************)
(* What accounts promise; both fail once requests overlap.                 *)
(***************************************************************************)

\* Whatever the admins do to each other, the site keeps an active one: "You
\* cannot demote or deactivate the last active admin" (AdminUsers.tsx:115).
AnAdminRemains == \E a \in Account : Admin(a)

\* A recovery code is exchanged for a session at most once.
CodeWorksOnce == \A k \in 1 .. MaxCodes : sessions[k] <= 1

AccountsHold == AnAdminRemains /\ CodeWorksOnce
=============================================================================
