---- MODULE Accounts ----
(***************************************************************************)
(* Accounts and sessions: users.service.ts, auth.service.ts, the strategy  *)
(* that validates access tokens and the guards of the controllers.  Every  *)
(* call is a process that reads an account, awaits (bcrypt, signatures,    *)
(* the database) and then writes or answers; nothing is locked.            *)
(***************************************************************************)
EXTENDS Naturals, FiniteSets

CONSTANTS
    Emails,       \* normalised addresses
    Persons,      \* callers, one call at a time each
    SeedAdmins,   \* addresses of the seeded administrators
    MaxSwitches   \* bound: accounts switched off or on

ASSUME AccountsAssumption == IsFiniteSet(Persons) /\ SeedAdmins \subseteq Emails

VARIABLES
    accounts,    \* the rows of users, by e-mail: the index is unique, and rows
                 \* are never removed nor their e-mail changed
    calls,       \* the call each person has in hand
    welcomed,    \* history: registrations that were answered with success
    leaked,      \* history: tokens given since the account was switched off
    switches

accountVars == <<accounts, calls, welcomed, leaked, switches>>

Existing == DOMAIN accounts
Live(e) == e \in Existing /\ ~accounts[e].deleted
Usable(e) == Live(e) /\ accounts[e].active
IsAdmin(e) == e \in SeedAdmins

NoOne == [at |-> "free"]
Resting(c) == calls[c] = NoOne
At(c, step) == calls[c].at = step
Step(c, step, e) == calls' = [calls EXCEPT ![c] = [at |-> step, email |-> e]]
Finish(c) == calls' = [calls EXCEPT ![c] = NoOne]
Signing(e) == {c \in Persons : At(c, "sign") /\ calls[c].email = e}

-----------------------------------------------------------------------------
\* register looks for the e-mail, among the accounts that are not deleted, and
\* create looks once more before it saves.
Register(c, e) ==
    /\ Resting(c) /\ ~Live(e)
    /\ Step(c, "create", e)
    /\ UNCHANGED <<accounts, welcomed, leaked, switches>>

FindByEmail(c) ==
    /\ At(c, "create")
    /\ IF Live(calls[c].email) THEN Finish(c) ELSE Step(c, "save", calls[c].email)
    /\ UNCHANGED <<accounts, welcomed, leaked, switches>>

\* The row is in: register goes on to sign tokens, POST /users answers without.
Created(c, e, active) ==
    /\ accounts' = [f \in Existing \cup {e} |->
                      IF f = e THEN [active |-> active, deleted |-> FALSE] ELSE accounts[f]]
    /\ welcomed' = [welcomed EXCEPT ![e] = @ + 1]
    /\ IF At(c, "save") THEN Step(c, "sign", e) ELSE Finish(c)

SaveUser_noIndex(c) ==
    /\ At(c, "save") \/ At(c, "post")
    /\ Created(c, calls[c].email, TRUE)
    /\ UNCHANGED <<leaked, switches>>

\* The unique index refuses the second of two registrations, and the address
\* of a deleted account.  Only POST /users may ask for an inactive account.
SaveUser(c) ==
    LET e == calls[c].email IN
    /\ At(c, "save") \/ At(c, "post")
    /\ IF e \in Existing THEN Finish(c) /\ UNCHANGED <<accounts, welcomed>>
       ELSE \E active \in BOOLEAN : (active \/ At(c, "post")) /\ Created(c, e, active)
    /\ UNCHANGED <<leaked, switches>>

-----------------------------------------------------------------------------
\* login reads the account, checks that it is active and compares the password.
Login(c, e) ==
    /\ Resting(c) /\ Usable(e)
    /\ Step(c, "sign", e)
    /\ UNCHANGED <<accounts, welcomed, leaked, switches>>

RefreshToken_noCheck(c, e) ==
    /\ Resting(c) /\ Live(e)
    /\ Step(c, "sign", e)
    /\ UNCHANGED <<accounts, welcomed, leaked, switches>>

\* refreshToken: a token of any age within its seven days, logged out or not.
RefreshToken(c, e) ==
    /\ Resting(c) /\ Usable(e)
    /\ Step(c, "sign", e)
    /\ UNCHANGED <<accounts, welcomed, leaked, switches>>

\* generateTokens, with what was read before the awaits.
GiveTokens(c) ==
    LET e == calls[c].email IN
    /\ At(c, "sign") /\ Finish(c)
    /\ leaked' = IF Usable(e) THEN leaked ELSE [leaked EXCEPT ![e] = @ + 1]
    /\ UNCHANGED <<accounts, welcomed, switches>>

-----------------------------------------------------------------------------
\* The administrators' calls.  JwtStrategy.validate and RolesGuard look at the
\* caller's account once, before the handler, which then reads its target.
AdminCall(c, e, step) ==
    /\ Resting(c) /\ \E a \in SeedAdmins : Usable(a)
    /\ Step(c, step, e)
    /\ UNCHANGED <<accounts, welcomed, leaked, switches>>

\* POST /users: create of the service, which register calls as well.
PostUser(c, e) == ~Live(e) /\ AdminCall(c, e, "post")

DeleteUser(c, e) == Live(e) /\ ~IsAdmin(e) /\ AdminCall(c, e, "softDelete")
PatchInactive(c, e) == Live(e) /\ AdminCall(c, e, "deactivate")
PatchActivate(c, e) ==
    /\ e \in Existing
    /\ AdminCall(c, e, IF accounts[e].deleted THEN "restore" ELSE "activate")

Switching == switches < MaxSwitches /\ switches' = switches + 1

\* One write of one row; a new period begins when the account can be used.
Write(e, account) ==
    /\ accounts' = [accounts EXCEPT ![e] = account]
    /\ leaked' = IF account.active /\ ~account.deleted THEN [leaked EXCEPT ![e] = 0] ELSE leaked
    /\ UNCHANGED welcomed

SoftDelete(c) ==
    /\ At(c, "softDelete") /\ Switching /\ Finish(c)
    /\ Write(calls[c].email, [accounts[calls[c].email] EXCEPT !.deleted = TRUE])

\* update with isActive false: nothing keeps an administrator from it.
UpdateInactive(c) ==
    /\ At(c, "deactivate") /\ Switching /\ Finish(c)
    /\ Write(calls[c].email, [accounts[calls[c].email] EXCEPT !.active = FALSE])

\* activate restores a deleted account before it makes it active.
RestoreUser(c) ==
    /\ At(c, "restore") /\ Switching /\ Step(c, "activate", calls[c].email)
    /\ Write(calls[c].email, [accounts[calls[c].email] EXCEPT !.deleted = FALSE])

ActivateUser(c) ==
    /\ At(c, "activate") /\ Finish(c)
    /\ Write(calls[c].email, [accounts[calls[c].email] EXCEPT !.active = TRUE])
    /\ UNCHANGED switches

\* The seed is run again: it makes its administrators active, and nothing else
\* does once all of them are switched off.
SeedUsers ==
    \E e \in SeedAdmins :
    /\ Switching
    /\ Write(e, [accounts[e] EXCEPT !.active = TRUE])
    /\ UNCHANGED calls

AccountsInit ==
    /\ accounts = [e \in SeedAdmins |-> [active |-> TRUE, deleted |-> FALSE]]
    /\ calls = [c \in Persons |-> NoOne]
    /\ welcomed = [e \in Emails |-> 0] /\ leaked = [e \in Emails |-> 0]
    /\ switches = 0

AccountsNext ==
    \/ \E c \in Persons, e \in Emails : Register(c, e)
    \/ \E c \in Persons : FindByEmail(c)
    \/ \E c \in Persons : SaveUser(c)
    \/ \E c \in Persons, e \in Emails : Login(c, e)
    \/ \E c \in Persons, e \in Emails : RefreshToken(c, e)
    \/ \E c \in Persons : GiveTokens(c)
    \/ \E c \in Persons, e \in Emails : PostUser(c, e)
    \/ \E c \in Persons, e \in Emails : DeleteUser(c, e)
    \/ \E c \in Persons, e \in Emails : PatchInactive(c, e)
    \/ \E c \in Persons, e \in Emails : PatchActivate(c, e)
    \/ \E c \in Persons : SoftDelete(c)
    \/ \E c \in Persons : UpdateInactive(c)
    \/ \E c \in Persons : RestoreUser(c)
    \/ \E c \in Persons : ActivateUser(c)
    \/ SeedUsers

AccountsSpec == AccountsInit /\ [][AccountsNext]_accountVars

-----------------------------------------------------------------------------
\* Whoever registers, in whatever order the look-ups and the inserts come: an
\* address is welcomed once, and the seeded administrators' not at all.  An
\* account that was deleted keeps its address.
OneAccountPerEmail ==
    \A e \in Emails :
       welcomed[e] <= IF e \in Existing /\ ~IsAdmin(e) THEN 1 ELSE 0

\* An account that was deleted or switched off gets no more tokens than there
\* were calls that had read it before: refreshing does not outlive the switch.
\* Administrators are switched off like all others, but never deleted.
SwitchedOffStaysOut ==
    \A e \in Existing :
       /\ ~Usable(e) => leaked[e] + Cardinality(Signing(e)) <= Cardinality(Persons)
       /\ IsAdmin(e) => ~accounts[e].deleted
====
