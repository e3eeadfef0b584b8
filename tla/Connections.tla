------------------------------ MODULE Connections ------------------------------
(***************************************************************************)
(* How a credential becomes an account of the vault: the dialog posts what *)
(* was pasted, what this machine holds or an authorization code, the route *)
(* verifies it at the vendor, finds out whose it is, and saves it next to  *)
(* the user's own edits (components/AddAccountModal.tsx, app/api/connect,  *)
(* lib/connect-account.ts).                                                *)
(*                                                                         *)
(* The vault is compared and swapped as a whole (VaultStore): a save reads *)
(* it, computes the next one, and starts over when it has moved.  A login  *)
(* is the id an account gets from its profile; the id made of the digest   *)
(* of a profile-less token is named by the token.  The usage row is reset  *)
(* before the answer (TokenRefresh, LocalUsage).  A dialog that gives up   *)
(* after thirty seconds, or is closed, leaves its request running, so what *)
(* it shows is left out.                                                   *)
(***************************************************************************)
CONSTANTS
    Connects,     \* bound: the requests to connect, each made once
    Logins,       \* the identities the vendors' profiles name
    Credentials,  \* access tokens, with or without a refresh token
    LoginOf,      \* LoginOf[c]: whose credential c is
    Renewable,    \* those with a refresh token
    Profiled,     \* those that may read the profile of their login
    NoTarget      \* the request adds an account and reconnects none

Ids == Logins \cup (Credentials \ (Profiled \cup Renewable))

ASSUME ConnectionsAssumption ==
    /\ LoginOf \in [Credentials -> Logins]
    /\ Renewable \subseteq Credentials /\ Profiled \subseteq Credentials
    /\ Logins \cap Credentials = {}
    /\ NoTarget \notin Ids \cup Credentials

VARIABLES
    accounts,   \* the accounts of the vault, a function of their ids
    connect     \* connect[q]: the request

connectionVars == <<accounts, connect>>

Ways == {"local", "manual", "oauth"}
Kinds == {"long_lived", "rotating", "managed"}
Labels == {"none", "given"}
Entries == [cred : Credentials, kind : Kinds, label : Labels]

(* No list of accounts has been read. *)
Unread == [id \in {} |-> NoTarget]

Unasked == [at |-> "idle", how |-> "local", cred |-> NoTarget, target |-> NoTarget,
            id |-> NoTarget, seen |-> Unread, already |-> FALSE]

(* A plausible slip: everybody's token goes by the id of its login. *)
IdOfLogin(c) == LoginOf[c]

(* The id of the account a credential makes: the profile names it, or the
   digest of the token does (dedicatedTokenAccountId). *)
IdOf(c) == IF c \in Profiled THEN LoginOf[c] ELSE c

(* credentialKind: only the private app login is managed. *)
KindOf(c, how) ==
    IF how = "oauth" THEN "managed" ELSE IF c \in Renewable THEN "rotating" ELSE "long_lived"

(* The vault holds what earlier requests connected. *)
ConnectionsInit ==
    /\ \E held \in SUBSET Ids :
          accounts \in {a \in [held -> Entries] : \A id \in held :
                           /\ IF id \in Logins
                              THEN a[id].cred \in Profiled /\ LoginOf[a[id].cred] = id
                              ELSE a[id].cred = id
                           /\ a[id].kind = KindOf(a[id].cred, "manual")
                           /\ a[id].label = IF id \in Logins THEN "none" ELSE "given"}
    /\ connect = [q \in Connects |-> Unasked]

At(q, step) == connect[q].at = step
Becomes(q, r) == connect' = [connect EXCEPT ![q] = r]

-----------------------------------------------------------------------------
(* A request, for a new account or for the one whose card the dialog was
   opened from. *)
Asks(q, how) ==
    /\ At(q, "idle")
    /\ \E c \in Credentials, t \in DOMAIN accounts \cup {NoTarget} :
          Becomes(q, [Unasked EXCEPT !.at = "verify", !.how = how, !.cred = c, !.target = t])
    /\ UNCHANGED accounts

(* What this machine's command-line login holds: Claude's or OpenAI's. *)
AskLocal(q) == Asks(q, "local")

(* What the user pastes: it is parsed in the browser. *)
AskManual(q) == Asks(q, "manual")

(* The code of a private app login: the exchange may bring any of them. *)
AskCode(q) == Asks(q, "oauth")

(* The request is over and forgotten. *)
Over(answer) == [Unasked EXCEPT !.at = answer]

Refuse(q) == Becomes(q, Over("failed")) /\ UNCHANGED accounts

-----------------------------------------------------------------------------
(* The local credential cannot be read or understood, the vendor cannot be
   reached, or it refuses the token: nothing is renewed, nothing is saved. *)
VerifyFails(q) ==
    /\ At(q, "verify")
    /\ Refuse(q)

(* The profile names the account the dialog was opened for, if any. *)
RightTarget(r) == r.target \in {NoTarget, LoginOf[r.cred]}

(* buildStoredAccount: a managed login that came without a refresh token is
   thrown out. *)
Buildable(r) == r.how = "oauth" => r.cred \in Renewable

(* The vendor names the login the credential is of. *)
VerifyProfile(q) ==
    LET r == connect[q] IN
    /\ At(q, "verify") /\ r.cred \in Profiled
    /\ IF RightTarget(r) /\ Buildable(r)
       THEN Becomes(q, [r EXCEPT !.at = "read", !.id = IdOf(r.cred)]) /\ UNCHANGED accounts
       ELSE Refuse(q)

(* Usage is read and only the profile is denied, which the manual route alone
   puts up with, and only for a token that never rotates. *)
VerifyToken(q) ==
    LET r == connect[q] IN
    /\ At(q, "verify") /\ r.how = "manual" /\ r.cred \notin Profiled \cup Renewable
    /\ Becomes(q, [r EXCEPT !.at = "read", !.id = IdOf(r.cred)])
    /\ UNCHANGED accounts

Verify(q) == VerifyFails(q) \/ VerifyProfile(q) \/ VerifyToken(q)

-----------------------------------------------------------------------------
ByToken(r) == r.cred \notin Profiled

(* What saveDedicatedAccountWithoutProfile refuses with the vault before it:
   another account than the token's own, one that is gone, a shared login. *)
Conflicts(r, held) ==
    /\ ByToken(r)
    /\ \/ r.target # NoTarget /\ (r.target # r.id \/ r.id \notin DOMAIN held)
       \/ r.id \in DOMAIN held /\ held[r.id].kind # "long_lived"

(* A plausible slip: what an earlier attempt found is kept. *)
AlreadyOnce(r, held) == r.already \/ r.id \in DOMAIN held

(* alreadyConnected after one attempt; the profile-less save never takes it
   back. *)
Already(r, held) == (ByToken(r) /\ r.already) \/ r.id \in DOMAIN held

(* mutateAccounts hands its callback the latest vault. *)
Read(q) ==
    LET r == connect[q] IN
    /\ At(q, "read")
    /\ IF Conflicts(r, accounts) THEN Refuse(q)
       ELSE /\ Becomes(q, [r EXCEPT !.at = "write", !.seen = accounts,
                                    !.already = Already(r, accounts)])
            /\ UNCHANGED accounts

(* The entry it makes: the nickname of an account stays, and a token without
   a profile is given one. *)
EntryOf(r) ==
    [cred |-> r.cred, kind |-> KindOf(r.cred, r.how),
     label |-> IF r.id \in DOMAIN r.seen THEN r.seen[r.id].label
               ELSE IF ByToken(r) THEN "given" ELSE "none"]

Saved(r) ==
    accounts' = [id \in DOMAIN r.seen \cup {r.id} |->
                    IF id = r.id THEN EntryOf(r) ELSE r.seen[id]]

(* A plausible slip: the vault is written without being compared. *)
UnmovedAlways(r) == TRUE

(* The compare of the compare-and-swap. *)
Unmoved(r) == accounts = r.seen

(* It writes and answers, or finds that the vault has moved and starts over. *)
Write(q) ==
    LET r == connect[q] IN
    /\ At(q, "write")
    /\ IF Unmoved(r)
       THEN Saved(r) /\ Becomes(q, Over("connected"))
       ELSE Becomes(q, [r EXCEPT !.at = "read", !.seen = Unread]) /\ UNCHANGED accounts

(* The storage fails, and may have written all the same. *)
WriteFails(q) ==
    /\ At(q, "write")
    /\ \/ UNCHANGED accounts
       \/ Unmoved(connect[q]) /\ Saved(connect[q])
    /\ Becomes(q, Over("failed"))

-----------------------------------------------------------------------------
(* The edits of the user, made by PUT on a card of the dashboard. *)
Relabel(id, label) ==
    /\ accounts[id].label # label
    /\ accounts' = [accounts EXCEPT ![id] = [@ EXCEPT !.label = label]]
    /\ UNCHANGED connect

Remove(id) ==
    /\ accounts' = [other \in DOMAIN accounts \ {id} |-> accounts[other]]
    /\ UNCHANGED connect

ConnectionsNext ==
    \/ \E q \in Connects :
          \/ AskLocal(q) \/ AskManual(q) \/ AskCode(q) \/ Verify(q)
          \/ Read(q) \/ Write(q) \/ WriteFails(q)
    \/ \E id \in DOMAIN accounts :
          Remove(id) \/ \E label \in Labels : Relabel(id, label)

ConnectionsSpec == ConnectionsInit /\ [][ConnectionsNext]_connectionVars
=============================================================================
