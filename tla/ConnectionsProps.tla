---------------------------- MODULE ConnectionsProps ----------------------------
(* What connecting promises of the accounts in the vault. *)
EXTENDS Connections

(* Every account and every request is of the shape the module declares. *)
ConnectionsTypeOK ==
    /\ DOMAIN accounts \subseteq Ids
    /\ \A id \in DOMAIN accounts : accounts[id] \in Entries
    /\ \A q \in Connects :
          /\ connect[q].at \in {"idle", "verify", "read", "write", "connected", "failed"}
          /\ connect[q].how \in Ways
          /\ connect[q].target \in Ids \cup {NoTarget} /\ connect[q].id \in Ids \cup {NoTarget}

(* No account polls with somebody else's login, or with one that nothing
   proves to be its own: the account of a known identity holds a credential
   whose profile named it, and a profile-less token never ends up under any
   id but its own (connect-account.ts:203-207), or a card would show the
   usage of another login. *)
OwnIdentity ==
    \A id \in DOMAIN accounts :
        LET c == accounts[id].cred IN
        IF id \in Logins THEN c \in Profiled /\ LoginOf[c] = id ELSE c = id

(* Connecting changes one account: the one its dialog was opened for, when it
   was opened for one.  Every other account stays as it is at that moment,
   and its nickname too, whatever the user has renamed or removed since the
   request began; and a token without a profile brings no removed account
   back. *)
ConnectTouchesOne ==
    [][\A q \in Connects : connect'[q] # connect[q] =>
          LET r == connect[q]
              fresh == DOMAIN accounts' \ DOMAIN accounts
          IN  /\ DOMAIN accounts \subseteq DOMAIN accounts' /\ fresh \subseteq {r.id}
              /\ \A id \in DOMAIN accounts :
                    /\ accounts'[id].label = accounts[id].label
                    /\ accounts'[id] # accounts[id] => id = r.id
              /\ accounts' # accounts /\ r.target # NoTarget =>
                    r.target = r.id /\ (ByToken(r) => fresh = {})]_connectionVars

(* Whoever finds the account there is told so, however many attempts the write
   took; and whoever is told so found it there, unless the credential is a
   token without a profile: its answer is fixed before the write, which may
   make the account anew when it was removed in between. *)
ToldTruly ==
    [][\A q \in Connects : At(q, "write") /\ connect'[q].at = "connected" =>
          /\ connect[q].id \in DOMAIN accounts => connect[q].already
          /\ ~ByToken(connect[q]) /\ connect[q].already => connect[q].id \in DOMAIN accounts]_connectionVars
=============================================================================
