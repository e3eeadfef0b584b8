---------------------------- MODULE ConnectionsProofs ----------------------------
(***************************************************************************)
(* What connecting promises, for any requests, logins and credentials.     *)
(*                                                                         *)
(* OwnIdentity is not inductive: a save writes what its request has seen   *)
(* under the id it has found.  Rightful says both are right of a request   *)
(* on its way to the write: the id is the one its credential proves, the   *)
(* vault it has seen meets OwnIdentity, it was opened for no account or    *)
(* for the one it saves, and a profile-less token that was opened for one  *)
(* has seen that account.                                                  *)
(***************************************************************************)
EXTENDS Board, TLAPS

Steps == {"idle", "verify", "read", "write", "connected", "failed"}

(* A request has its seven fields. *)
IsRequest(r) ==
    r \in [at : Steps, how : Ways, cred : {r.cred}, target : Ids \cup {NoTarget},
           id : Ids \cup {NoTarget}, seen : {r.seen}, already : BOOLEAN]

(* The credential of an account proves to be its own. *)
Proven(id, c) == IF id \in Logins THEN c \in Profiled /\ LoginOf[c] = id ELSE c = id

(* A vault of the right shape in which every account has its own credential. *)
Sound(held) ==
    /\ DOMAIN held \subseteq Ids
    /\ held \in [DOMAIN held -> Entries]
    /\ \A id \in DOMAIN held : Proven(id, held[id].cred)

(* A request that has been asked, then verified, then has read the vault. *)
Rightful(r) ==
    /\ r.at \in {"verify", "read", "write"} => r.cred \in Credentials
    /\ r.at \in {"read", "write"} =>
          /\ r.id = IdOf(r.cred) /\ r.id \in Ids
          /\ r.cred \in Profiled => RightTarget(r)
    /\ r.at = "write" =>
          /\ Sound(r.seen) /\ ~Conflicts(r, r.seen)
          /\ r.id \in DOMAIN r.seen => r.already
          /\ ~ByToken(r) /\ r.already => r.id \in DOMAIN r.seen

IInv ==
    /\ Sound(accounts)
    /\ connect = [q \in Connects |-> connect[q]]
    /\ \A q \in Connects : IsRequest(connect[q]) /\ Rightful(connect[q])

-----------------------------------------------------------------------------
(* A request over, and one not yet made, promises nothing. *)
LEMMA Ended ==
    ASSUME NEW answer \in Steps, answer \notin {"verify", "read", "write"}
    PROVE  IsRequest(Over(answer)) /\ Rightful(Over(answer)) /\ Over(answer).at = answer
<1> DEFINE r == Over(answer)
<1>1. Unasked \in [at : Steps, how : Ways, cred : {NoTarget}, target : Ids \cup {NoTarget},
                   id : Ids \cup {NoTarget}, seen : {Unread}, already : BOOLEAN]
  BY DEF Unasked, Steps, Ways
<1>2. r = [Unasked EXCEPT !.at = answer]
  BY DEF Over
<1>3. r \in [at : Steps, how : Ways, cred : {NoTarget}, target : Ids \cup {NoTarget},
             id : Ids \cup {NoTarget}, seen : {Unread}, already : BOOLEAN]
  BY <1>1, <1>2
<1>4. r.at = answer /\ r.cred = NoTarget /\ r.seen = Unread
  BY <1>1, <1>2, <1>3
<1> HIDE DEF r
<1>5. IsRequest(r) /\ Rightful(r)
  BY <1>3, <1>4 DEF IsRequest, Rightful
<1>6. QED  BY <1>4, <1>5 DEF r

(* A step that replaces one request by a rightful one. *)
LEMMA OneBecomes ==
    ASSUME IInv, NEW q \in Connects, NEW r, Becomes(q, r), IsRequest(r), Rightful(r)
    PROVE  /\ connect' = [p \in Connects |-> connect'[p]]
           /\ connect'[q] = r
           /\ \A p \in Connects : p # q => connect'[p] = connect[p]
           /\ \A p \in Connects : IsRequest(connect'[p]) /\ Rightful(connect'[p])
<1>1. connect' = [p \in Connects |-> IF p = q THEN r ELSE connect[p]]
  BY DEF Becomes, IInv
<1>2. QED  BY <1>1 DEF IInv

(* The vault stays sound where it stays the same. *)
LEMMA SameVault ==
    ASSUME IInv, UNCHANGED accounts
    PROVE  Sound(accounts)'
BY DEF IInv, Sound, Proven

(* What a request saves is sound. *)
LEMMA SaveSound ==
    ASSUME ConnectionsAssumption, NEW r, IsRequest(r), Rightful(r), r.at = "write", Saved(r)
    PROVE  Sound(accounts')
<1>1. /\ r.cred \in Credentials /\ r.id = IdOf(r.cred) /\ r.id \in Ids
      /\ Sound(r.seen) /\ r.how \in Ways
  BY DEF Rightful, IsRequest
<1>2. Proven(r.id, r.cred)
  BY <1>1 DEF IdOf, Proven, ConnectionsAssumption
<1>3. KindOf(r.cred, r.how) \in Kinds
  BY DEF KindOf, Kinds
<1>4. EntryOf(r) \in Entries /\ EntryOf(r).cred = r.cred
  <2>1. r.id \in DOMAIN r.seen => r.seen[r.id].label \in Labels
    BY <1>1 DEF Sound, Entries
  <2> DEFINE label == IF r.id \in DOMAIN r.seen THEN r.seen[r.id].label
                      ELSE IF ByToken(r) THEN "given" ELSE "none"
  <2>2. label \in Labels
    BY <2>1 DEF Labels
  <2>3. EntryOf(r) = [cred |-> r.cred, kind |-> KindOf(r.cred, r.how), label |-> label]
    BY DEF EntryOf
  <2> HIDE DEF label
  <2>4. QED  BY <2>2, <2>3, <1>1, <1>3 DEF Entries
<1>5. accounts' = [id \in DOMAIN r.seen \cup {r.id} |->
                      IF id = r.id THEN EntryOf(r) ELSE r.seen[id]]
  BY DEF Saved
<1>6. DOMAIN accounts' = DOMAIN r.seen \cup {r.id}
  BY <1>5
<1>7. \A id \in DOMAIN accounts' : accounts'[id] \in Entries /\ Proven(id, accounts'[id].cred)
  BY <1>1, <1>2, <1>4, <1>5 DEF Sound
<1>8. QED  BY <1>1, <1>5, <1>6, <1>7 DEF Sound

-----------------------------------------------------------------------------
(* A new request. *)
LEMMA AskStep ==
    ASSUME IInv, NEW q \in Connects, NEW how \in Ways, Asks(q, how)
    PROVE  IInv' /\ UNCHANGED accounts /\ At(q, "idle")
<1>1. PICK c \in Credentials, t \in DOMAIN accounts \cup {NoTarget} :
          Becomes(q, [Unasked EXCEPT !.at = "verify", !.how = how, !.cred = c, !.target = t])
  BY DEF Asks
<1> DEFINE r == [Unasked EXCEPT !.at = "verify", !.how = how, !.cred = c, !.target = t]
<1>2. t \in Ids \cup {NoTarget}
  BY DEF IInv, Sound
<1>3. /\ r.at = "verify" /\ r.cred = c /\ r.seen = Unread
      /\ r \in [at : Steps, how : Ways, cred : {c}, target : Ids \cup {NoTarget},
                id : Ids \cup {NoTarget}, seen : {Unread}, already : BOOLEAN]
  <2>1. Unasked \in [at : Steps, how : Ways, cred : {NoTarget}, target : {NoTarget},
                     id : {NoTarget}, seen : {Unread}, already : BOOLEAN]
    BY DEF Unasked, Steps, Ways
  <2>2. QED  BY <1>2, <2>1 DEF Steps
<1>4. IsRequest(r) /\ Rightful(r)
  BY <1>3 DEF IsRequest, Rightful
<1> HIDE DEF r
<1>5. QED  BY <1>1, <1>4, OneBecomes, SameVault DEF Asks, IInv, r

(* A request that is thrown out. *)
LEMMA RefuseStep ==
    ASSUME IInv, NEW q \in Connects, Refuse(q)
    PROVE  IInv' /\ UNCHANGED accounts /\ connect'[q].at = "failed"
<1>1. Becomes(q, Over("failed")) /\ UNCHANGED accounts
  BY DEF Refuse
<1>2. IsRequest(Over("failed")) /\ Rightful(Over("failed")) /\ Over("failed").at = "failed"
  BY Ended DEF Steps
<1>3. QED  BY <1>1, <1>2, OneBecomes, SameVault DEF IInv

(* The vendor has been asked. *)
LEMMA VerifyStep ==
    ASSUME ConnectionsAssumption, IInv, NEW q \in Connects, Verify(q)
    PROVE  IInv' /\ UNCHANGED accounts /\ At(q, "verify")
<1> DEFINE r == connect[q]
           checked == [r EXCEPT !.at = "read", !.id = IdOf(r.cred)]
<1>1. /\ At(q, "verify")
      /\ \/ Refuse(q)
         \/ /\ Becomes(q, checked) /\ UNCHANGED accounts
            /\ IF r.cred \in Profiled THEN RightTarget(r)
               ELSE r.cred \notin Profiled \cup Renewable
  BY DEF Verify, VerifyFails, VerifyProfile, VerifyToken
<1>2. CASE Refuse(q)
  BY <1>1, <1>2, RefuseStep
<1>3. CASE /\ Becomes(q, checked) /\ UNCHANGED accounts
           /\ IF r.cred \in Profiled THEN RightTarget(r)
              ELSE r.cred \notin Profiled \cup Renewable
  <2>1. IsRequest(r) /\ Rightful(r) /\ r.at = "verify"
    BY <1>1 DEF IInv, At
  <2>2. r.cred \in Credentials
    BY <2>1 DEF Rightful
  <2>3. IdOf(r.cred) \in Ids
    BY <1>3, <2>2 DEF IdOf, Ids, ConnectionsAssumption
  <2>4. /\ checked.at = "read" /\ checked.id = IdOf(r.cred) /\ checked.cred = r.cred
        /\ checked.target = r.target /\ checked.seen = r.seen
        /\ checked \in [at : Steps, how : Ways, cred : {r.cred}, target : Ids \cup {NoTarget},
                        id : Ids \cup {NoTarget}, seen : {r.seen}, already : BOOLEAN]
    BY <2>1, <2>3 DEF IsRequest, Steps
  <2> HIDE DEF checked
  <2>5. IsRequest(checked) /\ Rightful(checked)
    BY <1>3, <2>1, <2>2, <2>3, <2>4 DEF IsRequest, Rightful, RightTarget
  <2>6. QED  BY <1>1, <1>3, <2>5, OneBecomes, SameVault DEF IInv
<1>4. QED  BY <1>1, <1>2, <1>3

(* The vault is handed to the save. *)
LEMMA ReadStep ==
    ASSUME IInv, NEW q \in Connects, Read(q)
    PROVE  IInv' /\ UNCHANGED accounts /\ At(q, "read")
<1> DEFINE r == connect[q]
           ready == [r EXCEPT !.at = "write", !.seen = accounts, !.already = Already(r, accounts)]
<1>1. At(q, "read") /\ IsRequest(r) /\ Rightful(r) /\ r.at = "read"
  BY DEF Read, IInv, At
<1>2. CASE Conflicts(r, accounts)
  BY <1>1, <1>2, RefuseStep DEF Read
<1>3. CASE ~Conflicts(r, accounts)
  <2>1. Becomes(q, ready) /\ UNCHANGED accounts
    BY <1>3 DEF Read
  <2>2. Already(r, accounts) \in BOOLEAN
    BY DEF Already
  <2>3. /\ ready.at = "write" /\ ready.seen = accounts /\ ready.already = Already(r, accounts)
        /\ ready.id = r.id /\ ready.cred = r.cred /\ ready.target = r.target
        /\ ready \in [at : Steps, how : Ways, cred : {r.cred}, target : Ids \cup {NoTarget},
                      id : Ids \cup {NoTarget}, seen : {accounts}, already : BOOLEAN]
    BY <1>1, <2>2 DEF IsRequest, Steps
  <2>4. Sound(accounts)
    BY DEF IInv
  <2> DEFINE already == Already(r, accounts)
  <2>5. /\ r.id \in DOMAIN accounts => already
        /\ ~ByToken(r) /\ already => r.id \in DOMAIN accounts
    BY DEF Already
  <2> HIDE DEF already
  <2>6. ByToken(ready) = ByToken(r) /\ RightTarget(ready) = RightTarget(r)
    BY <2>3 DEF ByToken, RightTarget
  <2> HIDE DEF ready
  <2>7. ~Conflicts(ready, accounts)
    BY <1>3, <2>3 DEF Conflicts, ByToken
  <2>8. IsRequest(ready)
    BY <2>3 DEF IsRequest
  <2>9. Rightful(ready)
    BY <1>1, <2>3, <2>4, <2>5, <2>6, <2>7 DEF Rightful, already
  <2>10. QED  BY <1>1, <2>1, <2>8, <2>9, OneBecomes, SameVault DEF IInv
<1>4. QED  BY <1>2, <1>3

(* The save writes, or starts over. *)
LEMMA WriteStep ==
    ASSUME ConnectionsAssumption, IInv, NEW q \in Connects, Write(q)
    PROVE  /\ IInv' /\ At(q, "write")
           /\ \/ Unmoved(connect[q]) /\ Saved(connect[q])
              \/ UNCHANGED accounts /\ connect'[q].at = "read"
<1> DEFINE r == connect[q]
           again == [r EXCEPT !.at = "read", !.seen = Unread]
<1>1. At(q, "write") /\ IsRequest(r) /\ Rightful(r) /\ r.at = "write"
  BY DEF Write, IInv, At
<1>2. CASE Unmoved(r)
  <2>1. Saved(r) /\ Becomes(q, Over("connected"))
    BY <1>2 DEF Write
  <2>2. Sound(accounts')
    BY <1>1, <2>1, SaveSound
  <2>3. IsRequest(Over("connected")) /\ Rightful(Over("connected"))
    BY Ended DEF Steps
  <2>4. QED  BY <1>1, <1>2, <2>1, <2>2, <2>3, OneBecomes DEF IInv
<1>3. CASE ~Unmoved(r)
  <2>1. Becomes(q, again) /\ UNCHANGED accounts
    BY <1>3 DEF Write
  <2>2. /\ again.at = "read" /\ again.seen = Unread /\ again.id = r.id
        /\ again.cred = r.cred /\ again.target = r.target
        /\ again \in [at : Steps, how : Ways, cred : {r.cred}, target : Ids \cup {NoTarget},
                      id : Ids \cup {NoTarget}, seen : {Unread}, already : BOOLEAN]
    BY <1>1 DEF IsRequest, Steps
  <2> HIDE DEF again
  <2>3. IsRequest(again) /\ Rightful(again) /\ again.at = "read"
    BY <1>1, <2>2 DEF IsRequest, Rightful, RightTarget
  <2>4. QED  BY <1>1, <2>1, <2>3, OneBecomes, SameVault DEF IInv
<1>4. QED  BY <1>2, <1>3

(* The storage fails with the write done or not. *)
LEMMA WriteFailsStep ==
    ASSUME ConnectionsAssumption, IInv, NEW q \in Connects, WriteFails(q)
    PROVE  /\ IInv' /\ At(q, "write") /\ connect'[q].at = "failed"
           /\ UNCHANGED accounts \/ (Unmoved(connect[q]) /\ Saved(connect[q]))
<1> DEFINE r == connect[q]
<1>1. At(q, "write") /\ IsRequest(r) /\ Rightful(r) /\ r.at = "write"
  BY DEF WriteFails, IInv, At
<1>2. IsRequest(Over("failed")) /\ Rightful(Over("failed")) /\ Over("failed").at = "failed"
  BY Ended DEF Steps
<1>3. Becomes(q, Over("failed"))
  BY DEF WriteFails
<1>4. UNCHANGED accounts \/ (Unmoved(r) /\ Saved(r))
  BY DEF WriteFails
<1>5. Sound(accounts')
  BY <1>1, <1>4, SaveSound, SameVault
<1>6. QED  BY <1>1, <1>2, <1>3, <1>4, <1>5, OneBecomes DEF IInv

(* The user renames an account. *)
LEMMA RelabelStep ==
    ASSUME IInv, NEW id \in DOMAIN accounts, NEW label \in Labels, Relabel(id, label)
    PROVE  IInv' /\ UNCHANGED connect
<1> DEFINE e == [accounts[id] EXCEPT !.label = label]
<1>1. accounts[id] \in Entries
  BY DEF IInv, Sound
<1>2. e \in Entries /\ e.cred = accounts[id].cred
  BY <1>1 DEF Entries
<1>3. accounts' = [accounts EXCEPT ![id] = e] /\ UNCHANGED connect
  BY DEF Relabel
<1> HIDE DEF e
<1>4. accounts' = [other \in DOMAIN accounts |-> IF other = id THEN e ELSE accounts[other]]
  BY <1>3 DEF IInv, Sound
<1>5. \A other \in DOMAIN accounts : accounts'[other] \in Entries
                                     /\ accounts'[other].cred = accounts[other].cred
  BY <1>2, <1>4 DEF IInv, Sound
<1>6. Sound(accounts')
  BY <1>4, <1>5 DEF IInv, Sound
<1>7. QED  BY <1>3, <1>6 DEF IInv

(* The user removes an account. *)
LEMMA RemoveStep ==
    ASSUME IInv, NEW id \in DOMAIN accounts, Remove(id)
    PROVE  IInv' /\ UNCHANGED connect
<1>1. accounts' = [other \in DOMAIN accounts \ {id} |-> accounts[other]] /\ UNCHANGED connect
  BY DEF Remove
<1>2. Sound(accounts')
  BY <1>1 DEF IInv, Sound
<1>3. QED  BY <1>1, <1>2 DEF IInv

-----------------------------------------------------------------------------
(* One step of a request. *)
Moves(q) ==
    \/ AskLocal(q) \/ AskManual(q) \/ AskCode(q) \/ Verify(q)
    \/ Read(q) \/ Write(q) \/ WriteFails(q)

LEMMA InitSound == ASSUME ConnectionsAssumption, ConnectionsInit PROVE IInv
<1>1. PICK held \in SUBSET Ids :
          accounts \in {a \in [held -> Entries] : \A id \in held :
                           /\ IF id \in Logins
                              THEN a[id].cred \in Profiled /\ LoginOf[a[id].cred] = id
                              ELSE a[id].cred = id
                           /\ a[id].kind = KindOf(a[id].cred, "manual")
                           /\ a[id].label = IF id \in Logins THEN "none" ELSE "given"}
  BY DEF ConnectionsInit
<1>2. Sound(accounts)
  <2>1. accounts \in [held -> Entries] /\ DOMAIN accounts = held
    BY <1>1
  <2>2. \A id \in held : Proven(id, accounts[id].cred)
    BY <1>1 DEF Proven
  <2>3. QED  BY <2>1, <2>2 DEF Sound
<1>3. connect = [q \in Connects |-> Unasked]
  BY DEF ConnectionsInit
<1>4. Unasked \in [at : Steps, how : Ways, cred : {NoTarget}, target : Ids \cup {NoTarget},
                   id : Ids \cup {NoTarget}, seen : {Unread}, already : BOOLEAN]
      /\ Unasked.at = "idle" /\ Unasked.cred = NoTarget /\ Unasked.seen = Unread
  BY DEF Unasked, Steps, Ways
<1>5. IsRequest(Unasked) /\ Rightful(Unasked)
  BY <1>4 DEF IsRequest, Rightful
<1>6. QED  BY <1>2, <1>3, <1>5 DEF IInv

(* A step of one request is a step of no other. *)
LEMMA OneMoves ==
    ASSUME IInv, NEW p \in Connects, Moves(p), NEW q \in Connects, q # p
    PROVE  connect'[q] = connect[q]
<1>1. \E r : Becomes(p, r)
  <2>1. CASE AskLocal(p) \/ AskManual(p) \/ AskCode(p)
    BY <2>1 DEF AskLocal, AskManual, AskCode, Asks
  <2>2. CASE Verify(p)
    BY <2>2 DEF Verify, VerifyFails, VerifyProfile, VerifyToken, Refuse
  <2>3. CASE Read(p)
    BY <2>3 DEF Read, Refuse
  <2>4. CASE Write(p) \/ WriteFails(p)
    BY <2>4 DEF Write, WriteFails
  <2>5. QED  BY <2>1, <2>2, <2>3, <2>4 DEF Moves
<1>2. QED  BY <1>1 DEF Becomes, IInv

(* Every step of a request keeps the invariant, and changes the vault, or
   says that it has, only by the write that found it unmoved. *)
LEMMA MoveStep ==
    ASSUME ConnectionsAssumption, IInv, NEW q \in Connects, Moves(q)
    PROVE  /\ IInv'
           /\ \/ At(q, "write") /\ Unmoved(connect[q]) /\ Saved(connect[q])
              \/ UNCHANGED accounts /\ ~(At(q, "write") /\ connect'[q].at = "connected")
<1>1. CASE AskLocal(q) \/ AskManual(q) \/ AskCode(q)
  <2>1. PICK how \in Ways : Asks(q, how)
    BY <1>1 DEF AskLocal, AskManual, AskCode, Ways
  <2>2. QED  BY <2>1, AskStep DEF At
<1>2. CASE Verify(q)
  BY <1>2, VerifyStep DEF At
<1>3. CASE Read(q)
  BY <1>3, ReadStep DEF At
<1>4. CASE Write(q)
  BY <1>4, WriteStep
<1>5. CASE WriteFails(q)
  BY <1>5, WriteFailsStep
<1>6. QED  BY <1>1, <1>2, <1>3, <1>4, <1>5 DEF Moves

(* The same of any step of the specification. *)
LEMMA NextStep ==
    ASSUME ConnectionsAssumption, IInv, [ConnectionsNext]_connectionVars
    PROVE  /\ IInv'
           /\ \A q \in Connects : connect'[q] # connect[q] =>
                 \/ At(q, "write") /\ Unmoved(connect[q]) /\ Saved(connect[q])
                 \/ UNCHANGED accounts /\ ~(At(q, "write") /\ connect'[q].at = "connected")
<1>1. CASE \E q \in Connects : Moves(q)
  <2>1. PICK p \in Connects : Moves(p)
    BY <1>1
  <2>2. QED  BY <2>1, MoveStep, OneMoves
<1>2. CASE \E id \in DOMAIN accounts : Remove(id) \/ \E label \in Labels : Relabel(id, label)
  BY <1>2, RemoveStep, RelabelStep
<1>3. CASE UNCHANGED connectionVars
  <2>1. UNCHANGED accounts /\ UNCHANGED connect
    BY <1>3 DEF connectionVars
  <2>2. QED  BY <2>1, SameVault DEF IInv
<1>4. QED  BY <1>1, <1>2, <1>3 DEF ConnectionsNext, Moves

-----------------------------------------------------------------------------
(* The invariant holds in every behaviour. *)
THEOREM Inductive == ConnectionsSpec => []IInv
<1>1. ConnectionsInit => IInv
  BY InitSound, ConnectionsAssumption
<1>2. IInv /\ [ConnectionsNext]_connectionVars => IInv'
  BY NextStep, ConnectionsAssumption
<1>3. QED  BY <1>1, <1>2, PTL DEF ConnectionsSpec

(* No account ever polls with a login that is not its own, however requests,
   retries, failures and the user's edits interleave. *)
THEOREM Identity == ConnectionsSpec => []OwnIdentity
<1>1. IInv => OwnIdentity
  BY DEF IInv, Sound, Proven, OwnIdentity
<1>2. QED  BY <1>1, Inductive, PTL

(* A save changes the account of its own request and no other. *)
LEMMA SaveTouchesOne ==
    ASSUME NEW r, NEW held, Sound(held), Rightful(r), r.at = "write", r.seen = held,
           NEW saved,
           saved = [id \in DOMAIN held \cup {r.id} |-> IF id = r.id THEN EntryOf(r) ELSE held[id]]
    PROVE  /\ DOMAIN saved = DOMAIN held \cup {r.id}
           /\ \A id \in DOMAIN held : /\ saved[id].label = held[id].label
                                      /\ saved[id] # held[id] => id = r.id
           /\ r.target # NoTarget => r.target = r.id
           /\ r.target # NoTarget /\ ByToken(r) => r.id \in DOMAIN held
<1>1. r.id \in DOMAIN held => EntryOf(r).label = held[r.id].label
  BY DEF EntryOf
<1>2. r.target # NoTarget => r.target = r.id /\ (ByToken(r) => r.id \in DOMAIN held)
  <2>1. CASE ByToken(r)
    BY <2>1 DEF Rightful, Conflicts
  <2>2. CASE ~ByToken(r)
    BY <2>2 DEF Rightful, ByToken, RightTarget, IdOf
  <2>3. QED  BY <2>1, <2>2
<1>3. QED  BY <1>1, <1>2

(* Connecting never touches another account, nor a nickname, nor brings back
   a removed account for a token without a profile. *)
THEOREM TouchesOne == ConnectionsSpec => ConnectTouchesOne
<1> DEFINE Touches(q) ==
          LET r == connect[q]
              fresh == DOMAIN accounts' \ DOMAIN accounts
          IN  /\ DOMAIN accounts \subseteq DOMAIN accounts' /\ fresh \subseteq {r.id}
              /\ \A id \in DOMAIN accounts :
                    /\ accounts'[id].label = accounts[id].label
                    /\ accounts'[id] # accounts[id] => id = r.id
              /\ accounts' # accounts /\ r.target # NoTarget =>
                    r.target = r.id /\ (ByToken(r) => fresh = {})
<1>1. ASSUME IInv, [ConnectionsNext]_connectionVars, NEW q \in Connects, connect'[q] # connect[q]
      PROVE  Touches(q)
  <2>1. CASE UNCHANGED accounts
    BY <2>1
  <2>2. CASE At(q, "write") /\ Unmoved(connect[q]) /\ Saved(connect[q])
    <3>1. /\ Sound(accounts) /\ Rightful(connect[q]) /\ connect[q].at = "write"
          /\ connect[q].seen = accounts
          /\ accounts' = [id \in DOMAIN accounts \cup {connect[q].id} |->
                             IF id = connect[q].id THEN EntryOf(connect[q]) ELSE accounts[id]]
      BY <1>1, <2>2 DEF IInv, At, Unmoved, Saved
    <3>2. QED  BY <3>1, SaveTouchesOne
  <2>3. QED  BY <1>1, <2>1, <2>2, NextStep, ConnectionsAssumption
<1>2. IInv /\ [ConnectionsNext]_connectionVars =>
         [\A q \in Connects : connect'[q] # connect[q] => Touches(q)]_connectionVars
  BY <1>1
<1>3. QED  BY <1>2, Inductive, PTL DEF ConnectionsSpec, ConnectTouchesOne

(* Whoever finds the account there is told so, and with a credential that
   proves its login nobody else is.  (A token without a profile may be called
   connected already although its account is made anew: of it the theorem
   says the first half alone.) *)
THEOREM Truly == ConnectionsSpec => ToldTruly
<1>1. ASSUME IInv, [ConnectionsNext]_connectionVars, NEW q \in Connects,
             At(q, "write"), connect'[q].at = "connected"
      PROVE  /\ connect[q].id \in DOMAIN accounts => connect[q].already
             /\ ~ByToken(connect[q]) /\ connect[q].already => connect[q].id \in DOMAIN accounts
  <2>1. connect'[q] # connect[q]
    BY <1>1 DEF At
  <2>2. connect[q].seen = accounts /\ Rightful(connect[q])
    BY <1>1, <2>1, NextStep, ConnectionsAssumption DEF Unmoved, IInv
  <2>3. QED  BY <1>1, <2>2 DEF Rightful, At
<1>2. IInv /\ [ConnectionsNext]_connectionVars =>
         [\A q \in Connects : At(q, "write") /\ connect'[q].at = "connected" =>
             /\ connect[q].id \in DOMAIN accounts => connect[q].already
             /\ ~ByToken(connect[q]) /\ connect[q].already =>
                   connect[q].id \in DOMAIN accounts]_connectionVars
  BY <1>1
<1>3. QED  BY <1>2, Inductive, PTL DEF ConnectionsSpec, ToldTruly

(* The other parts of the board leave the connections alone: what is proved
   of them holds of the whole. *)
THEOREM PartOfBoard == BoardSpec => ConnectionsSpec
<1>1. BoardInit => ConnectionsInit
  BY DEF BoardInit
<1>2. [BoardNext]_boardVars => [ConnectionsNext]_connectionVars
  BY DEF BoardNext, boardVars, connectionVars
<1>3. QED  BY <1>1, <1>2, PTL DEF BoardSpec, ConnectionsSpec
=============================================================================
