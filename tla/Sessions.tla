-------------------------------- MODULE Sessions --------------------------------
(***************************************************************************)
(* The ways into the program: to a session of one's own (Access), and to a *)
(* connected account by an OpenAI device code (DeviceLogin), by the secure *)
(* Claude callback (OAuthAttempts), or by the dialog and its pairing codes *)
(* (Pairing).  They share no state but the vault they end in, so they are  *)
(* checked side by side: a behaviour is one of the way it begins with.     *)
(***************************************************************************)
EXTENDS DeviceLoginProps, OAuthAttemptsProps, PairingProps, AccessProps

VARIABLE way        \* the part that runs

sessionsVars == <<way, deviceVars, oauthVars, pairVars, accessVars>>

SessionsInit ==
    /\ way \in {"device", "callback", "dialog", "access"}
    /\ DeviceInit /\ OAuthInit /\ PairInit /\ AccessInit

SessionsNext ==
    /\ UNCHANGED way
    /\ \/ way = "device" /\ DeviceNext /\ UNCHANGED <<oauthVars, pairVars, accessVars>>
       \/ way = "callback" /\ OAuthNext /\ UNCHANGED <<deviceVars, pairVars, accessVars>>
       \/ way = "dialog" /\ PairNext /\ UNCHANGED <<deviceVars, oauthVars, accessVars>>
       \/ way = "access" /\ AccessNext /\ UNCHANGED <<deviceVars, oauthVars, pairVars>>

SessionsSpec == SessionsInit /\ [][SessionsNext]_sessionsVars /\ PairFairness

(* However an account is connected, a code or a state is completed once and
   a finished attempt speaks of a saved account: what each of the three ways
   promises of its single-use attempts. *)
AttemptsCompleteOnce == OneExchange /\ ClaimKept /\ CodeSettlesOnce
=============================================================================
