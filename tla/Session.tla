------------------------------- MODULE Session -------------------------------
(***************************************************************************)
(* Accounts on the server and the login session of one profile of the      *)
(* client: registration and approval, login and logout, and the goroutines *)
(* that use and renew the tokens.  These are the loops that               *)
(* startBackgroundSyncLoop starts at every login and the passes that       *)
(* forceSync starts; nothing keeps them apart, and each works with the     *)
(* token it read when it dialled.                                          *)
(*                                                                         *)
(* What a pass exchanges once GetProfile has answered is the subject of    *)
(* ScoreSync and ConcertSync.  Both tokens of a login are written one      *)
(* right after the other, here in one step.  Passwords are left out.       *)
(***************************************************************************)
EXTENDS Naturals

CONSTANTS
  Account,
  Server,
  Home,    \* Home[a]: the server whose database has account a
  Users,   \* the accounts used on this client
  Thread,  \* bound: the goroutines that exist at the same time
  Tokens,  \* bound: the numbers of the token pairs; the last never expire
  None

ASSUME SessionAssumption ==
  /\ Home \in [Account -> Server]
  /\ Users \subseteq Account
  /\ Tokens \in Nat \ {0}
  /\ None \notin Server \cup {"pending", "active", "banned"}

VARIABLES
  \* servers
  row,      \* models.User.Status; None: no row
  admin,    \* the accounts with Role "admin"
  reg,      \* how far a RegisterUser call for the account is
  issued,   \* token pairs issued so far
  expired,  \* the access tokens up to this one have expired,
  dead,     \* the refresh tokens up to this one
  up,       \* the servers that can be reached
  \* client
  open,     \* the session of the profile has not been cancelled
  tokens,   \* prefToken and prefRefresh; None: both empty
  server,   \* prefServer
  online,   \* isServerOnline
  thread,
  \* history
  excuse,   \* something has happened that may end a login
  renewing  \* the goroutines that were renewing at the last logout

userVars  == <<row, admin, reg>>
tokenVars == <<issued, expired, dead>>
vars == <<userVars, tokenVars, up, open, tokens, server, online, thread, excuse, renewing>>

-----------------------------------------------------------------------------
(* Types *)

Pair == [user : Users, no : 1..Tokens]

ASSUME NoPairAssumption == None \notin Pair

\* pc of a goroutine: "login" LoginUser has answered, "top" of the loop,
\* "ask" the loop's GetProfile is under way; in performFullSync: "begin",
\* "profile" GetProfile, "refresh" RefreshSession is under way, "store" it has
\* answered, "sync" the exchange is under way.
Routine == [pc : {"off", "login", "top", "ask", "begin", "profile", "refresh", "store", "sync"},
            loop : BOOLEAN,              \* of startBackgroundSyncLoop
            old : BOOLEAN,               \* of a cancelled session
            server : Server \cup {None}, \* its parameter
            pair : Pair \cup {None}]     \* the tokens it read or was sent

Free == [pc |-> "off", loop |-> FALSE, old |-> FALSE, server |-> None, pair |-> None]

TypeOK ==
  /\ row \in [Account -> {None, "pending", "active", "banned"}]
  /\ admin \in SUBSET Account
  /\ reg \in [Account -> {"no", "checked", "first", "later"}]
  /\ issued \in 0..Tokens /\ expired \in 0..Tokens /\ dead \in 0..Tokens
  /\ up \in SUBSET Server
  /\ open \in BOOLEAN
  /\ tokens \in Pair \cup {None}
  /\ server \in Server \cup {None}
  /\ online \in BOOLEAN
  /\ thread \in [Thread -> Routine]
  /\ excuse \in BOOLEAN
  /\ renewing \in SUBSET Thread

Init ==
  /\ row = [a \in Account |-> None]
  /\ admin = {}
  /\ reg = [a \in Account |-> "no"]
  /\ issued = 0 /\ expired = 0 /\ dead = 0
  /\ up = Server
  /\ open = TRUE
  /\ tokens = None
  /\ server = None
  /\ online = FALSE
  /\ thread = [t \in Thread |-> Free]
  /\ excuse = FALSE
  /\ renewing = {}

-----------------------------------------------------------------------------
(* Accounts: user_service.go and the pages of the administrator *)

\* RegisterUser finds no row with the e-mail address (bound: the accounts
\* are registered before the first login),
RegisterCheck(a) ==
  /\ reg[a] = "no" /\ row[a] = None /\ issued = 0
  /\ reg' = [reg EXCEPT ![a] = "checked"]
  /\ UNCHANGED <<row, admin, tokenVars, up, open, tokens, server, online, thread, excuse, renewing>>

\* Mutant: counts registrations under way too.
RegisterCountPending(a) ==
  /\ reg[a] = "checked"
  /\ reg' = [reg EXCEPT ![a] =
       IF \A b \in Account : Home[b] = Home[a] => row[b] = None /\ (b = a \/ reg[b] = "no")
       THEN "first" ELSE "later"]
  /\ UNCHANGED <<row, admin, tokenVars, up, open, tokens, server, online, thread, excuse, renewing>>

\* counts the rows,
RegisterCount(a) ==
  /\ reg[a] = "checked"
  /\ reg' = [reg EXCEPT ![a] =
       IF \A b \in Account : Home[b] = Home[a] => row[b] = None THEN "first" ELSE "later"]
  /\ UNCHANGED <<row, admin, tokenVars, up, open, tokens, server, online, thread, excuse, renewing>>

\* and inserts one: the first account is an administrator.
RegisterCreate(a) ==
  /\ reg[a] \in {"first", "later"}
  /\ reg' = [reg EXCEPT ![a] = "no"]
  /\ row' = [row EXCEPT ![a] = IF reg[a] = "first" THEN "active" ELSE "pending"]
  /\ admin' = IF reg[a] = "first" THEN admin \cup {a} ELSE admin
  /\ UNCHANGED <<tokenVars, up, open, tokens, server, online, thread, excuse, renewing>>

\* basicAuth: some active administrator of the server asks (bound: users of
\* this client are banned).
Administrated(a) == \E m \in admin : Home[m] = Home[a] /\ row[m] = "active"

Approve(a) ==
  /\ row[a] \in {"pending", "banned"} /\ Administrated(a)
  /\ row' = [row EXCEPT ![a] = "active"]
  /\ UNCHANGED <<admin, reg, tokenVars, up, open, tokens, server, online, thread, excuse, renewing>>

Reject(a) ==
  /\ a \in Users /\ row[a] \in {"pending", "active"} /\ Administrated(a)
  /\ row' = [row EXCEPT ![a] = "banned"]
  /\ excuse' = TRUE
  /\ UNCHANGED <<admin, reg, tokenVars, up, open, tokens, server, online, thread, renewing>>

Accounts ==
  \E a \in Account :
    \/ RegisterCheck(a) \/ RegisterCount(a) \/ RegisterCreate(a)
    \/ Approve(a) \/ Reject(a)

-----------------------------------------------------------------------------
(* Tokens and the network *)

\* An access token expires hours after it was issued, its refresh token after
\* a month: the older ones first.
Expire ==
  /\ expired < issued /\ expired + 1 < Tokens
  /\ expired' = expired + 1
  /\ UNCHANGED <<userVars, issued, dead, up, open, tokens, server, online, thread, excuse, renewing>>

RefreshExpire ==
  /\ dead < expired
  /\ dead' = dead + 1
  /\ excuse' = TRUE
  /\ UNCHANGED <<userVars, issued, expired, up, open, tokens, server, online, thread, renewing>>

Down(s) ==
  /\ s \in up
  /\ up' = up \ {s}
  /\ excuse' = TRUE
  /\ UNCHANGED <<userVars, tokenVars, open, tokens, server, online, thread, renewing>>

Up(s) ==
  /\ s \notin up
  /\ up' = up \cup {s}
  /\ UNCHANGED <<userVars, tokenVars, open, tokens, server, online, thread, excuse, renewing>>

\* generateTokens
Number == IF issued < Tokens THEN issued + 1 ELSE issued
Issue(a) == [user |-> a, no |-> Number]

\* validateToken, with the error codes the client tells apart.
Profile(s, k) ==
  IF s \notin up THEN "Unavailable"
  ELSE IF Home[k.user] # s \/ k.no <= expired THEN "Unauthenticated"
  ELSE IF row[k.user] # "active" THEN "PermissionDenied"
  ELSE "OK"

\* Mutant: rotation, only the refresh token issued last is accepted.
RefreshesLast(s, k) ==
  s \in up /\ Home[k.user] = s /\ k.no = issued /\ k.no > dead /\ row[k.user] = "active"

\* RefreshToken: nothing remembers which refresh token was used already.
Refreshes(s, k) ==
  s \in up /\ Home[k.user] = s /\ k.no > dead /\ row[k.user] = "active"

-----------------------------------------------------------------------------
(* The client: what the goroutines share *)

Put(t, r) == thread' = [thread EXCEPT ![t] = r]
Go(t, pc) == Put(t, [thread[t] EXCEPT !.pc = pc, !.pair = None])

\* The end of performFullSync: the loop goes on, forceSync's goroutine ends.
Done(t) == Put(t, IF thread[t].loop THEN [thread[t] EXCEPT !.pc = "top", !.pair = None]
                                    ELSE Free)

\* setServerOnline, of the session the goroutine was started in.
SetOnline(t, b) == online' = IF thread[t].old THEN online ELSE b

Renewing == {t \in Thread : thread[t].pc \in {"refresh", "store"}}

\* The client forgets or replaces its tokens.
Forget == tokens' = None /\ renewing' = IF tokens = None THEN renewing ELSE Renewing
Keep(k) == tokens' = k /\ renewing' = {}

Loop(s) == [Free EXCEPT !.pc = "top", !.loop = TRUE, !.server = s]

-----------------------------------------------------------------------------
(* The client: what the user does *)

\* LoginUser accepts an active account and a free goroutine has the answer;
\* refused logins change nothing (bound: all accounts are registered).
Login(a, t) ==
  /\ open /\ thread[t].pc = "off" /\ \A b \in Account : row[b] # None
  /\ Home[a] \in up /\ row[a] = "active"
  /\ issued' = Number
  /\ Put(t, [Free EXCEPT !.pc = "login", !.server = Home[a], !.pair = Issue(a)])
  /\ UNCHANGED <<userVars, expired, dead, up, open, tokens, server, online, excuse, renewing>>

\* The login callback stores them and starts another loop.
LoginStore(t) ==
  /\ thread[t].pc = "login"
  /\ Keep(thread[t].pair)
  /\ server' = thread[t].server
  /\ Put(t, [Loop(thread[t].server) EXCEPT !.old = thread[t].old])
  /\ UNCHANGED <<userVars, tokenVars, up, open, online, excuse>>

Logout ==
  /\ open /\ tokens # None
  /\ Forget
  /\ online' = FALSE
  /\ UNCHANGED <<userVars, tokenVars, up, open, server, thread, excuse>>

ForceSync(t) ==
  /\ open /\ tokens # None /\ thread[t].pc = "off"
  /\ Put(t, [Free EXCEPT !.pc = "begin", !.server = server])
  /\ UNCHANGED <<userVars, tokenVars, up, open, tokens, server, online, excuse, renewing>>

\* onSwitchProfile cancels the session; calls under way will fail.
SwitchProfile ==
  /\ open
  /\ open' = FALSE
  /\ online' = FALSE
  /\ excuse' = TRUE
  /\ thread' = [t \in Thread |->
       IF thread[t].pc = "off" THEN Free ELSE [thread[t] EXCEPT !.old = TRUE]]
  /\ UNCHANGED <<userVars, tokenVars, up, tokens, server, renewing>>

\* launchProfileSession for the same profile again
Launch(t) ==
  /\ ~open /\ thread[t].pc = "off"
  /\ open' = TRUE
  /\ IF tokens = None THEN UNCHANGED thread ELSE Put(t, Loop(server))
  /\ UNCHANGED <<userVars, tokenVars, up, tokens, server, online, excuse, renewing>>

User ==
  \/ \E t \in Thread : (\E a \in Users : Login(a, t)) \/ ForceSync(t) \/ Launch(t)
  \/ Logout
  \/ SwitchProfile

-----------------------------------------------------------------------------
(* The client: startBackgroundSyncLoop *)

\* The ticker fires; without a token there is nobody to ask for.
LoopTick(t) ==
  /\ thread[t].pc = "top" /\ ~thread[t].old
  /\ IF tokens = None
     THEN online /\ SetOnline(t, FALSE) /\ UNCHANGED thread
     ELSE Put(t, [thread[t] EXCEPT !.pc = "ask", !.pair = tokens]) /\ UNCHANGED online
  /\ UNCHANGED <<userVars, tokenVars, up, open, tokens, server, excuse, renewing>>

\* After the session was cancelled the loop ends.
LoopEnd(t) ==
  /\ thread[t].pc = "top" /\ thread[t].old
  /\ Put(t, Free)
  /\ UNCHANGED <<userVars, tokenVars, up, open, tokens, server, online, excuse, renewing>>

\* Mutant: an error of the background check is only logged.
LoopRefusedQuietly(t) ==
  /\ thread[t].pc = "ask"
  /\ thread[t].old \/ Profile(thread[t].server, thread[t].pair) # "OK"
  /\ Done(t)
  /\ UNCHANGED <<userVars, tokenVars, up, open, tokens, server, online, excuse, renewing>>

\* GetProfile fails, for whatever reason.
LoopRefused(t) ==
  /\ thread[t].pc = "ask"
  /\ thread[t].old \/ Profile(thread[t].server, thread[t].pair) # "OK"
  /\ SetOnline(t, FALSE)
  /\ Done(t)
  /\ UNCHANGED <<userVars, tokenVars, up, open, tokens, server, excuse, renewing>>

\* GetProfile succeeds: a pass follows when the server was offline until now,
\* or when the last one was five minutes ago.
LoopAccepted(t) ==
  /\ thread[t].pc = "ask" /\ ~thread[t].old
  /\ Profile(thread[t].server, thread[t].pair) = "OK"
  /\ SetOnline(t, TRUE)
  /\ Go(t, "begin") \/ (online /\ Done(t))
  /\ UNCHANGED <<userVars, tokenVars, up, open, tokens, server, excuse, renewing>>

-----------------------------------------------------------------------------
(* The client: performFullSync *)

\* It reads the access token and asks for the profile.
PassBegin(t) ==
  /\ thread[t].pc = "begin"
  /\ IF tokens = None
     THEN SetOnline(t, FALSE) /\ Done(t)
     ELSE Put(t, [thread[t] EXCEPT !.pc = "profile", !.pair = tokens]) /\ UNCHANGED online
  /\ UNCHANGED <<userVars, tokenVars, up, open, tokens, server, excuse, renewing>>

Answer(t) ==
  IF thread[t].old THEN "Canceled" ELSE Profile(thread[t].server, thread[t].pair)

PassAccepted(t) ==
  /\ thread[t].pc = "profile" /\ Answer(t) = "OK"
  /\ Go(t, "sync")
  /\ UNCHANGED <<userVars, tokenVars, up, open, tokens, server, online, excuse, renewing>>

PassOffline(t) ==
  /\ thread[t].pc = "profile" /\ Answer(t) = "Unavailable"
  /\ SetOnline(t, FALSE)
  /\ Done(t)
  /\ UNCHANGED <<userVars, tokenVars, up, open, tokens, server, excuse, renewing>>

\* Mutant: uses the refresh token that was read when the pass began.
PassExpiredEarly(t) ==
  /\ thread[t].pc = "profile" /\ Answer(t) = "Unauthenticated"
  /\ Put(t, [thread[t] EXCEPT !.pc = "refresh"])
  /\ UNCHANGED <<userVars, tokenVars, up, open, tokens, server, online, excuse, renewing>>

\* The refresh token is read now, not when the pass began.
PassExpired(t) ==
  /\ thread[t].pc = "profile" /\ Answer(t) = "Unauthenticated"
  /\ tokens # None
  /\ Put(t, [thread[t] EXCEPT !.pc = "refresh", !.pair = tokens])
  /\ UNCHANGED <<userVars, tokenVars, up, open, tokens, server, online, excuse, renewing>>

\* RefreshSession does not depend on the session's context.
PassRenewed(t) ==
  /\ thread[t].pc = "refresh"
  /\ Refreshes(thread[t].server, thread[t].pair)
  /\ issued' = Number
  /\ Put(t, [thread[t] EXCEPT !.pc = "store", !.pair = Issue(thread[t].pair.user)])
  /\ UNCHANGED <<userVars, expired, dead, up, open, tokens, server, online, excuse, renewing>>

\* The new tokens are stored, and performFullSync calls itself.
PassStore(t) ==
  /\ thread[t].pc = "store"
  /\ Keep(thread[t].pair)
  /\ Go(t, "begin")
  /\ UNCHANGED <<userVars, tokenVars, up, open, server, online, excuse>>

\* Every other way ends the login: another error of GetProfile, no refresh
\* token, or one that is refused or whose answer is lost.
PassRefused(t) ==
  /\ \/ thread[t].pc = "profile" /\ Answer(t) \in {"Canceled", "PermissionDenied"}
     \/ thread[t].pc = "profile" /\ Answer(t) = "Unauthenticated" /\ tokens = None
     \/ thread[t].pc = "refresh" /\ ~Refreshes(thread[t].server, thread[t].pair)
  /\ Forget
  /\ SetOnline(t, FALSE)
  /\ Done(t)
  /\ UNCHANGED <<userVars, tokenVars, up, open, server, excuse>>

\* Mutant: an error of the exchange counts as offline.
PassSyncedOffline(t) ==
  /\ thread[t].pc = "sync"
  /\ SetOnline(t, FALSE)
  /\ Done(t)
  /\ UNCHANGED <<userVars, tokenVars, up, open, tokens, server, excuse, renewing>>

\* Errors of the exchange itself are only logged.
PassSynced(t) ==
  /\ thread[t].pc = "sync"
  /\ SetOnline(t, TRUE)
  /\ Done(t)
  /\ UNCHANGED <<userVars, tokenVars, up, open, tokens, server, excuse, renewing>>

Work(t) ==
  \/ LoginStore(t)
  \/ LoopTick(t) \/ LoopEnd(t) \/ LoopRefused(t) \/ LoopAccepted(t)
  \/ PassBegin(t) \/ PassAccepted(t) \/ PassOffline(t) \/ PassExpired(t)
  \/ PassRenewed(t) \/ PassStore(t) \/ PassRefused(t) \/ PassSynced(t)

-----------------------------------------------------------------------------
Next ==
  \/ Accounts
  \/ Expire \/ RefreshExpire
  \/ \E s \in Server : Down(s) \/ Up(s)
  \/ User
  \/ \E t \in Thread : Work(t)

\* A goroutine goes on: the ticker fires, and a call is answered or fails.
Spec == Init /\ [][Next]_vars /\ \A t \in Thread : WF_vars(Work(t))

-----------------------------------------------------------------------------
(* Properties *)

\* Where there is an account there is an administrator, who alone can approve
\* the others: registrations that count at the same time may all be the first,
\* never all be later (RegisterUser counts before it inserts).
SomebodyAdministrates ==
  \A a \in Account : row[a] # None => \E m \in admin : Home[m] = Home[a]

\* Passes and loops that meet an expired token at the same time, and renew it
\* one after the other, do not end the login: only the user does, unless an
\* account was banned, a refresh token expired, a server was out of reach or
\* the profile was left (performFullSync clears the tokens after each of them).
\* All accounts used are on one server: a loop of an earlier login asks the
\* server of that login about the tokens of this one, and clears them.
LoginIsKept ==
  [][tokens # None /\ tokens' = None /\ ~excuse => thread' = thread]_vars

\* After a logout nobody is logged in, unless a renewal was already under way,
\* until there is another login: what a pass read before it is of no use later
\* (performFullSync reads the refresh token when it needs it).
LogoutIsFinal ==
  [][tokens = None /\ tokens' # None =>
       \E t \in Thread : /\ thread'[t] # thread[t]
                         /\ thread[t].pc = "login" \/ t \in renewing]_vars

\* Every login of the open session has left a loop behind.  A login whose dialog
\* was dismissed and whose profile was left has not: then only forceSync asks.
Attended == open /\ \E t \in Thread : thread[t].loop /\ ~thread[t].old
Accepted == tokens # None /\ Profile(server, tokens) = "OK"

\* However many loops and passes are left from earlier logins: once the server
\* refuses the tokens for good (or cannot be reached) the client shows itself
\* offline and stays so (startBackgroundSyncLoop).
RefusedGoesOffline == <>[](Attended /\ ~Accepted) => <>[]~online

\* And once it accepts them for good the client comes online and stays so.
AcceptedGoesOnline == <>[](Attended /\ Accepted) => <>[]online

=============================================================================
