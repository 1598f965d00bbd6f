---------------------------- MODULE SessionProofs ----------------------------
(***************************************************************************)
(* Theorems about Session, for any number of accounts, servers, goroutines *)
(* and token pairs.                                                        *)
(***************************************************************************)
EXTENDS Session, TLAPS

USE SessionAssumption, NoPairAssumption

-----------------------------------------------------------------------------
(* The inductive invariant *)

\* A goroutine that has dialled, or waits for tokens, holds a pair.
Fit == {r \in Routine :
          r.pc \in {"login", "ask", "profile", "refresh", "store"} => r.pair \in Pair}

Records ==
  /\ row \in [Account -> {None, "pending", "active", "banned"}]
  /\ admin \in SUBSET Account
  /\ reg \in [Account -> {"no", "checked", "first", "later"}]

Clock == issued \in 0..Tokens /\ expired \in 0..Tokens /\ dead \in 0..Tokens

Client ==
  /\ open \in BOOLEAN
  /\ tokens \in Pair \cup {None}
  /\ server \in Server \cup {None}
  /\ online \in BOOLEAN
  /\ thread \in [Thread -> Fit]

Reachable == up \in SUBSET Server

History == excuse \in BOOLEAN /\ renewing \in SUBSET Thread

Governed(a) == \E m \in admin : Home[m] = Home[a]

\* A registration that was not the first has an administrator before it; an
\* account under registration has no row yet.
Governing ==
  /\ \A a \in Account : row[a] # None => Governed(a)
  /\ \A a \in Account : reg[a] = "later" => Governed(a)
  /\ \A a \in Account : reg[a] # "no" => row[a] = None

\* Without tokens, whoever renews has done so since before they were dropped.
Renewals == tokens = None => Renewing \subseteq renewing

IInv == Records /\ Clock /\ Client /\ Reachable /\ History /\ Governing /\ Renewals

-----------------------------------------------------------------------------
(* Goroutines *)

\* The fields of a goroutine that holds the pair it needs.
LEMMA FitFields ==
  ASSUME NEW r \in Fit
  PROVE  /\ r \in Routine
         /\ r.server \in Server \cup {None} /\ r.loop \in BOOLEAN /\ r.old \in BOOLEAN
         /\ r.pc \in {"login", "ask", "profile", "refresh", "store"} => r.pair \in Pair
BY DEF Fit, Routine

\* One that has ended needs none, ...
LEMMA FreeFit == Free \in Fit
BY DEF Free, Fit, Routine

\* A goroutine goes on without tokens,
LEMMA GoFit ==
  ASSUME NEW r \in Fit, NEW pc \in {"top", "begin", "sync"}
  PROVE  [r EXCEPT !.pc = pc, !.pair = None] \in Fit
BY DEF Fit, Routine

\* or with a pair,
LEMMA TakeFit ==
  ASSUME NEW r \in Fit, NEW pc \in {"ask", "profile", "refresh", "store"}, NEW k \in Pair
  PROVE  [r EXCEPT !.pc = pc, !.pair = k] \in Fit
BY DEF Fit, Routine

\* and when it is left behind.
LEMMA OldFit ==
  ASSUME NEW r \in Fit
  PROVE  [r EXCEPT !.old = TRUE] \in Fit
BY DEF Fit, Routine

\* ... nor does a loop, ...
LEMMA LoopFit ==
  ASSUME NEW s \in Server \cup {None}, NEW b \in BOOLEAN
  PROVE  Loop(s) \in Fit /\ [Loop(s) EXCEPT !.old = b] \in Fit
BY DEF Loop, Free, Fit, Routine

\* ... and one that starts has its pair.
LEMMA StartFit ==
  ASSUME NEW s \in Server \cup {None}, NEW k \in Pair
  PROVE  /\ [Free EXCEPT !.pc = "begin", !.server = s] \in Fit
         /\ [Free EXCEPT !.pc = "login", !.server = s, !.pair = k] \in Fit
BY DEF Free, Fit, Routine

\* The end of a pass or of a check.
LEMMA DoneFit ==
  ASSUME NEW t \in Thread, thread \in [Thread -> Fit], Done(t)
  PROVE  /\ thread' \in [Thread -> Fit]
         /\ \A u \in Thread \ {t} : thread'[u] = thread[u]
         /\ thread'[t].pc \in {"top", "off"}
<1> DEFINE r == IF thread[t].loop THEN [thread[t] EXCEPT !.pc = "top", !.pair = None] ELSE Free
<1>1. r \in Fit
  BY FreeFit, GoFit
<1>2. r.pc \in {"top", "off"}
  BY FitFields DEF Free, Routine
<1>3. thread' = [thread EXCEPT ![t] = r]
  BY DEF Done, Put
<1> HIDE DEF r
<1> QED BY <1>1, <1>2, <1>3

\* A pair that is issued is one.
LEMMA IssueType ==
  ASSUME Clock, NEW a \in Users
  PROVE  Number \in 1..Tokens /\ Issue(a) \in Pair
<1>1. Number \in 1..Tokens
  BY DEF Clock, Number
<1> QED BY <1>1 DEF Issue, Pair

\* The fields of a pair.
LEMMA PairFields ==
  ASSUME NEW k \in Pair
  PROVE  k.user \in Users /\ k.no \in 1..Tokens /\ k # None
BY DEF Pair

\* The flag that is shown stays a flag.
LEMMA SetOnlineType ==
  ASSUME NEW t \in Thread, NEW b \in BOOLEAN, online \in BOOLEAN, SetOnline(t, b)
  PROVE  online' \in BOOLEAN
BY DEF SetOnline

-----------------------------------------------------------------------------
(* What the steps preserve *)

\* The accounts are nobody's business but the server's.
LEMMA RecordsFrame ==
  ASSUME Records, Governing, UNCHANGED userVars
  PROVE  Records' /\ Governing'
BY DEF Records, Governing, Governed, userVars

\* Fewer goroutines renew, the tokens are as before.
LEMMA RenewalsFrame ==
  ASSUME Renewals, Renewing' \subseteq Renewing, UNCHANGED <<tokens, renewing>>
  PROVE  Renewals'
BY DEF Renewals

\* Who renews is a goroutine.
LEMMA RenewingType == Renewing \in SUBSET Thread
BY DEF Renewing

\* Dropping the tokens marks those who renew, ...
LEMMA ForgetKeeps ==
  ASSUME History, Renewals, Renewing' \subseteq Renewing, Forget
  PROVE  /\ tokens' = None
         /\ renewing' \in SUBSET Thread
         /\ Renewals'
BY RenewingType DEF Forget, History, Renewals

\* ... and storing others ends that.
LEMMA KeepKeeps ==
  ASSUME NEW k \in Pair, Keep(k)
  PROVE  /\ tokens' \in Pair
         /\ renewing' \in SUBSET Thread
         /\ Renewals'
BY DEF Keep, Renewals

\* One goroutine moves: what becomes of those that renew.
LEMMA RenewingStep ==
  ASSUME NEW t \in Thread,
         \A u \in Thread \ {t} : thread'[u] = thread[u],
         thread'[t].pc \in {"refresh", "store"} => thread[t].pc \in {"refresh", "store"}
  PROVE  Renewing' \subseteq Renewing
BY DEF Renewing

\* One goroutine goes on, the others stay.
LEMMA PutStep ==
  ASSUME NEW t \in Thread, NEW r \in Fit, thread \in [Thread -> Fit], Put(t, r)
  PROVE  /\ thread' \in [Thread -> Fit]
         /\ thread'[t] = r
         /\ \A u \in Thread \ {t} : thread'[u] = thread[u]
BY DEF Put

\* Registrations and the administrator keep the invariant, ...
LEMMA AccountsKeep ==
  ASSUME IInv, NEW a \in Account,
         RegisterCheck(a) \/ RegisterCount(a) \/ RegisterCreate(a) \/ Approve(a) \/ Reject(a)
  PROVE  IInv'
<1>1. Clock' /\ Client' /\ Reachable' /\ History' /\ Renewals'
  BY DEF IInv, Clock, Client, Reachable, History, Renewals, Renewing, tokenVars,
         RegisterCheck, RegisterCount, RegisterCreate, Approve, Reject
<1>2. Records' /\ Governing'
  <2> USE DEF IInv, Records
  <2>1. CASE RegisterCheck(a)
    BY <2>1 DEF RegisterCheck, Governing, Governed
  <2>2. CASE RegisterCount(a)
    <3>1. Records'
      BY <2>2 DEF RegisterCount
    <3>2. reg'[a] = "later" => Governed(a)
      BY <2>2 DEF RegisterCount, Governing, Governed
    <3>3. \A b \in Account \ {a} : reg'[b] = reg[b]
      BY <2>2 DEF RegisterCount
    <3>4. row' = row /\ admin' = admin /\ row[a] = None
      BY <2>2 DEF RegisterCount, Governing
    <3> QED BY <3>1, <3>2, <3>3, <3>4 DEF Governing, Governed
  <2>3. CASE RegisterCreate(a)
    <3>1. Records'
      BY <2>3 DEF RegisterCreate
    <3>2. admin \subseteq admin' /\ (reg[a] = "first" => a \in admin')
      BY <2>3 DEF RegisterCreate
    <3>3. Governed(a)'
      <4>1. CASE reg[a] = "first"
        BY <4>1, <3>2 DEF Governed
      <4>2. CASE reg[a] = "later"
        BY <4>2, <3>2 DEF Governed, Governing
      <4> QED BY <2>3, <4>1, <4>2 DEF RegisterCreate
    <3>4. /\ \A b \in Account \ {a} : reg'[b] = reg[b] /\ row'[b] = row[b]
          /\ reg'[a] = "no"
      BY <2>3 DEF RegisterCreate
    <3>5. \A b \in Account : Governed(b) => Governed(b)'
      BY <3>2 DEF Governed
    <3> QED BY <3>1, <3>3, <3>4, <3>5 DEF Governing
  <2>4. CASE Approve(a) \/ Reject(a)
    <3>1. /\ Records' /\ row[a] # None
          /\ \A b \in Account \ {a} : row'[b] = row[b]
          /\ admin' = admin /\ reg' = reg
      BY <2>4 DEF Approve, Reject
    <3> QED BY <3>1 DEF Governing, Governed
  <2> QED BY <2>1, <2>2, <2>3, <2>4
<1> QED BY <1>1, <1>2 DEF IInv

\* ... expiry and servers that fail do, ...
LEMMA NetworkKeeps ==
  ASSUME IInv, Expire \/ RefreshExpire \/ \E s \in Server : Down(s) \/ Up(s)
  PROVE  IInv'
<1>1. Records' /\ Governing'
  BY RecordsFrame DEF IInv, Expire, RefreshExpire, Down, Up
<1>2. Clock'
  BY DEF IInv, Clock, tokenVars, Expire, RefreshExpire, Down, Up
<1>3. Client' /\ Renewals'
  BY DEF IInv, Client, Renewals, Renewing, Expire, RefreshExpire, Down, Up
<1>4. Reachable' /\ History'
  BY DEF IInv, Reachable, History, Expire, RefreshExpire, Down, Up
<1> QED BY <1>1, <1>2, <1>3, <1>4 DEF IInv

\* ... what the user does does, ...
LEMMA UserKeeps ==
  ASSUME IInv, User
  PROVE  IInv'
<1>1. CASE \E t \in Thread, a \in Users : Login(a, t)
  <2>1. PICK t \in Thread, a \in Users : Login(a, t)
    BY <1>1
  <2> DEFINE r == [Free EXCEPT !.pc = "login", !.server = Home[a], !.pair = Issue(a)]
  <2>2. Issue(a) \in Pair /\ Number \in 1..Tokens
    BY IssueType DEF IInv
  <2>3. r \in Fit /\ r.pc = "login"
    BY <2>2, StartFit DEF Free
  <2>4. Put(t, r)
    BY <2>1 DEF Login
  <2> HIDE DEF r
  <2>5. /\ thread' \in [Thread -> Fit] /\ thread'[t] = r
        /\ \A u \in Thread \ {t} : thread'[u] = thread[u]
    BY <2>3, <2>4, PutStep DEF IInv, Client
  <2>6. Renewing' \subseteq Renewing
    BY <2>3, <2>5, RenewingStep
  <2>7. /\ UNCHANGED <<userVars, expired, dead, up, open, tokens, server, online>>
        /\ UNCHANGED <<excuse, renewing>> /\ issued' = Number
    BY <2>1 DEF Login
  <2>8. Renewals'
    BY <2>6, <2>7, RenewalsFrame DEF IInv
  <2>9. Records' /\ Governing'
    BY <2>7, RecordsFrame DEF IInv
  <2>10. Clock' /\ Client' /\ Reachable' /\ History'
    BY <2>2, <2>5, <2>7 DEF IInv, Clock, Client, Reachable, History
  <2> QED BY <2>8, <2>9, <2>10 DEF IInv
<1>2. CASE \E t \in Thread : ForceSync(t) \/ Launch(t)
  <2>1. PICK t \in Thread : ForceSync(t) \/ Launch(t)
    BY <1>2
  <2> DEFINE f == [Free EXCEPT !.pc = "begin", !.server = server]
  <2>2. /\ UNCHANGED <<userVars, tokenVars, up, tokens, server, online, excuse, renewing>>
        /\ open' \in BOOLEAN
    BY <2>1 DEF ForceSync, Launch, IInv, Client
  <2>3. UNCHANGED thread \/ Put(t, f) \/ Put(t, Loop(server))
    BY <2>1 DEF ForceSync, Launch
  <2>4. f \in Fit /\ f.pc = "begin" /\ Loop(server) \in Fit /\ Loop(server).pc = "top"
    <3>1. server \in Server \cup {None}
      BY DEF IInv, Client
    <3>2. [Free EXCEPT !.pc = "begin", !.server = server] \in Fit
      BY <3>1, FreeFit DEF Free, Fit, Routine
    <3>3. Loop(server) \in Fit
      BY <3>1 DEF Loop, Free, Fit, Routine
    <3> QED BY <3>2, <3>3 DEF Loop, Free
  <2> HIDE DEF f
  <2>5. thread' \in [Thread -> Fit] /\ Renewing' \subseteq Renewing
    <3>1. CASE UNCHANGED thread
      BY <3>1 DEF Renewing, IInv, Client
    <3>2. CASE Put(t, f)
      BY <3>2, <2>4, PutStep, RenewingStep DEF IInv, Client
    <3>3. CASE Put(t, Loop(server))
      BY <3>3, <2>4, PutStep, RenewingStep DEF IInv, Client
    <3> QED BY <2>3, <3>1, <3>2, <3>3
  <2>6. Renewals'
    BY <2>2, <2>5, RenewalsFrame DEF IInv
  <2>7. Records' /\ Governing'
    BY <2>2, RecordsFrame DEF IInv
  <2>8. Clock' /\ Client' /\ Reachable' /\ History'
    BY <2>2, <2>5 DEF IInv, Clock, Client, Reachable, History, tokenVars
  <2> QED BY <2>6, <2>7, <2>8 DEF IInv
<1>3. CASE Logout
  <2>1. /\ UNCHANGED <<userVars, tokenVars, up, open, server, thread, excuse>>
        /\ Forget /\ online' = FALSE
    BY <1>3 DEF Logout
  <2>2. Renewing' \subseteq Renewing
    BY <2>1 DEF Renewing
  <2>3. tokens' = None /\ renewing' \in SUBSET Thread /\ Renewals'
    BY <2>1, <2>2, ForgetKeeps DEF IInv
  <2>4. Records' /\ Governing'
    BY <2>1, RecordsFrame DEF IInv
  <2>5. Clock' /\ Client' /\ Reachable' /\ History'
    BY <2>1, <2>3 DEF IInv, Clock, Client, Reachable, History, tokenVars
  <2> QED BY <2>3, <2>4, <2>5 DEF IInv
<1>4. CASE SwitchProfile
  <2>1. /\ UNCHANGED <<userVars, tokenVars, up, tokens, server, renewing>>
        /\ open' = FALSE /\ online' = FALSE /\ excuse' = TRUE
        /\ thread' = [t \in Thread |->
             IF thread[t].pc = "off" THEN Free ELSE [thread[t] EXCEPT !.old = TRUE]]
    BY <1>4 DEF SwitchProfile
  <2>2. \A t \in Thread : /\ thread'[t] \in Fit
                          /\ thread'[t].pc = thread[t].pc
    <3> TAKE t \in Thread
    <3>1. thread[t] \in Fit
      BY DEF IInv, Client
    <3>2. CASE thread[t].pc = "off"
      BY <2>1, <3>2, FreeFit DEF Free
    <3>3. CASE thread[t].pc # "off"
      <4>1. thread'[t] = [thread[t] EXCEPT !.old = TRUE]
        BY <2>1, <3>3
      <4> QED BY <3>1, <4>1, OldFit DEF Fit, Routine
    <3> QED BY <3>2, <3>3
  <2>3. thread' \in [Thread -> Fit]
    BY <2>1, <2>2
  <2>4. Renewing' \subseteq Renewing
    BY <2>2 DEF Renewing
  <2>5. Renewals'
    BY <2>1, <2>4, RenewalsFrame DEF IInv
  <2>6. Records' /\ Governing'
    BY <2>1, RecordsFrame DEF IInv
  <2>7. Clock' /\ Client' /\ Reachable' /\ History'
    BY <2>1, <2>3 DEF IInv, Clock, Client, Reachable, History, tokenVars
  <2> QED BY <2>5, <2>6, <2>7 DEF IInv
<1> QED BY <1>1, <1>2, <1>3, <1>4 DEF User

\* What a goroutine does leaves the server's records alone.
LEMMA WorkFrame ==
  ASSUME IInv,
         UNCHANGED <<userVars, expired, dead, up, open, excuse>>,
         issued' \in 0..Tokens,
         tokens' \in Pair \cup {None},
         server' \in Server \cup {None},
         online' \in BOOLEAN,
         thread' \in [Thread -> Fit],
         renewing' \in SUBSET Thread,
         Renewals'
  PROVE  IInv'
<1>1. Records' /\ Governing'
  BY RecordsFrame DEF IInv
<1>2. Clock' /\ Client' /\ Reachable' /\ History'
  BY DEF IInv, Clock, Client, Reachable, History
<1> QED BY <1>1, <1>2 DEF IInv

\* Most of it leaves the tokens alone as well, and begins no renewal.
LEMMA QuietFrame ==
  ASSUME IInv, NEW t \in Thread,
         UNCHANGED <<userVars, expired, dead, up, open, excuse>>,
         UNCHANGED <<tokens, server, renewing>>,
         issued' \in 0..Tokens,
         online' \in BOOLEAN,
         thread' \in [Thread -> Fit],
         \A u \in Thread \ {t} : thread'[u] = thread[u],
         thread'[t].pc \in {"refresh", "store"} => thread[t].pc \in {"refresh", "store"}
  PROVE  IInv'
<1>1. Renewals'
  BY RenewingStep, RenewalsFrame DEF IInv
<1> QED BY <1>1, WorkFrame DEF IInv, Client, History

\* ... and every step of a goroutine.
LEMMA WorkKeeps ==
  ASSUME IInv, NEW t \in Thread, Work(t)
  PROVE  IInv'
<1> DEFINE r == thread[t]
<1>0. /\ thread \in [Thread -> Fit] /\ r \in Fit /\ tokens \in Pair \cup {None}
      /\ issued \in 0..Tokens /\ online \in BOOLEAN
  BY DEF IInv, Client, Clock
<1>1. CASE LoginStore(t)
  <2>1. /\ Keep(r.pair) /\ r.pc = "login" /\ server' = r.server
        /\ Put(t, [Loop(r.server) EXCEPT !.old = r.old])
        /\ UNCHANGED <<userVars, tokenVars, up, open, online, excuse>>
    BY <1>1 DEF LoginStore
  <2>2. r.pair \in Pair /\ r.server \in Server \cup {None} /\ r.old \in BOOLEAN
    BY <1>0, <2>1, FitFields
  <2>3. tokens' \in Pair /\ renewing' \in SUBSET Thread /\ Renewals'
    BY <2>1, <2>2, KeepKeeps
  <2>4. thread' \in [Thread -> Fit]
    BY <1>0, <2>1, <2>2, LoopFit, PutStep
  <2> QED BY <1>0, <2>1, <2>2, <2>3, <2>4, WorkFrame DEF tokenVars
<1>2. CASE LoopTick(t) \/ PassBegin(t)
  <2>1. UNCHANGED <<userVars, tokenVars, up, open, tokens, server, excuse, renewing>>
    BY <1>2 DEF LoopTick, PassBegin
  <2>2. online' \in BOOLEAN
    BY <1>0, <1>2 DEF LoopTick, PassBegin, SetOnline
  <2>3. \/ UNCHANGED thread
        \/ Done(t)
        \/ tokens \in Pair /\ Put(t, [r EXCEPT !.pc = "ask", !.pair = tokens])
        \/ tokens \in Pair /\ Put(t, [r EXCEPT !.pc = "profile", !.pair = tokens])
    BY <1>0, <1>2 DEF LoopTick, PassBegin
  <2>4. /\ thread' \in [Thread -> Fit]
        /\ \A u \in Thread \ {t} : thread'[u] = thread[u]
        /\ thread'[t].pc \in {"refresh", "store"} => thread[t].pc \in {"refresh", "store"}
    <3>1. CASE UNCHANGED thread
      BY <1>0, <3>1
    <3>2. CASE Done(t)
      BY <1>0, <3>2, DoneFit
    <3>3. CASE tokens \in Pair /\ Put(t, [r EXCEPT !.pc = "ask", !.pair = tokens])
      <4>1. [r EXCEPT !.pc = "ask", !.pair = tokens] \in Fit
        BY <1>0, <3>3, TakeFit
      <4>2. [r EXCEPT !.pc = "ask", !.pair = tokens].pc = "ask"
        BY <1>0 DEF Fit, Routine
      <4> QED BY <1>0, <3>3, <4>1, <4>2, PutStep
    <3>4. CASE tokens \in Pair /\ Put(t, [r EXCEPT !.pc = "profile", !.pair = tokens])
      <4>1. [r EXCEPT !.pc = "profile", !.pair = tokens] \in Fit
        BY <1>0, <3>4, TakeFit
      <4>2. [r EXCEPT !.pc = "profile", !.pair = tokens].pc = "profile"
        BY <1>0 DEF Fit, Routine
      <4> QED BY <1>0, <3>4, <4>1, <4>2, PutStep
    <3> QED BY <2>3, <3>1, <3>2, <3>3, <3>4
  <2> QED BY <1>0, <2>1, <2>2, <2>4, QuietFrame DEF tokenVars
<1>3. CASE LoopEnd(t)
  <2>1. /\ UNCHANGED <<userVars, tokenVars, up, open, tokens, server, online, excuse, renewing>>
        /\ Put(t, Free)
    BY <1>3 DEF LoopEnd
  <2>2. /\ thread' \in [Thread -> Fit] /\ thread'[t] = Free
        /\ \A u \in Thread \ {t} : thread'[u] = thread[u]
    BY <1>0, <2>1, FreeFit, PutStep
  <2> QED BY <1>0, <2>1, <2>2, QuietFrame DEF tokenVars, Free
<1>4. CASE LoopRefused(t) \/ LoopAccepted(t) \/ PassAccepted(t) \/ PassOffline(t) \/ PassSynced(t)
  <2>1. UNCHANGED <<userVars, tokenVars, up, open, tokens, server, excuse, renewing>>
    BY <1>4 DEF LoopRefused, LoopAccepted, PassAccepted, PassOffline, PassSynced
  <2>2. online' \in BOOLEAN
    BY <1>0, <1>4
    DEF LoopRefused, LoopAccepted, PassAccepted, PassOffline, PassSynced, SetOnline
  <2>3. Done(t) \/ Go(t, "begin") \/ Go(t, "sync")
    BY <1>4 DEF LoopRefused, LoopAccepted, PassAccepted, PassOffline, PassSynced
  <2>4. /\ thread' \in [Thread -> Fit]
        /\ \A u \in Thread \ {t} : thread'[u] = thread[u]
        /\ thread'[t].pc \notin {"refresh", "store"}
    <3>1. CASE Done(t)
      BY <1>0, <3>1, DoneFit
    <3>2. ASSUME NEW pc \in {"begin", "sync"}, Go(t, pc)
          PROVE  /\ thread' \in [Thread -> Fit]
                 /\ \A u \in Thread \ {t} : thread'[u] = thread[u]
                 /\ thread'[t].pc = pc
      <4>1. [r EXCEPT !.pc = pc, !.pair = None] \in Fit
        BY <1>0, GoFit
      <4>2. [r EXCEPT !.pc = pc, !.pair = None].pc = pc
        BY <1>0 DEF Fit, Routine
      <4> QED BY <1>0, <3>2, <4>1, <4>2, PutStep DEF Go
    <3> QED BY <2>3, <3>1, <3>2
  <2> QED BY <1>0, <2>1, <2>2, <2>4, QuietFrame DEF tokenVars
<1>5. CASE PassExpired(t)
  <2>1. /\ UNCHANGED <<userVars, tokenVars, up, open, tokens, server, online, excuse, renewing>>
        /\ tokens # None
        /\ Put(t, [r EXCEPT !.pc = "refresh", !.pair = tokens])
    BY <1>5 DEF PassExpired
  <2>2. tokens \in Pair /\ Renewals'
    BY <1>0, <2>1 DEF Renewals
  <2>3. [r EXCEPT !.pc = "refresh", !.pair = tokens] \in Fit
    BY <1>0, <2>2, TakeFit
  <2>4. thread' \in [Thread -> Fit]
    BY <1>0, <2>1, <2>3, PutStep
  <2> QED BY <1>0, <2>1, <2>2, <2>4, WorkFrame DEF IInv, Client, History, tokenVars
<1>6. CASE PassRenewed(t)
  <2>1. /\ UNCHANGED <<userVars, expired, dead, up, open, tokens, server, online, excuse, renewing>>
        /\ r.pc = "refresh" /\ issued' = Number
        /\ Put(t, [r EXCEPT !.pc = "store", !.pair = Issue(r.pair.user)])
    BY <1>6 DEF PassRenewed
  <2>2. Issue(r.pair.user) \in Pair /\ Number \in 1..Tokens
    <3>1. r.pair.user \in Users
      BY <1>0, <2>1, FitFields, PairFields
    <3> QED BY <3>1, IssueType DEF IInv
  <2>3. [r EXCEPT !.pc = "store", !.pair = Issue(r.pair.user)] \in Fit
    BY <1>0, <2>2, TakeFit
  <2>4. /\ thread' \in [Thread -> Fit]
        /\ \A u \in Thread \ {t} : thread'[u] = thread[u]
    BY <1>0, <2>1, <2>3, PutStep
  <2> QED BY <1>0, <2>1, <2>2, <2>4, QuietFrame
<1>7. CASE PassStore(t)
  <2>1. /\ UNCHANGED <<userVars, tokenVars, up, open, server, online, excuse>>
        /\ r.pc = "store" /\ Keep(r.pair) /\ Go(t, "begin")
    BY <1>7 DEF PassStore
  <2>2. tokens' \in Pair /\ renewing' \in SUBSET Thread /\ Renewals'
    BY <1>0, <2>1, FitFields, KeepKeeps
  <2>3. [r EXCEPT !.pc = "begin", !.pair = None] \in Fit
    BY <1>0, GoFit
  <2>4. thread' \in [Thread -> Fit]
    BY <1>0, <2>1, <2>3, PutStep DEF Go
  <2> QED BY <1>0, <2>1, <2>2, <2>4, WorkFrame DEF IInv, Client, tokenVars
<1>8. CASE PassRefused(t)
  <2>1. /\ UNCHANGED <<userVars, tokenVars, up, open, server, excuse>>
        /\ Forget /\ Done(t) /\ online' \in BOOLEAN
    BY <1>0, <1>8 DEF PassRefused, SetOnline
  <2>2. /\ thread' \in [Thread -> Fit]
        /\ Renewing' \subseteq Renewing
    BY <1>0, <2>1, DoneFit, RenewingStep
  <2>3. tokens' = None /\ renewing' \in SUBSET Thread /\ Renewals'
    BY <2>1, <2>2, ForgetKeeps DEF IInv
  <2> QED BY <1>0, <2>1, <2>2, <2>3, WorkFrame DEF IInv, Client, tokenVars
<1> QED
  BY <1>1, <1>2, <1>3, <1>4, <1>5, <1>6, <1>7, <1>8 DEF Work

-----------------------------------------------------------------------------
(* Theorems *)

\* It holds at first ...
LEMMA InitInv == Init => IInv
<1> SUFFICES ASSUME Init PROVE IInv
  OBVIOUS
<1>1. thread \in [Thread -> Fit] /\ \A t \in Thread : thread[t].pc = "off"
  BY FreeFit DEF Init, Free
<1>2. Records /\ Reachable /\ History
  BY DEF Init, Records, Reachable, History
<1>3. Clock /\ Client
  <2>1. Clock
    BY DEF Init, Clock
  <2>2. Client
    BY <1>1 DEF Init, Client
  <2> QED BY <2>1, <2>2
<1>4. Governing /\ Renewals
  BY <1>1 DEF Init, Governing, Renewals, Renewing
<1> QED BY <1>2, <1>3, <1>4 DEF IInv

\* ... and is kept by every step.
LEMMA StepInv == IInv /\ [Next]_vars => IInv'
<1> SUFFICES ASSUME IInv, [Next]_vars PROVE IInv'
  OBVIOUS
<1>1. CASE Accounts
  BY <1>1, AccountsKeep DEF Accounts
<1>2. CASE Expire \/ RefreshExpire \/ \E s \in Server : Down(s) \/ Up(s)
  BY <1>2, NetworkKeeps
<1>3. CASE User
  BY <1>3, UserKeeps
<1>4. CASE \E t \in Thread : Work(t)
  BY <1>4, WorkKeeps
<1>5. CASE UNCHANGED vars
  BY <1>5 DEF vars, userVars, tokenVars, IInv, Records, Clock, Client, Reachable,
     History, Governing, Governed, Renewals, Renewing
<1> QED BY <1>1, <1>2, <1>3, <1>4, <1>5 DEF Next

\* The inductive invariant of accounts, tokens and goroutines.
THEOREM Invariance == Spec => []IInv
BY InitInv, StepInv, PTL DEF Spec

\* All variables keep their types: a goroutine that renews or stores always
\* has a pair to work with (performFullSync, RefreshSession).
THEOREM TypeCorrect == Spec => []TypeOK
<1>1. IInv => TypeOK
  BY DEF IInv, TypeOK, Records, Clock, Client, Reachable, History, Fit
<1> QED BY <1>1, Invariance, PTL

\* Wherever there is an account there is an administrator, however many
\* registrations run at once (RegisterUser).
THEOREM SomebodyAlwaysAdministrates == Spec => []SomebodyAdministrates
<1>1. IInv => SomebodyAdministrates
  BY DEF IInv, Governing, Governed, SomebodyAdministrates
<1> QED BY <1>1, Invariance, PTL

\* A login ends for good: only another login, or a renewal that was under way
\* when it ended, brings tokens back (performFullSync, the login callback).
THEOREM LoggedOutForGood == Spec => LogoutIsFinal
<1>1. IInv /\ [Next]_vars =>
        [tokens = None /\ tokens' # None =>
           \E t \in Thread : /\ thread'[t] # thread[t]
                             /\ thread[t].pc = "login" \/ t \in renewing]_vars
  <2> SUFFICES ASSUME IInv, [Next]_vars, tokens = None, tokens' # None
               PROVE  \E t \in Thread : /\ thread'[t] # thread[t]
                                        /\ thread[t].pc = "login" \/ t \in renewing
    OBVIOUS
  <2>1. PICK t \in Thread : LoginStore(t) \/ PassStore(t)
    BY DEF Next, vars, tokenVars, Accounts, RegisterCheck, RegisterCount, RegisterCreate, Approve,
        Reject, Expire, RefreshExpire, Down, Up, User, Login, ForceSync, Launch, Logout, Forget,
        SwitchProfile, Work, LoopTick, LoopEnd, LoopRefused, LoopAccepted, PassBegin,
        PassAccepted, PassOffline, PassExpired, PassRenewed, PassRefused, PassSynced
  <2>2. thread \in [Thread -> Fit] /\ thread[t] \in Fit
    BY DEF IInv, Client
  <2>3. CASE LoginStore(t)
    <3>1. thread'[t].pc = "top" /\ thread[t].pc = "login"
      BY <2>2, <2>3 DEF LoginStore, Put, Loop, Free
    <3> QED BY <3>1
  <2>4. CASE PassStore(t)
    <3>1. thread'[t].pc = "begin" /\ thread[t].pc = "store"
      BY <2>2, <2>4 DEF PassStore, Go, Put, Fit, Routine
    <3>2. t \in renewing
      BY <3>1 DEF IInv, Renewals, Renewing
    <3> QED BY <3>1, <3>2
  <2> QED BY <2>1, <2>3, <2>4
<1> QED BY <1>1, Invariance, PTL DEF Spec, LogoutIsFinal

-----------------------------------------------------------------------------
(* Logins that are kept *)

\* As long as nothing has excused the end of a login: the account of a pair is
\* active,
Healthy(k) == k # None => row[k.user] = "active"

\* goroutines belong to the open session and hold such pairs,
Sound(r) == ~r.old /\ Healthy(r.pair)

\* and work with the one server there is.
Located(r) == r.pc # "off" => \A a \in Users : r.server = Home[a]

Calm ==
  ~excuse => /\ up = Server /\ dead = 0
             /\ Healthy(tokens)
             /\ \A t \in Thread : Sound(thread[t])

\* So does the profile, once somebody has logged in.
Working(r) == r.pc \notin {"off", "login"}
Rooted == \A a \in Users : server = Home[a]

Placed ==
  /\ tokens # None \/ (\E t \in Thread : Working(thread[t])) => Rooted
  /\ \A t \in Thread : Located(thread[t])

LInv == IInv /\ Calm /\ Placed

\* A goroutine that goes on keeps its server and session.
LEMMA TurnFields ==
  ASSUME NEW r \in Fit, NEW pc, NEW k
  PROVE  /\ [r EXCEPT !.pc = pc, !.pair = k].pc = pc
         /\ [r EXCEPT !.pc = pc, !.pair = k].pair = k
         /\ [r EXCEPT !.pc = pc, !.pair = k].old = r.old
         /\ [r EXCEPT !.pc = pc, !.pair = k].server = r.server
BY DEF Fit, Routine

\* A goroutine goes on with no pair, or with one of an active account.
LEMMA TurnSafe ==
  ASSUME NEW r \in Fit, r.pc # "off", Located(r), NEW pc, NEW k
  PROVE  /\ Located([r EXCEPT !.pc = pc, !.pair = k])
         /\ Sound(r) /\ Healthy(k) => Sound([r EXCEPT !.pc = pc, !.pair = k])
BY TurnFields DEF Located, Sound

\* A goroutine that has ended is no danger to the login, ...
LEMMA FreeSafe == Located(Free) /\ Sound(Free)
BY DEF Free, Located, Sound, Healthy

\* ... nor is a loop at the one server, ...
LEMMA LoopSafe ==
  ASSUME NEW s, NEW b \in BOOLEAN, \A a \in Users : s = Home[a]
  PROVE  /\ Located([Loop(s) EXCEPT !.old = b]) /\ Located(Loop(s))
         /\ ~b => Sound([Loop(s) EXCEPT !.old = b])
         /\ Sound(Loop(s))
BY DEF Loop, Free, Located, Sound, Healthy

\* ... nor one that starts with a healthy pair.
LEMMA StartSafe ==
  ASSUME NEW s, NEW k, NEW pc, \A a \in Users : s = Home[a], Healthy(k)
  PROVE  /\ Located([Free EXCEPT !.pc = pc, !.server = s])
         /\ Sound([Free EXCEPT !.pc = pc, !.server = s])
         /\ Located([Free EXCEPT !.pc = pc, !.server = s, !.pair = k])
         /\ Sound([Free EXCEPT !.pc = pc, !.server = s, !.pair = k])
BY DEF Free, Located, Sound, Healthy

\* One goroutine moves.
LEMMA SafeStep ==
  ASSUME LInv, NEW t \in Thread, NEW r, Put(t, r),
         UNCHANGED <<row, dead, up, excuse>>,
         Located(r), ~excuse => Sound(r), ~excuse => Healthy(tokens'),
         tokens' # None \/ Working(r) => Rooted', UNCHANGED server \/ Rooted'
  PROVE  Calm' /\ Placed'
<1>1. /\ thread'[t] = r
      /\ \A u \in Thread \ {t} : thread'[u] = thread[u]
  BY DEF Put, LInv, IInv, Client
<1>2. Placed'
  <2>1. \A u \in Thread : Located(thread[u])'
    BY <1>1 DEF LInv, Placed, Located
  <2>2. ASSUME NEW u \in Thread \ {t}, Working(thread[u])' PROVE Rooted'
    BY <1>1, <2>2 DEF LInv, Placed, Working, Rooted
  <2>3. Working(thread[t])' => Rooted'
    BY <1>1 DEF Working
  <2> QED BY <2>1, <2>2, <2>3 DEF Placed
<1>3. ASSUME ~excuse'
      PROVE  /\ up' = Server /\ dead' = 0
             /\ Healthy(tokens)'
             /\ \A u \in Thread : Sound(thread[u])'
  <2>1. ~excuse /\ up' = Server /\ dead' = 0
    BY <1>3 DEF LInv, Calm
  <2>2. Healthy(tokens)'
    BY <2>1 DEF Healthy
  <2>3. \A u \in Thread : Sound(thread[u])'
    BY <1>1, <2>1 DEF LInv, Calm, Sound, Healthy
  <2> QED BY <2>1, <2>2, <2>3
<1> QED BY <1>2, <1>3 DEF Calm

\* What a goroutine becomes at its end is none either.
LEMMA DoneSafe ==
  ASSUME LInv, NEW t \in Thread, thread[t].pc # "off", Done(t)
  PROVE  \E r : Put(t, r) /\ Located(r) /\ (~excuse => Sound(r))
<1> DEFINE r == IF thread[t].loop THEN [thread[t] EXCEPT !.pc = "top", !.pair = None] ELSE Free
<1>1. thread[t] \in Fit /\ Located(thread[t]) /\ Healthy(None)
  BY DEF LInv, IInv, Client, Placed, Healthy
<1>2. Located(r)
  BY <1>1, TurnSafe, FreeSafe
<1>3. ASSUME ~excuse PROVE Sound(r)
  <2>1. Sound(thread[t])
    BY <1>3 DEF LInv, Calm
  <2> QED BY <1>1, <2>1, TurnSafe, FreeSafe
<1>4. Put(t, r)
  BY DEF Done
<1> HIDE DEF r
<1> QED BY <1>2, <1>3, <1>4

\* On the server only a ban makes an account inactive.
LEMMA AccountsSafe ==
  ASSUME LInv, NEW a \in Account,
         RegisterCheck(a) \/ RegisterCount(a) \/ RegisterCreate(a) \/ Approve(a) \/ Reject(a)
  PROVE  Calm' /\ Placed'
<1>1. UNCHANGED <<dead, up, tokens, server, thread>>
  BY DEF tokenVars, RegisterCheck, RegisterCount, RegisterCreate, Approve, Reject
<1>2. Placed'
  BY <1>1 DEF LInv, Placed, Located, Working, Rooted
<1>3. ASSUME ~excuse' PROVE ~excuse /\ \A b \in Account : row[b] = "active" => row'[b] = "active"
  <2> row \in [Account -> {None, "pending", "active", "banned"}] /\ excuse \in BOOLEAN
    BY DEF LInv, IInv, Records, History
  <2>1. CASE RegisterCheck(a) \/ RegisterCount(a)
    BY <1>3, <2>1 DEF RegisterCheck, RegisterCount
  <2>2. CASE RegisterCreate(a)
    <3>1. row[a] = None
      BY <2>2 DEF RegisterCreate, LInv, IInv, Governing
    <3> QED BY <1>3, <2>2, <3>1 DEF RegisterCreate
  <2>3. CASE Approve(a)
    BY <1>3, <2>3 DEF Approve
  <2>4. CASE Reject(a)
    BY <1>3, <2>4 DEF Reject
  <2> QED BY <2>1, <2>2, <2>3, <2>4
<1>4. ASSUME ~excuse', NEW k \in Pair \cup {None}, Healthy(k) PROVE Healthy(k)'
  BY <1>3, <1>4, PairFields DEF Healthy
<1>5. Calm'
  <2> SUFFICES ASSUME ~excuse'
               PROVE  /\ up' = Server /\ dead' = 0 /\ Healthy(tokens)'
                      /\ \A t \in Thread : Sound(thread[t])'
    BY DEF Calm
  <2>1. /\ up = Server /\ dead = 0 /\ Healthy(tokens)
        /\ \A t \in Thread : Sound(thread[t])
    BY <1>3 DEF LInv, Calm
  <2>2. tokens \in Pair \cup {None} /\ \A t \in Thread : thread[t].pair \in Pair \cup {None}
    BY DEF LInv, IInv, Client, Fit, Routine
  <2>3. Healthy(tokens)'
    BY <1>1, <1>4, <2>1, <2>2 DEF Healthy
  <2>4. ASSUME NEW t \in Thread PROVE Sound(thread[t])'
    BY <1>1, <1>4, <2>1, <2>2 DEF Sound, Healthy
  <2> QED BY <1>1, <2>1, <2>3, <2>4
<1> QED BY <1>2, <1>5

\* Without an excuse the network leaves everybody calm and at the one server, ...
LEMMA NetworkSafe ==
  ASSUME LInv, Expire \/ RefreshExpire \/ \E s \in Server : Down(s) \/ Up(s)
  PROVE  Calm' /\ Placed'
<1>1. UNCHANGED <<row, tokens, server, thread>>
  BY DEF userVars, Expire, RefreshExpire, Down, Up
<1>2. Placed'
  BY <1>1 DEF LInv, Placed, Located, Working, Rooted
<1>3. ~excuse' => ~excuse /\ dead' = dead /\ up \subseteq up' /\ up' \subseteq Server
  BY DEF LInv, IInv, Reachable, tokenVars, Expire, RefreshExpire, Down, Up
<1>4. Calm'
  BY <1>1, <1>3 DEF LInv, Calm, Sound, Healthy
<1> QED BY <1>2, <1>4

\* ... so does the user, ...
LEMMA UserSafe ==
  ASSUME LInv, User, \A a, b \in Users : Home[a] = Home[b]
  PROVE  Calm' /\ Placed'
<1>0. Healthy(None)
  BY DEF Healthy
<1>1. ASSUME NEW t \in Thread, NEW a \in Users, Login(a, t) PROVE Calm' /\ Placed'
  <2>1. Healthy(Issue(a)) /\ \A b \in Users : Home[a] = Home[b]
    BY <1>1 DEF Login, Issue, Healthy
  <2> DEFINE r == [Free EXCEPT !.pc = "login", !.server = Home[a], !.pair = Issue(a)]
  <2>2. Located(r) /\ Sound(r)
    BY <2>1, StartSafe
  <2>3. Put(t, r) /\ UNCHANGED <<row, dead, up, excuse, tokens, server>>
    BY <1>1 DEF Login, userVars
  <2>4. ~Working(r)
    BY DEF Working, Free
  <2> HIDE DEF r
  <2>5. tokens' # None \/ Working(r) => Rooted'
    BY <2>3, <2>4 DEF LInv, Placed, Rooted
  <2> QED BY <2>2, <2>3, <2>5, SafeStep DEF LInv, Calm
<1>2. ASSUME NEW t \in Thread, ForceSync(t) PROVE Calm' /\ Placed'
  <2>1. \A b \in Users : server = Home[b]
    BY <1>2 DEF ForceSync, LInv, Placed, Rooted
  <2> DEFINE r == [Free EXCEPT !.pc = "begin", !.server = server]
  <2>2. Located(r) /\ Sound(r)
    BY <1>0, <2>1, StartSafe
  <2>3. Put(t, r) /\ UNCHANGED <<row, dead, up, excuse, tokens, server>>
    BY <1>2 DEF ForceSync, userVars, tokenVars
  <2>4. Rooted'
    BY <2>1, <2>3 DEF Rooted
  <2> HIDE DEF r
  <2> QED BY <2>2, <2>3, <2>4, SafeStep DEF LInv, Calm
<1>3. ASSUME NEW t \in Thread, Launch(t) PROVE Calm' /\ Placed'
  <2>1. UNCHANGED <<row, dead, up, excuse, tokens, server>>
    BY <1>3 DEF Launch, userVars, tokenVars
  <2>2. CASE tokens = None
    <3>1. thread' = thread
      BY <1>3, <2>2 DEF Launch
    <3> QED
      BY <2>1, <3>1 DEF LInv, Calm, Placed, Located, Working, Rooted, Sound, Healthy
  <2>3. CASE tokens # None
    <3>1. \A b \in Users : server = Home[b]
      BY <2>3 DEF LInv, Placed, Rooted
    <3>2. Put(t, Loop(server))
      BY <1>3, <2>3 DEF Launch
    <3>3. Located(Loop(server)) /\ Sound(Loop(server))
      BY <3>1 DEF Loop, Free, Located, Sound, Healthy
    <3>4. Rooted'
      BY <2>1, <3>1 DEF Rooted
    <3> QED BY <2>1, <3>2, <3>3, <3>4, SafeStep DEF LInv, Calm
  <2> QED BY <2>2, <2>3
<1>4. CASE Logout
  BY <1>4
  DEF Logout, Forget, userVars, tokenVars, LInv, Calm, Placed, Located, Working, Rooted, Sound,
      Healthy
<1>5. CASE SwitchProfile
  <2>1. excuse' = TRUE /\ UNCHANGED <<tokens, server>>
    BY <1>5 DEF SwitchProfile
  <2>2. ASSUME NEW t \in Thread
        PROVE  Located(thread'[t]) /\ (Working(thread'[t]) => Working(thread[t]))
    <3>1. thread[t] \in Fit /\ Located(thread[t])
      BY DEF LInv, IInv, Client, Placed
    <3>2. CASE thread[t].pc = "off"
      BY <1>5, <3>2, FreeSafe DEF SwitchProfile, Working, Free
    <3>3. CASE thread[t].pc # "off"
      <4>1. thread'[t] = [thread[t] EXCEPT !.old = TRUE]
        BY <1>5, <3>3 DEF SwitchProfile
      <4> QED BY <3>1, <3>3, <4>1 DEF Located, Working, Fit, Routine
    <3> QED BY <3>2, <3>3
  <2>3. Calm'
    BY <2>1 DEF Calm
  <2>4. tokens' # None \/ (\E t \in Thread : Working(thread'[t])) => Rooted'
    BY <2>1, <2>2 DEF LInv, Placed, Rooted
  <2>5. \A t \in Thread : Located(thread[t])'
    BY <2>2 DEF Located
  <2> QED BY <2>3, <2>4, <2>5 DEF Placed, Working
<1> QED BY <1>1, <1>2, <1>3, <1>4, <1>5 DEF User

\* As long as nothing has excused it, neither GetProfile nor RefreshSession
\* has a reason to refuse.
LEMMA NeverRefused ==
  ASSUME LInv, ~excuse, NEW t \in Thread, PassRefused(t)
  PROVE  tokens = None
<1> DEFINE r == thread[t]
           k == r.pair
<1>1. r \in Fit /\ Located(r) /\ Sound(r) /\ up = Server /\ dead = 0
  BY DEF LInv, IInv, Client, Calm, Placed
<1>2. r.pc \in {"profile", "refresh"}
  BY DEF PassRefused
<1>3. k \in Pair /\ k.user \in Users /\ k.no \in 1..Tokens
  BY <1>1, <1>2, FitFields, PairFields
<1>4. r.server = Home[k.user] /\ r.server \in up /\ row[k.user] = "active" /\ ~r.old
  <2>1. r.server = Home[k.user]
    BY <1>1, <1>2, <1>3 DEF Located
  <2>2. Home[k.user] \in Server
    BY <1>3
  <2> QED BY <1>1, <1>3, <2>1, <2>2, PairFields DEF Sound, Healthy
<1>5. Refreshes(r.server, k)
  BY <1>1, <1>3, <1>4 DEF Refreshes
<1>6. Answer(t) \in {"OK", "Unauthenticated"}
  BY <1>4 DEF Answer, Profile
<1> QED BY <1>5, <1>6 DEF PassRefused

\* ... and so does every goroutine.
LEMMA WorkSafe ==
  ASSUME LInv, NEW t \in Thread, Work(t)
  PROVE  Calm' /\ Placed'
<1> DEFINE r == thread[t]
<1>0. /\ r \in Fit /\ Located(r) /\ (~excuse => Sound(r)) /\ Healthy(None)
      /\ (~excuse => Healthy(tokens))
      /\ (Working(r) => Rooted)
  BY DEF LInv, IInv, Client, Calm, Placed, Healthy
<1>1. ASSUME Done(t), Working(r), UNCHANGED <<row, dead, up, excuse>>,
             tokens' \in {tokens, None}, UNCHANGED server
      PROVE  Calm' /\ Placed'
  <2>1. PICK q : Put(t, q) /\ Located(q) /\ (~excuse => Sound(q))
    BY <1>1, DoneSafe DEF Working
  <2>2. ~excuse => Healthy(tokens')
    BY <1>0, <1>1
  <2>3. Rooted'
    BY <1>0, <1>1 DEF Rooted
  <2> QED BY <1>1, <2>1, <2>2, <2>3, SafeStep
<1>2. ASSUME NEW pc, NEW k, Put(t, [r EXCEPT !.pc = pc, !.pair = k]), Working(r),
             UNCHANGED <<row, dead, up, excuse, server>>,
             ~excuse => Healthy(k), ~excuse => Healthy(tokens')
      PROVE  Calm' /\ Placed'
  <2>1. Located([r EXCEPT !.pc = pc, !.pair = k])
    BY <1>0, <1>2, TurnSafe DEF Working
  <2>2. ~excuse => Sound([r EXCEPT !.pc = pc, !.pair = k])
    BY <1>0, <1>2, TurnSafe DEF Working
  <2>3. Rooted'
    BY <1>0, <1>2 DEF Rooted
  <2> QED BY <1>2, <2>1, <2>2, <2>3, SafeStep
<1>3. CASE LoginStore(t)
  <2>1. /\ tokens' = r.pair /\ server' = r.server /\ r.pc = "login"
        /\ Put(t, [Loop(r.server) EXCEPT !.old = r.old])
        /\ UNCHANGED <<row, dead, up, excuse>>
    BY <1>3 DEF LoginStore, Keep, userVars, tokenVars
  <2>2. (\A a \in Users : r.server = Home[a]) /\ r.old \in BOOLEAN
    BY <1>0, <2>1, FitFields DEF Located
  <2>3. Located([Loop(r.server) EXCEPT !.old = r.old])
    BY <2>2, LoopSafe
  <2>4. ~excuse => Sound([Loop(r.server) EXCEPT !.old = r.old])
    BY <1>0, <2>2, LoopSafe DEF Sound
  <2>5. ~excuse => Healthy(tokens')
    BY <1>0, <2>1 DEF Sound
  <2>6. Rooted'
    BY <2>1, <2>2 DEF Rooted
  <2> QED BY <2>1, <2>3, <2>4, <2>5, <2>6, SafeStep
<1>4. CASE LoopTick(t) \/ PassBegin(t)
  <2>1. UNCHANGED <<row, dead, up, excuse>> /\ UNCHANGED <<tokens, server>> /\ Working(r)
    BY <1>4 DEF LoopTick, PassBegin, userVars, tokenVars, Working
  <2>2. \/ UNCHANGED thread
        \/ Done(t)
        \/ Put(t, [r EXCEPT !.pc = "ask", !.pair = tokens])
        \/ Put(t, [r EXCEPT !.pc = "profile", !.pair = tokens])
    BY <1>4 DEF LoopTick, PassBegin
  <2>3. CASE UNCHANGED thread
    BY <2>1, <2>3 DEF LInv, Calm, Placed, Located, Working, Rooted, Sound, Healthy
  <2>4. CASE Done(t)
    BY <2>1, <2>4, <1>1
  <2>5. CASE Put(t, [r EXCEPT !.pc = "ask", !.pair = tokens])
    BY <1>0, <2>1, <2>5, <1>2
  <2>6. CASE Put(t, [r EXCEPT !.pc = "profile", !.pair = tokens])
    BY <1>0, <2>1, <2>6, <1>2
  <2> QED BY <2>2, <2>3, <2>4, <2>5, <2>6
<1>5. CASE LoopEnd(t)
  <2>1. /\ UNCHANGED <<row, dead, up, excuse, tokens, server>> /\ Working(r)
        /\ Put(t, Free)
    BY <1>5 DEF LoopEnd, userVars, tokenVars, Working
  <2>2. Rooted'
    BY <1>0, <2>1 DEF Rooted
  <2> QED BY <1>0, <2>1, <2>2, FreeSafe, SafeStep
<1>6. CASE LoopRefused(t) \/ LoopAccepted(t) \/ PassAccepted(t) \/ PassOffline(t) \/ PassSynced(t)
  <2>1. UNCHANGED <<row, dead, up, excuse>> /\ UNCHANGED <<tokens, server>> /\ Working(r)
    BY <1>6
    DEF LoopRefused, LoopAccepted, PassAccepted, PassOffline, PassSynced, userVars, tokenVars,
        Working
  <2>2. \/ Done(t)
        \/ Put(t, [r EXCEPT !.pc = "begin", !.pair = None])
        \/ Put(t, [r EXCEPT !.pc = "sync", !.pair = None])
    BY <1>6 DEF LoopRefused, LoopAccepted, PassAccepted, PassOffline, PassSynced, Go
  <2>3. CASE Done(t)
    BY <2>1, <2>3, <1>1
  <2>4. CASE Put(t, [r EXCEPT !.pc = "begin", !.pair = None])
    BY <1>0, <2>1, <2>4, <1>2
  <2>5. CASE Put(t, [r EXCEPT !.pc = "sync", !.pair = None])
    BY <1>0, <2>1, <2>5, <1>2
  <2> QED BY <2>2, <2>3, <2>4, <2>5
<1>7. CASE PassExpired(t)
  <2>1. /\ UNCHANGED <<row, dead, up, excuse, tokens, server>> /\ Working(r)
        /\ Put(t, [r EXCEPT !.pc = "refresh", !.pair = tokens])
    BY <1>7 DEF PassExpired, userVars, tokenVars, Working
  <2> QED BY <1>0, <2>1, <1>2
<1>8. CASE PassRenewed(t)
  <2>1. /\ UNCHANGED <<row, dead, up, excuse, tokens, server>> /\ Working(r)
        /\ Put(t, [r EXCEPT !.pc = "store", !.pair = Issue(r.pair.user)])
        /\ row[r.pair.user] = "active"
    BY <1>8 DEF PassRenewed, Refreshes, userVars, Working
  <2>2. Healthy(Issue(r.pair.user))
    BY <2>1 DEF Healthy, Issue
  <2> QED BY <1>0, <2>1, <2>2, <1>2
<1>9. CASE PassStore(t)
  <2>1. /\ UNCHANGED <<row, dead, up, excuse, server>> /\ Working(r)
        /\ tokens' = r.pair
        /\ Put(t, [r EXCEPT !.pc = "begin", !.pair = None])
    BY <1>9 DEF PassStore, Keep, Go, userVars, tokenVars, Working
  <2>2. ~excuse => Healthy(tokens')
    BY <1>0, <2>1 DEF Sound
  <2> QED BY <1>0, <2>1, <2>2, <1>2
<1>10. CASE PassRefused(t)
  BY <1>0, <1>10, <1>1 DEF PassRefused, Forget, userVars, tokenVars, Working
<1> QED
  BY <1>3, <1>4, <1>5, <1>6, <1>7, <1>8, <1>9, <1>10 DEF Work

\* With one server, a login lasts until the user ends it, an account is banned,
\* a refresh token expires, a server is out of reach or the profile is left:
\* goroutines that renew at the same time never end it (performFullSync).
THEOREM LoginLasts ==
  ASSUME \A a, b \in Users : Home[a] = Home[b]
  PROVE  Spec => LoginIsKept
<1>1. Init => LInv
  <2> SUFFICES ASSUME Init PROVE LInv
    OBVIOUS
  <2>1. tokens = None /\ \A t \in Thread : thread[t] = Free
    BY DEF Init
  <2>2. Calm
    BY <2>1, FreeSafe DEF Init, Calm, Healthy
  <2>3. Placed
    BY <2>1, FreeSafe DEF Placed, Working, Free
  <2> QED BY <2>2, <2>3, InitInv DEF LInv
<1>2. LInv /\ [Next]_vars => LInv'
  <2> SUFFICES ASSUME LInv, [Next]_vars PROVE LInv'
    OBVIOUS
  <2>1. IInv'
    BY StepInv DEF LInv
  <2>2. Calm' /\ Placed'
    <3>1. CASE Accounts
      BY <3>1, AccountsSafe DEF Accounts
    <3>2. CASE Expire \/ RefreshExpire \/ \E s \in Server : Down(s) \/ Up(s)
      BY <3>2, NetworkSafe
    <3>3. CASE User
      BY <3>3, UserSafe
    <3>4. CASE \E t \in Thread : Work(t)
      BY <3>4, WorkSafe
    <3>5. CASE UNCHANGED vars
      BY <3>5
      DEF vars, userVars, tokenVars, LInv, Calm, Placed, Located, Working, Rooted, Sound, Healthy
    <3> QED BY <3>1, <3>2, <3>3, <3>4, <3>5 DEF Next
  <2> QED BY <2>1, <2>2 DEF LInv
<1>3. LInv /\ [Next]_vars =>
        [tokens # None /\ tokens' = None /\ ~excuse => thread' = thread]_vars
  <2> SUFFICES ASSUME LInv, [Next]_vars, tokens # None, tokens' = None, ~excuse
               PROVE  thread' = thread
    OBVIOUS
  <2>1. Logout \/ \E t \in Thread : LoginStore(t) \/ PassStore(t) \/ PassRefused(t)
    BY DEF Next, vars, tokenVars, Accounts, RegisterCheck, RegisterCount, RegisterCreate,
           Approve, Reject, Expire, RefreshExpire, Down, Up, User, Login, ForceSync, Launch,
           SwitchProfile, Work, LoopTick, LoopEnd, LoopRefused, LoopAccepted, PassBegin,
           PassAccepted, PassOffline, PassExpired, PassRenewed, PassSynced
  <2>2. ASSUME NEW t \in Thread, LoginStore(t) \/ PassStore(t) PROVE FALSE
    <3>1. thread[t].pair \in Pair
      BY <2>2, FitFields DEF LInv, IInv, Client, LoginStore, PassStore
    <3> QED BY <2>2, <3>1 DEF LoginStore, PassStore, Keep
  <2>3. ASSUME NEW t \in Thread, PassRefused(t) PROVE FALSE
    BY <2>3, NeverRefused
  <2> QED BY <2>1, <2>2, <2>3 DEF Logout
<1> QED BY <1>1, <1>2, <1>3, PTL DEF Spec, LoginIsKept

=============================================================================
