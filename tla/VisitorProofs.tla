--------------------------- MODULE VisitorProofs ---------------------------
(***************************************************************************)
(* Proofs about what reaches a stand from elsewhere: a phone's request to  *)
(* steer it and its commands, answers to invitations, uploads from a       *)
(* browser, and set lists that passes change behind the editor.            *)
(***************************************************************************)
EXTENDS Pilot, Inbox, Upload, ConcertSetup, FiniteSetTheorems, SequenceTheorems, TLAPS

-----------------------------------------------------------------------------
(* Pairing *)

\* The phone waits, and holds a link, only for a request that it has sent; a
\* stand that the phone is paired with stays paired, because the request it
\* asked with was decided and nothing changes a decision.
ConsentIInv ==
  /\ ask \in [1..MaxPairs -> [at : {"none", "sent", "shown", "allowed", "refused"},
                              pin : 0..MaxStarts]]
  /\ tries \in 0..MaxPairs
  /\ known \in 0..MaxStarts /\ pin \in 1..MaxStarts
  /\ waiting => tries # 0 /\ screen = "login"
  /\ screen = "login" => link = 0
  /\ link # 0 => tries # 0
  /\ PairedByConsent

\* It is inductive.
THEOREM ConsentInvariance == PilotSpec => []ConsentIInv
<1>1. PilotInit => ConsentIInv
  BY PilotAssumption DEF PilotInit, ConsentIInv, PairedByConsent
<1>2. ConsentIInv /\ [PilotNext]_pilotVars => ConsentIInv'
  <2> SUFFICES ASSUME ConsentIInv, [PilotNext]_pilotVars PROVE ConsentIInv'
    OBVIOUS
  <2> USE PilotAssumption DEF ConsentIInv, PairedByConsent
  <2>1. CASE Discover
    BY <2>1 DEF Discover, standVars
  <2>2. CASE Pair
    BY <2>2 DEF Pair
  <2>3. CASE PairAnswered
    BY <2>3 DEF PairAnswered, OpenMain, standVars
  <2>4. CASE PairGivesUp
    BY <2>4 DEF PairGivesUp, standVars
  <2>5. CASE Disconnect
    BY <2>5 DEF Disconnect, standVars
  <2>6. CASE PhoneRestarts
    BY <2>6 DEF PhoneRestarts, standVars
  <2>7. ASSUME NEW withAccount \in BOOLEAN, EnterUnpaired(withAccount) PROVE ConsentIInv'
    BY <2>7 DEF EnterUnpaired, OpenMain, standVars
  <2>8. ASSUME NEW n \in 1..MaxPairs, PairArrives(n) PROVE ConsentIInv'
    <3>1. PICK v \in {"shown", "refused"} : ask' = [ask EXCEPT ![n].at = v]
      BY <2>8 DEF PairArrives
    <3>2. ask' \in [1..MaxPairs -> [at : {"none", "sent", "shown", "allowed", "refused"},
                                    pin : 0..MaxStarts]]
      BY <3>1
    <3>3. link # 0 => n # tries
      BY <2>8 DEF PairArrives
    <3>4. UNCHANGED <<pin, phoneVars>>
      BY <2>8 DEF PairArrives
    <3>5. PairedByConsent'
      BY <3>1, <3>3, <3>4 DEF phoneVars
    <3> QED
      BY <3>2, <3>4, <3>5 DEF phoneVars
  <2>9. ASSUME NEW n \in 1..MaxPairs, NEW verdict \in {"allowed", "refused"},
               Decide(n, verdict)
        PROVE  ConsentIInv'
    <3>1. /\ ask' = [ask EXCEPT ![n].at = verdict]
          /\ UNCHANGED <<pin, phoneVars>>
      BY <2>9 DEF Decide
    <3>2. ask' \in [1..MaxPairs -> [at : {"none", "sent", "shown", "allowed", "refused"},
                                    pin : 0..MaxStarts]]
      BY <3>1
    <3>3. link # 0 => n # tries
      BY <2>9 DEF Decide
    <3>4. PairedByConsent'
      BY <3>1, <3>3 DEF phoneVars
    <3> QED
      BY <3>1, <3>2, <3>4 DEF phoneVars
  <2>10. CASE StandRestarts
    <3>1. /\ pin < MaxStarts /\ pin' = pin + 1
          /\ ask' = [n \in 1..MaxPairs |-> IF ask[n].at \in {"sent", "shown"}
                                          THEN [ask[n] EXCEPT !.at = "refused"] ELSE ask[n]]
          /\ UNCHANGED phoneVars
      BY <2>10 DEF StandRestarts
    <3>2. \A n \in 1..MaxPairs :
            /\ ask'[n] \in [at : {"none", "sent", "shown", "allowed", "refused"},
                          pin : 0..MaxStarts]
            /\ ask[n].at = "allowed" => ask'[n] = ask[n]
      BY <3>1
    <3>3. ask' \in [1..MaxPairs -> [at : {"none", "sent", "shown", "allowed", "refused"},
                                    pin : 0..MaxStarts]]
      BY <3>1, <3>2
    <3>4. PairedByConsent'
      BY <3>1, <3>2 DEF phoneVars
    <3> QED
      BY <3>1, <3>3, <3>4 DEF phoneVars
  <2>11. ASSUME UNCHANGED <<ask, tries, waiting, link, pin, known>>,
                screen' = screen \/ (screen # "login" /\ screen' # "login")
         PROVE  ConsentIInv'
    BY <2>11
  <2>12. CASE CloseScore
    BY <2>12 DEF CloseScore, OpenMain, standVars
  <2> HIDE DEF ConsentIInv, PairedByConsent
  <2>13. CASE \/ BeginConcert \/ DrainCheck \/ DrainTake \/ DrainEnds \/ EndConcert
              \/ UnlockHere \/ SwitchProfile
    BY <2>11, <2>13 DEF BeginConcert, DrainCheck, DrainTake, DrainEnds, EndConcert, UnlockHere,
       SwitchProfile, phoneVars
  <2>14. ASSUME NEW c \in Concert, TakeCommand(c) \/ Act(c) \/ ReaderEnds(c) PROVE ConsentIInv'
    BY <2>11, <2>14 DEF TakeCommand, Act, ReaderEnds, phoneVars
  <2>15. CASE Poll \/ SendingEnds \/ ViewNext \/ ViewPrev
    BY <2>11, <2>15 DEF Poll, SendingEnds, ViewNext, ViewPrev, standVars
  <2>16. ASSUME NEW kind \in CommandKind, SendCommand(kind) PROVE ConsentIInv'
    BY <2>11, <2>16 DEF SendCommand, standVars
  <2>17. ASSUME NEW m \in wire, HandleCommand(m) \/ LoseCommand(m) PROVE ConsentIInv'
    BY <2>11, <2>17 DEF HandleCommand, LoseCommand, standVars
  <2>18. ASSUME NEW p \in 0..(ScorePages - 1), OpenScore(p) PROVE ConsentIInv'
    BY <2>11, <2>18 DEF OpenScore, standVars
  <2>19. CASE UNCHANGED pilotVars
    BY <2>11, <2>19 DEF pilotVars, standVars, phoneVars
  <2> QED
    BY <2>1, <2>2, <2>3, <2>4, <2>5, <2>6, <2>7, <2>8, <2>9, <2>10, <2>12, <2>13, <2>14,
       <2>15, <2>16, <2>17, <2>18, <2>19 DEF PilotNext
<1> QED
  BY <1>1, <1>2, PTL DEF PilotSpec


\* The phone holds a stand's PIN only by consent to the request it sent last
\* (handlePair, the dialogs of main.go).
THEOREM PairsByConsent == PilotSpec => []PairedByConsent
<1>1. ConsentIInv => PairedByConsent
  BY DEF ConsentIInv
<1> QED
  BY <1>1, ConsentInvariance, PTL

-----------------------------------------------------------------------------
(* Commands *)

\* A goroutine takes commands for its concert after the queue was emptied: what
\* has come since was taken by the stand when that concert had begun.
CommandIInv ==
  /\ begun \in 0..MaxConcerts
  /\ queue \in Seq(QueuedCommand)
  /\ reader \in [Concert -> [at : {"none", "idle", "busy"}, with : Seq(QueuedCommand)]]
  /\ \A c \in Concert : reader[c].at = "busy" => Len(reader[c].with) = 1
  /\ \A c \in Concert : reader[c].at # "none" =>
       /\ \A i \in 1..Len(queue) : queue[i].seen >= c
       /\ \A i \in 1..Len(reader[c].with) : reader[c].with[i].seen >= c
       /\ c <= begun
  /\ drain = "off" \/ begun \in Concert
  /\ wire \subseteq WireCommand
  /\ sent \in 0..MaxCommands /\ link \in 0..MaxStarts
  /\ ActsOnItsConcert

\* What taking the first command leaves.
LEMMA TailOf ==
  ASSUME NEW S, NEW q \in Seq(S), q # <<>>
  PROVE  /\ Tail(q) \in Seq(S) /\ Head(q) \in S /\ Head(q) = q[1] /\ Len(q) >= 1
         /\ <<Head(q)>> \in Seq(S) /\ Len(<<Head(q)>>) = 1 /\ <<Head(q)>>[1] = q[1]
         /\ \A i \in 1..Len(Tail(q)) : i + 1 \in 1..Len(q) /\ Tail(q)[i] = q[i + 1]
OBVIOUS

\* What the queue holds after another command.
LEMMA AppendOf ==
  ASSUME NEW S, NEW q \in Seq(S), NEW e \in S
  PROVE  /\ Append(q, e) \in Seq(S)
         /\ \A i \in 1..Len(Append(q, e)) :
              \/ i \in 1..Len(q) /\ Append(q, e)[i] = q[i]
              \/ Append(q, e)[i] = e
OBVIOUS

\* The empty queue.
LEMMA EmptyOf == ASSUME NEW S PROVE <<>> \in Seq(S) /\ Len(<<>>) = 0
OBVIOUS

\* It is inductive, given that the phone's link has its type.
THEOREM CommandInvariance == PilotSpec => []CommandIInv
<1> USE PilotAssumption DEF Concert
<1>1. PilotInit => CommandIInv
  BY EmptyOf DEF PilotInit, CommandIInv, ActsOnItsConcert, NoReader
<1>2. CommandIInv /\ ConsentIInv /\ [PilotNext]_pilotVars => CommandIInv'
  <2> SUFFICES ASSUME CommandIInv, ConsentIInv, [PilotNext]_pilotVars PROVE CommandIInv'
    OBVIOUS
  <2>0. waiting => ask[tries].pin \in 0..MaxStarts
    BY DEF ConsentIInv
  <2> USE DEF CommandIInv, ActsOnItsConcert
  <2>1. CASE BeginConcert
    BY <2>1 DEF BeginConcert, phoneVars
  <2>2. CASE DrainCheck
    BY <2>2 DEF DrainCheck, phoneVars
  <2>3. CASE DrainTake
    BY <2>3, TailOf DEF DrainTake, phoneVars
  <2>4. CASE DrainEnds
    BY <2>4, EmptyOf DEF DrainEnds, phoneVars
  <2>5. CASE EndConcert
    BY <2>5, EmptyOf DEF EndConcert, phoneVars, NoReader
  <2>6. ASSUME NEW c \in Concert, TakeCommand(c) PROVE CommandIInv'
    <3>1. /\ queue # <<>> /\ reader[c].at # "none"
          /\ reader' = [reader EXCEPT ![c] = [at |-> "busy", with |-> <<Head(queue)>>]]
          /\ queue' = Tail(queue)
          /\ UNCHANGED <<begun, drain, acted, wire, sent, link>>
      BY <2>6 DEF TakeCommand, phoneVars
    <3>2. /\ queue' \in Seq(QueuedCommand) /\ <<Head(queue)>> \in Seq(QueuedCommand)
          /\ Len(<<Head(queue)>>) = 1 /\ <<Head(queue)>>[1] = queue[1] /\ Len(queue) >= 1
          /\ \A i \in 1..Len(queue') : i + 1 \in 1..Len(queue) /\ queue'[i] = queue[i + 1]
      BY <3>1, TailOf
    <3>3. reader' \in [Concert -> [at : {"none", "idle", "busy"}, with : Seq(QueuedCommand)]]
      BY <3>1, <3>2
    <3>4. \A d \in Concert : reader'[d].at = "busy" => Len(reader'[d].with) = 1
      BY <3>1, <3>2
    <3>5. ASSUME NEW d \in Concert, reader'[d].at # "none"
          PROVE  /\ \A i \in 1..Len(queue') : queue'[i].seen >= d
                 /\ \A i \in 1..Len(reader'[d].with) : reader'[d].with[i].seen >= d
                 /\ d <= begun
      <4>1. reader[d].at # "none"
        BY <3>1, <3>5
      <4>2. \A i \in 1..Len(queue') : queue'[i].seen >= d
        BY <4>1, <3>2
      <4>3. CASE d = c
        BY <4>1, <4>2, <4>3, <3>1, <3>2
      <4>4. CASE d # c
        BY <4>1, <4>2, <4>4, <3>1
      <4> QED
        BY <4>3, <4>4
    <3> QED
      BY <3>1, <3>2, <3>3, <3>4, <3>5
  <2>7. ASSUME NEW c \in Concert, Act(c) PROVE CommandIInv'
    <3>1. /\ reader[c].at = "busy"
          /\ reader' = [reader EXCEPT ![c] = [at |-> "idle", with |-> <<>>]]
          /\ UNCHANGED <<queue, begun, drain, wire, sent, link>>
      BY <2>7 DEF Act, phoneVars
    <3>2. <<>> \in Seq(QueuedCommand) /\ Len(<<>>) = 0
      BY EmptyOf
    <3>3. \/ UNCHANGED acted
          \/ acted' = acted \cup {[no |-> Head(reader[c].with).no, on |-> c,
                                   seen |-> Head(reader[c].with).seen]}
      BY <2>7 DEF Act
    <3>10. reader[c].with \in Seq(QueuedCommand) /\ Len(reader[c].with) = 1
      BY <3>1
    <3>11. \A i \in 1..Len(reader[c].with) : reader[c].with[i].seen >= c
      BY <3>1
    <3>4. /\ reader[c].with \in Seq(QueuedCommand) /\ Len(reader[c].with) = 1
          /\ reader[c].with[1].seen >= c
      BY <3>10, <3>11
    <3>5. Head(reader[c].with).seen >= c
      BY <3>4
    <3>6. ActsOnItsConcert'
      BY <3>3, <3>5
    <3>7. reader' \in [Concert -> [at : {"none", "idle", "busy"}, with : Seq(QueuedCommand)]]
      BY <3>1, <3>2
    <3>8. \A d \in Concert : reader'[d].at = "busy" => Len(reader'[d].with) = 1
      BY <3>1
    <3>9. ASSUME NEW d \in Concert, reader'[d].at # "none"
          PROVE  /\ \A i \in 1..Len(queue') : queue'[i].seen >= d
                 /\ \A i \in 1..Len(reader'[d].with) : reader'[d].with[i].seen >= d
                 /\ d <= begun
      BY <3>1, <3>2, <3>9
    <3> HIDE DEF ActsOnItsConcert
    <3> QED
      BY <3>1, <3>6, <3>7, <3>8, <3>9
  <2>8. ASSUME NEW c \in Concert, ReaderEnds(c) PROVE CommandIInv'
    BY <2>8, EmptyOf DEF ReaderEnds, phoneVars, NoReader
  <2>9. CASE StandRestarts
    <3>1. /\ queue' = <<>> /\ reader' = [d \in Concert |-> NoReader] /\ drain' = "off"
          /\ UNCHANGED <<begun, acted, wire, sent, link>>
      BY <2>9 DEF StandRestarts, phoneVars
    <3> QED
      BY <3>1, EmptyOf DEF NoReader
  <2>10. ASSUME NEW m \in wire, HandleCommand(m) PROVE CommandIInv'
    <3> DEFINE e == [no |-> m.no, kind |-> m.kind, seen |-> begun]
    <3>1. e \in QueuedCommand /\ e.seen = begun
      BY <2>10 DEF WireCommand, QueuedCommand
    <3> HIDE DEF e
    <3>2. /\ queue' = queue \/ queue' = Append(queue, e)
          /\ wire' \subseteq WireCommand
          /\ UNCHANGED <<reader, begun, drain, acted, sent, link>>
      BY <2>10 DEF HandleCommand, e
    <3>3. CASE queue' = queue
      BY <3>2, <3>3
    <3>4. CASE queue' = Append(queue, e)
      <4>1. queue' \in Seq(QueuedCommand)
            /\ \A i \in 1..Len(queue') : \/ i \in 1..Len(queue) /\ queue'[i] = queue[i]
                                         \/ queue'[i] = e
        BY <3>1, <3>4, AppendOf
      <4> QED
        BY <3>1, <3>2, <4>1
    <3> QED
      BY <3>2, <3>3, <3>4
  <2>11. ASSUME NEW m \in wire, LoseCommand(m) PROVE CommandIInv'
    BY <2>11 DEF LoseCommand, standVars
  <2>12. ASSUME NEW kind \in CommandKind, SendCommand(kind) PROVE CommandIInv'
    <3>1. /\ sent' = sent + 1 /\ sent < MaxCommands
          /\ wire' = wire \cup {[no |-> sent + 1, kind |-> kind, pin |-> link]}
          /\ link # 0 /\ UNCHANGED <<queue, reader, begun, drain, acted, link>>
      BY <2>12 DEF SendCommand, standVars
    <3>2. wire' \subseteq WireCommand
      BY <3>1 DEF WireCommand
    <3> QED
      BY <3>1, <3>2
  <2>13. ASSUME UNCHANGED <<queue, begun, drain, reader, acted, wire, sent>>,
                link' \in 0..MaxStarts
         PROVE  CommandIInv'
    BY <2>13
  <2> HIDE DEF ActsOnItsConcert
  <2>14. CASE \/ UnlockHere \/ SwitchProfile
              \/ \E n \in 1..MaxPairs :
                   \/ PairArrives(n)
                   \/ \E verdict \in {"allowed", "refused"} : Decide(n, verdict)
    <3>1. UNCHANGED <<queue, begun, drain, reader, acted, wire, sent, link>>
      BY <2>14 DEF UnlockHere, SwitchProfile, PairArrives, Decide, phoneVars
    <3> QED
      BY <2>13, <3>1
  <2>15. CASE \/ Discover \/ Pair \/ PairGivesUp \/ Disconnect \/ PhoneRestarts
              \/ \E withAccount \in BOOLEAN : EnterUnpaired(withAccount)
              \/ Poll \/ SendingEnds \/ ViewNext \/ ViewPrev \/ CloseScore
              \/ \E p \in 0..(ScorePages - 1) : OpenScore(p)
    <3>1. /\ UNCHANGED <<queue, begun, drain, reader, acted, wire, sent>>
          /\ link' = link \/ link' = 0
      BY <2>15 DEF Discover, Pair, PairGivesUp, Disconnect, PhoneRestarts,
         EnterUnpaired, OpenMain, Poll, SendingEnds, ViewNext, ViewPrev, CloseScore, OpenScore,
         standVars
    <3> QED
      BY <2>13, <3>1
  <2>16. CASE PairAnswered
    <3>1. UNCHANGED <<queue, begun, drain, reader, acted, wire, sent>>
      BY <2>16 DEF PairAnswered, standVars
    <3>2. link' = link \/ link' = ask[tries].pin
      BY <2>16 DEF PairAnswered
    <3> QED
      BY <2>13, <2>16, <3>1, <3>2, <2>0 DEF PairAnswered
  <2>17. CASE UNCHANGED pilotVars
    BY <2>13, <2>17 DEF pilotVars, standVars, phoneVars
  <2> HIDE DEF CommandIInv
  <2> QED
    BY <2>1, <2>2, <2>3, <2>4, <2>5, <2>6, <2>7, <2>8, <2>9, <2>10, <2>11, <2>12, <2>14,
       <2>15, <2>16, <2>17 DEF PilotNext
<1> QED
  BY <1>1, <1>2, ConsentInvariance, PTL DEF PilotSpec

\* A command acts only on a concert that had begun when the stand took it, for
\* any number of concerts, commands and goroutines (playConcert).
THEOREM CommandsAreNotStale == PilotSpec => []ActsOnItsConcert
<1>1. CommandIInv => ActsOnItsConcert
  BY DEF CommandIInv
<1> QED
  BY <1>1, CommandInvariance, PTL

-----------------------------------------------------------------------------
(* The types of phone and stand *)

\* What the invariants above do not say of the stand, ...
StandTypes ==
  /\ Len(queue) <= QueueCap
  /\ playing \in BOOLEAN /\ switched \in BOOLEAN
  /\ playing => begun \in Concert
  /\ drain \in {"off", "check", "take"}
  /\ locked \in [Concert -> BOOLEAN]
  /\ shown \in ShownState
  /\ acted \subseteq [no : 1..MaxCommands, on : Concert, seen : 0..MaxConcerts]

\* ... and of the phone.
PhoneTypes ==
  /\ screen \in {"login", "main", "score"}
  /\ account \in BOOLEAN /\ waiting \in BOOLEAN
  /\ view \in ShownState
  /\ sending \in {"no", "waiting", "answered"}
  /\ viewer \in 0..(ScorePages - 1)

\* What the command in hand is, for a goroutine at work.
LEMMA InHandCommand ==
  ASSUME CommandIInv, NEW c \in Concert, reader[c].at = "busy"
  PROVE  Head(reader[c].with) \in QueuedCommand
<1>1. reader[c].with \in Seq(QueuedCommand) /\ Len(reader[c].with) = 1
  BY DEF CommandIInv
<1> QED BY <1>1

\* Every step keeps the types of the stand: the queue holds what it has room
\* for, whatever the phone sends, and a command acts on a concert there is.
LEMMA StandTypesStep ==
  ASSUME CommandIInv, ConsentIInv, StandTypes, [PilotNext]_pilotVars
  PROVE  StandTypes'
<1> USE PilotAssumption
<1>0. /\ queue \in Seq(QueuedCommand) /\ begun \in 0..MaxConcerts
      /\ Concert = 1..MaxConcerts /\ MaxConcerts \in Nat
  BY DEF CommandIInv, Concert
<1>1. \A c \in Concert, b \in BOOLEAN : [concert |-> c, locked |-> b] \in ShownState
  BY <1>0 DEF ShownState
<1>2. NoState \in ShownState
  BY <1>0 DEF ShownState, NoState
<1>3. CASE BeginConcert
  BY <1>0, <1>3 DEF BeginConcert, StandTypes
<1>4. CASE DrainCheck
  BY <1>4 DEF DrainCheck, StandTypes
<1>5. CASE DrainTake \/ \E c \in Concert : TakeCommand(c)
  <2>1. queue # <<>> /\ queue' = Tail(queue)
    BY <1>5 DEF DrainTake, TakeCommand
  <2>2. Len(queue') <= Len(queue) /\ Len(queue) \in Nat /\ Len(queue') \in Nat
    BY <1>0, <2>1
  <2>3. drain' \in {"check", drain} /\ UNCHANGED <<begun, playing, switched, locked, shown, acted>>
    BY <1>5 DEF DrainTake, TakeCommand
  <2>4. Len(queue') <= QueueCap
    BY <2>2 DEF StandTypes
  <2> QED BY <2>3, <2>4 DEF StandTypes
<1>6. CASE DrainEnds
  <2>1. begun \in Concert
    BY <1>6 DEF DrainEnds, CommandIInv
  <2>2. shown' \in ShownState
    BY <1>1, <1>6, <2>1 DEF DrainEnds
  <2> QED BY <1>6, <2>1, <2>2 DEF DrainEnds, StandTypes
<1>7. CASE EndConcert
  BY <1>7 DEF EndConcert, StandTypes
<1>8. CASE UnlockHere
  <2>1. shown' \in ShownState
    BY <1>0, <1>1, <1>8 DEF UnlockHere, StandTypes
  <2> QED BY <1>8, <2>1 DEF UnlockHere, StandTypes
<1>9. ASSUME NEW c \in Concert, Act(c) PROVE StandTypes'
  <2> DEFINE cmd == Head(reader[c].with)
  <2>1. cmd \in QueuedCommand
    BY <1>9, InHandCommand DEF Act
  <2>2. UNCHANGED <<queue, begun, playing, drain, switched>>
    BY <1>9 DEF Act
  <2>3. CASE UNCHANGED <<locked, shown, acted>>
    BY <2>2, <2>3 DEF StandTypes
  <2>4. CASE /\ \E b \in BOOLEAN : locked' = [locked EXCEPT ![c] = b]
             /\ shown' = [concert |-> c, locked |-> locked'[c]]
             /\ acted' = acted \cup {[no |-> cmd.no, on |-> c, seen |-> cmd.seen]}
    <3>1. locked' \in [Concert -> BOOLEAN]
      BY <2>4 DEF StandTypes
    <3>2. shown' \in ShownState
      BY <1>1, <2>4, <3>1
    <3>3. acted' \subseteq [no : 1..MaxCommands, on : Concert, seen : 0..MaxConcerts]
      BY <2>1, <2>4 DEF QueuedCommand, StandTypes
    <3> QED BY <2>2, <3>1, <3>2, <3>3 DEF StandTypes
  <2>5. \/ UNCHANGED <<locked, shown, acted>>
        \/ /\ locked' = [locked EXCEPT ![c] = IF cmd.kind \in {"lock", "unlock"}
                                              THEN cmd.kind = "lock" ELSE @]
           /\ shown' = [concert |-> c, locked |-> locked'[c]]
           /\ acted' = acted \cup {[no |-> cmd.no, on |-> c, seen |-> cmd.seen]}
    BY <1>9 DEF Act
  <2>6. (IF cmd.kind \in {"lock", "unlock"} THEN cmd.kind = "lock" ELSE locked[c]) \in BOOLEAN
    BY DEF StandTypes
  <2> HIDE DEF cmd
  <2> QED BY <2>3, <2>4, <2>5, <2>6
<1>10. CASE \E c \in Concert : ReaderEnds(c)
  BY <1>10 DEF ReaderEnds, StandTypes
<1>16. CASE SwitchProfile
  BY <1>16 DEF SwitchProfile, StandTypes
<1>11. CASE StandRestarts
  <2>1. Len(queue') <= QueueCap
    BY <1>11, EmptyOf DEF StandRestarts
  <2> QED BY <1>2, <1>11, <2>1 DEF StandRestarts, StandTypes
<1>12. ASSUME NEW m \in wire, HandleCommand(m) PROVE StandTypes'
  <2>1. UNCHANGED <<begun, playing, drain, locked, shown, switched, acted>>
    BY <1>12 DEF HandleCommand
  <2>2. [no |-> m.no, kind |-> m.kind, seen |-> begun] \in QueuedCommand
    BY <1>0, <1>12 DEF CommandIInv, WireCommand, QueuedCommand
  <2>3. CASE queue' = queue
    BY <2>1, <2>3 DEF StandTypes
  <2>4. CASE /\ Len(queue) < QueueCap
             /\ queue' = Append(queue, [no |-> m.no, kind |-> m.kind, seen |-> begun])
    <3>1. Len(queue') = Len(queue) + 1 /\ Len(queue) \in Nat
      BY <1>0, <2>2, <2>4
    <3>2. Len(queue') <= QueueCap
      BY <2>4, <3>1
    <3> QED BY <2>1, <3>2 DEF StandTypes
  <2> QED BY <1>12, <2>3, <2>4 DEF HandleCommand
<1>13. CASE UNCHANGED <<queue, begun, playing, drain, locked, shown, switched, acted>>
  BY <1>13 DEF StandTypes
<1>14. CASE \E n \in 1..MaxPairs :
              PairArrives(n) \/ \E verdict \in {"allowed", "refused"} : Decide(n, verdict)
  BY <1>13, <1>14 DEF PairArrives, Decide
<1>15. CASE \/ Discover \/ Pair \/ PairAnswered \/ PairGivesUp \/ Disconnect \/ PhoneRestarts
            \/ \E withAccount \in BOOLEAN : EnterUnpaired(withAccount)
            \/ Poll \/ SendingEnds \/ ViewNext \/ ViewPrev \/ CloseScore
            \/ \E p \in 0..(ScorePages - 1) : OpenScore(p)
            \/ \E kind \in CommandKind : SendCommand(kind)
            \/ \E m \in wire : LoseCommand(m)
            \/ UNCHANGED pilotVars
  <2>1. UNCHANGED <<queue, begun, playing, drain, locked, shown, switched, acted>>
    BY <1>15 DEF Discover, Pair, PairAnswered, PairGivesUp, Disconnect, PhoneRestarts,
       EnterUnpaired, Poll, SendingEnds, ViewNext, ViewPrev, CloseScore, OpenScore,
       SendCommand, LoseCommand, standVars, pilotVars
  <2> QED BY <1>13, <2>1
<1> QED
  BY <1>3, <1>4, <1>5, <1>6, <1>7, <1>8, <1>9, <1>10, <1>11, <1>12, <1>14, <1>15,
     <1>16 DEF PilotNext

\* Every step keeps the types of the phone: the viewer never leaves the score.
LEMMA PhoneTypesStep ==
  ASSUME StandTypes, PhoneTypes, [PilotNext]_pilotVars
  PROVE  PhoneTypes'
<1> USE PilotAssumption
<1>1. NoState \in ShownState
  BY DEF ShownState, NoState
<1>2. CASE UNCHANGED phoneVars
  BY <1>2 DEF phoneVars, PhoneTypes
<1>3. CASE \/ BeginConcert \/ DrainCheck \/ DrainTake \/ DrainEnds \/ EndConcert \/ UnlockHere
           \/ \E c \in Concert : TakeCommand(c) \/ Act(c) \/ ReaderEnds(c)
           \/ SwitchProfile \/ StandRestarts
           \/ \E n \in 1..MaxPairs :
                PairArrives(n) \/ \E verdict \in {"allowed", "refused"} : Decide(n, verdict)
           \/ UNCHANGED pilotVars
  <2>1. UNCHANGED phoneVars
    BY <1>3 DEF BeginConcert, DrainCheck, DrainTake, DrainEnds, EndConcert, UnlockHere,
       TakeCommand, Act, ReaderEnds, SwitchProfile, StandRestarts, PairArrives, Decide, pilotVars
  <2> QED BY <1>2, <2>1
<1>4. CASE Discover \/ Pair \/ PairAnswered \/ PairGivesUp
  BY <1>1, <1>4 DEF Discover, Pair, PairAnswered, PairGivesUp, OpenMain, PhoneTypes
<1>5. CASE \E withAccount \in BOOLEAN : EnterUnpaired(withAccount)
  BY <1>1, <1>5 DEF EnterUnpaired, OpenMain, PhoneTypes
<1>13. CASE Disconnect
  BY <1>1, <1>13 DEF Disconnect, PhoneTypes
<1>14. CASE PhoneRestarts
  <2>1. screen' \in {"main", "login"} /\ viewer' = 0 /\ 0 \in 0..(ScorePages - 1)
    BY <1>14 DEF PhoneRestarts
  <2> QED BY <1>1, <1>14, <2>1 DEF PhoneRestarts, PhoneTypes
<1>6. CASE Poll \/ SendingEnds
  BY <1>6 DEF Poll, SendingEnds, StandTypes, PhoneTypes
<1>7. CASE \E kind \in CommandKind : SendCommand(kind)
  BY <1>7 DEF SendCommand, PhoneTypes
<1>8. CASE \E m \in wire : HandleCommand(m) \/ LoseCommand(m)
  BY <1>8 DEF HandleCommand, LoseCommand, PhoneTypes
<1>9. CASE \E p \in 0..(ScorePages - 1) : OpenScore(p)
  BY <1>1, <1>9 DEF OpenScore, Back, PhoneTypes
<1>10. CASE ViewNext
  BY <1>10 DEF ViewNext, PhoneTypes
<1>11. CASE ViewPrev
  <2>1. viewer \in Nat /\ viewer < ScorePages /\ viewer > 0
    BY <1>11 DEF ViewPrev, PhoneTypes
  <2>2. viewer' \in 0..(ScorePages - 1)
    BY <1>11, <2>1 DEF ViewPrev, Back
  <2> QED BY <1>11, <2>2 DEF ViewPrev, PhoneTypes
<1>12. CASE CloseScore
  BY <1>1, <1>12 DEF CloseScore, OpenMain, PhoneTypes
<1> QED BY <1>3, <1>4, <1>5, <1>6, <1>7, <1>8, <1>9, <1>10, <1>11, <1>12, <1>13,
     <1>14 DEF PilotNext

\* All variables of phone and stand keep their types: the queue stays within its
\* capacity, and the phone's viewer within the score, for any number of starts,
\* concerts, requests, commands and pages (handleCommand, viewScore).
THEOREM PilotTypeCorrect == PilotSpec => []PilotTypeOK
<1>1. ASSUME PilotInit PROVE StandTypes /\ PhoneTypes
  <2> USE PilotAssumption
  <2>1. NoState \in ShownState /\ 0 \in 0..(ScorePages - 1)
    BY DEF ShownState, NoState
  <2>2. Len(queue) <= QueueCap
    BY <1>1, EmptyOf DEF PilotInit
  <2>3. StandTypes
    <3>1. locked \in [Concert -> BOOLEAN] /\ acted = {} /\ ~playing /\ playing \in BOOLEAN
          /\ switched \in BOOLEAN
      BY <1>1 DEF PilotInit
    <3>2. drain = "off" /\ shown = NoState
      BY <1>1 DEF PilotInit
    <3> QED BY <2>1, <2>2, <3>1, <3>2 DEF StandTypes
  <2>4. PhoneTypes
    BY <1>1, <2>1 DEF PilotInit, PhoneTypes
  <2> QED BY <2>3, <2>4
<1>2. /\ CommandIInv /\ ConsentIInv /\ StandTypes /\ PhoneTypes /\ [PilotNext]_pilotVars
      => StandTypes' /\ PhoneTypes'
  BY StandTypesStep, PhoneTypesStep
<1>3. CommandIInv /\ ConsentIInv /\ StandTypes /\ PhoneTypes => PilotTypeOK
  BY DEF CommandIInv, ConsentIInv, StandTypes, PhoneTypes, PilotTypeOK
<1> QED BY <1>1, <1>2, <1>3, CommandInvariance, ConsentInvariance, PTL DEF PilotSpec

-----------------------------------------------------------------------------
(* The inbox *)

\* What is on the screen is still unanswered, and an invitation that was never
\* sent is nowhere.
InboxIInv ==
  /\ InboxTypeOK
  /\ AnswersCount
  /\ \A R \in inboxRows : \A i \in R : notifications[i] = "pending"
  /\ \A i \in Invitation : invited[i] = "none" =>
       notifications[i] = "none" /\ tapped[i] = "none" /\ i \notin toStore

\* It is inductive.
THEOREM InboxInvariance == InboxSpec => []InboxIInv
<1>1. InboxInit => InboxIInv
  BY DEF InboxInit, InboxIInv, InboxTypeOK, AnswersCount
<1>2. InboxIInv /\ [InboxNext]_inboxVars => InboxIInv'
  <2> SUFFICES ASSUME InboxIInv, [InboxNext]_inboxVars PROVE InboxIInv'
    OBVIOUS
  <2> USE DEF InboxIInv, InboxTypeOK, AnswersCount, Verdicts
  <2>1. CASE ListMine
    BY <2>1 DEF ListMine, PendingThere
  <2>2. CASE RenderList
    BY <2>2 DEF RenderList, PendingIn
  <2>3. CASE LeaveInbox
    BY <2>3 DEF LeaveInbox
  <2>4. ASSUME NEW i \in Invitation, Invited(i) PROVE InboxIInv'
    BY <2>4 DEF Invited
  <2>5. ASSUME NEW i \in Invitation, SyncNotification(i) PROVE InboxIInv'
    BY <2>5 DEF SyncNotification
  <2>6. ASSUME NEW i \in Invitation, NotStored(i) PROVE InboxIInv'
    BY <2>6 DEF NotStored
  <2>7. ASSUME NEW i \in Invitation, NEW st \in Verdicts \cup {"gone"}, SettledElsewhere(i, st)
        PROVE InboxIInv'
    BY <2>7 DEF SettledElsewhere
  <2>8. ASSUME NEW i \in Invitation, NEW st \in Verdicts, TapAnswer(i, st) PROVE InboxIInv'
    <3>1. \E R \in inboxRows : i \in R
      BY <2>8 DEF TapAnswer
    <3>2. notifications[i] = "pending" /\ tapped[i] = "none" /\ invited[i] # "none"
      BY <3>1
    <3>3. /\ notifications' \in [Invitation -> {"none", "pending"} \cup Verdicts]
          /\ tapped' \in [Invitation -> {"none"} \cup Verdicts]
          /\ answering' \in SUBSET (Invitation \X Verdicts)
          /\ lostAnswers' \in SUBSET Invitation
          /\ invited' = invited /\ toStore' = toStore
      BY <2>8 DEF TapAnswer
    <3>4. /\ inboxRows' = {PendingIn(notifications')} \/ inboxRows' = {{}}
      BY <2>8 DEF TapAnswer
    <3>5. InboxTypeOK'
      BY <3>3, <3>4 DEF PendingIn
    <3>6. AnswersCount'
      <4>1. i \in lostAnswers' \/ <<i, st>> \in answering'
        BY <2>8 DEF TapAnswer
      <4>2. answering \subseteq answering' /\ lostAnswers \subseteq lostAnswers'
        BY <2>8 DEF TapAnswer
      <4>3. tapped'[i] # "none" => notifications'[i] = tapped'[i]
        BY <2>8, <3>2 DEF TapAnswer
      <4>4. \A j \in Invitation \ {i} :
              tapped'[j] = tapped[j] /\ notifications'[j] = notifications[j]
        BY <2>8 DEF TapAnswer
      <4> QED
        BY <3>3, <4>1, <4>2, <4>3, <4>4
    <3>7. \A R \in inboxRows' : \A j \in R : notifications'[j] = "pending"
      BY <3>4 DEF PendingIn
    <3>8. \A j \in Invitation : invited'[j] = "none" =>
            notifications'[j] = "none" /\ tapped'[j] = "none" /\ j \notin toStore'
      BY <2>8, <3>2 DEF TapAnswer
    <3> QED
      BY <3>5, <3>6, <3>7, <3>8
  <2>9. ASSUME NEW i \in Invitation, NEW st \in Verdicts, Respond(i, st) PROVE InboxIInv'
    BY <2>9 DEF Respond
  <2>10. ASSUME NEW i \in Invitation, NEW st \in Verdicts, AnswerIsLost(i, st) PROVE InboxIInv'
    BY <2>10 DEF AnswerIsLost
  <2>11. CASE UNCHANGED inboxVars
    BY <2>11 DEF inboxVars
  <2> HIDE DEF InboxIInv, InboxTypeOK, AnswersCount, Verdicts
  <2> QED
    BY <2>1, <2>2, <2>3, <2>4, <2>5, <2>6, <2>7, <2>8, <2>9, <2>10, <2>11 DEF InboxNext
<1> QED
  BY <1>1, <1>2, PTL DEF InboxSpec

\* What a user answered is never asked again, and is lost to the server only
\* when the call failed (onAction), for any number of invitations.
THEOREM AnswersAreCounted == InboxSpec => []AnswersCount
<1>1. InboxIInv => AnswersCount
  BY DEF InboxIInv
<1> QED
  BY <1>1, InboxInvariance, PTL

-----------------------------------------------------------------------------
(* The upload page *)

\* The dialogs of later sessions wait for a manager that is never asked for a
\* PIN, and as long as the door is open it was opened for the PIN asked for last.
UploadIInv ==
  /\ UploadTypeOK
  /\ StoredAfterConfirm
  /\ \A s \in ProfileSession \ {Serving} : status[s] = "idle"
  /\ status[Serving] # "idle" => requests # 0
  /\ status[Serving] = "connected" => requests \in confirmed
  /\ \A b \in Browser : upload[b] # 0 => upload[b] \in confirmed

\* It is inductive.
THEOREM UploadInvariance == UploadSpec => []UploadIInv
<1>1. UploadInit => UploadIInv
  BY UploadAssumption DEF UploadInit, UploadIInv, UploadTypeOK, StoredAfterConfirm,
     ProfileSession, Serving, PageOf
<1>2. UploadIInv /\ [UploadNext]_uploadVars => UploadIInv'
  <2> SUFFICES ASSUME UploadIInv, [UploadNext]_uploadVars PROVE UploadIInv'
    OBVIOUS
  <2> USE UploadAssumption DEF UploadIInv, UploadTypeOK, StoredAfterConfirm, ProfileSession,
          Serving, PageOf
  <2>1. ASSUME NEW b \in Browser, RequestPin(b) PROVE UploadIInv'
    <3>1. PICK c \in Code :
            /\ code' = [code EXCEPT ![1] = {c}]
            /\ page' = [page EXCEPT ![b] = [at |-> "waiting", code |-> {c}]]
      BY <2>1 DEF RequestPin
    <3>2. code' \in [1..MaxSessions -> SUBSET Code]
      BY <3>1
    <3>3. page' \in [Browser -> [at : {"away", "waiting", "connected"}, code : SUBSET Code]]
      BY <3>1
    <3>4. requests' \in 0..MaxRequests /\ requests' # 0
      BY <2>1 DEF RequestPin
    <3> QED
      BY <2>1, <3>2, <3>3, <3>4 DEF RequestPin
  <2>2. ASSUME NEW b \in Browser, SeeStatus(b) PROVE UploadIInv'
    BY <2>2 DEF SeeStatus
  <2>3. ASSUME NEW b \in Browser, ConfirmPIN(b) PROVE UploadIInv'
    BY <2>3 DEF ConfirmPIN
  <2>4. ASSUME NEW b \in Browser, BeginUpload(b) PROVE UploadIInv'
    BY <2>4 DEF BeginUpload
  <2>5. ASSUME NEW b \in Browser, EndUpload(b) PROVE UploadIInv'
    BY <2>5 DEF EndUpload
  <2>6. CASE OpenPairing
    BY <2>6 DEF OpenPairing
  <2>7. CASE ClosePairing
    BY <2>7 DEF ClosePairing
  <2>8. CASE NextProfile
    BY <2>8 DEF NextProfile
  <2>9. CASE UNCHANGED uploadVars
    BY <2>9 DEF uploadVars
  <2> HIDE DEF UploadIInv, UploadTypeOK
  <2> QED
    BY <2>1, <2>2, <2>3, <2>4, <2>5, <2>6, <2>7, <2>8, <2>9 DEF UploadNext
<1> QED
  BY <1>1, <1>2, PTL DEF UploadSpec

\* A file is stored only after the PIN asked for last was confirmed
\* (handleUpload), for any number of browsers, codes and sessions.
THEOREM UploadsAreConfirmed == UploadSpec => []StoredAfterConfirm
<1>1. UploadIInv => StoredAfterConfirm
  BY DEF UploadIInv
<1> QED
  BY <1>1, UploadInvariance, PTL

-----------------------------------------------------------------------------
(* The set list editor *)

\* A concert has the pieces last written to it, and a title only under an order it
\* was given to, for any number of items; the property is inductive as it stands.
THEOREM SetlistStaysGenuine == SetupSpec => []SetlistIsGenuine
<1>1. SetupInit => SetlistIsGenuine
  BY DEF SetupInit, SetlistIsGenuine, What
<1>2. SetlistIsGenuine /\ [SetupNext]_setupVars => SetlistIsGenuine'
  <2> SUFFICES ASSUME SetlistIsGenuine, [SetupNext]_setupVars PROVE SetlistIsGenuine'
    OBVIOUS
  <2> USE DEF SetlistIsGenuine
  <2>1. ASSUME NEW m \in 0..MaxItems, NEW s \in [1..m -> Item], SyncFromServer(s)
        PROVE  SetlistIsGenuine'
    <3>1. PICK kept \in [Order -> Title \cup {NoTitle}] :
            /\ \A o \in Order : kept[o] \in Kept(o)
            /\ itemRows' = [n \in DOMAIN s |->
                 [is |-> s[n].is, order |-> s[n].order, title |-> kept[s[n].order]]]
            /\ written' = What(s) /\ titled' = titled
      BY <2>1 DEF SyncFromServer
    <3>2. What(itemRows)' = written'
      BY <3>1 DEF What
    <3>3. ASSUME NEW n \in DOMAIN s, itemRows'[n].title # NoTitle
          PROVE  <<itemRows'[n].order, itemRows'[n].title>> \in titled
      <4> DEFINE o == s[n].order
      <4>1. o \in Order /\ itemRows'[n].order = o /\ itemRows'[n].title = kept[o]
        BY <3>1 DEF Item
      <4>2. kept[o] \in Kept(o) /\ kept[o] # NoTitle
        BY <3>1, <3>3, <4>1
      <4> HIDE DEF o
      <4>3. PICK k \in DOMAIN itemRows :
              /\ itemRows[k].order = o /\ itemRows[k].title # NoTitle
              /\ itemRows[k].title = kept[o]
        BY <4>2 DEF Kept
      <4> QED
        BY <4>1, <4>3
    <3>4. DOMAIN itemRows' = DOMAIN s
      BY <3>1
    <3> QED
      BY <3>1, <3>2, <3>3, <3>4
  <2>2. CASE SaveConcert
    <3>1. PICK e \in editor :
            /\ e.new => ~born
            /\ itemRows' = [n \in DOMAIN e.setlist |->
                 [is |-> e.setlist[n].is, title |-> e.setlist[n].title, order |-> n]]
            /\ concertRow' = IF e.new THEN "live" ELSE concertRow
            /\ written' = IF e.new \/ concertRow # "none" THEN What(e.setlist) ELSE written
            /\ titled' = titled \cup {<<n, e.setlist[n].title>> : n \in
                           {m \in DOMAIN e.setlist : e.setlist[m].title # NoTitle}}
      BY <2>2 DEF SaveConcert
    <3>2. What(itemRows)' = What(e.setlist)
      BY <3>1 DEF What
    <3>3. \A n \in DOMAIN itemRows' :
            /\ n \in DOMAIN e.setlist
            /\ itemRows'[n].title = e.setlist[n].title /\ itemRows'[n].order = n
      BY <3>1
    <3> QED
      BY <3>1, <3>2, <3>3
  <2>3. CASE Removed \/ MarkDeleted
    BY <2>3 DEF Removed, MarkDeleted
  <2>4. CASE UNCHANGED <<concertRow, itemRows, written, titled>>
    BY <2>4 DEF What
  <2>5. CASE LibraryChanges \/ UpdateGrid \/ GoBack \/ UNCHANGED setupVars
    BY <2>4, <2>5 DEF LibraryChanges, UpdateGrid, GoBack, setupVars
  <2>6. CASE \/ OpenNew \/ OpenEdit
             \/ \E p \in Piece \cup {Break}, t \in Title \cup {NoTitle} : AddItem(p, t)
             \/ \E n \in 1..MaxItems : MoveDown(n) \/ DeleteItem(n)
    BY <2>4, <2>6 DEF OpenNew, OpenEdit, Opens, AddItem, MoveDown, DeleteItem, Edits
  <2> QED
    BY <2>1, <2>2, <2>3, <2>5, <2>6 DEF SetupNext
<1> QED
  BY <1>1, <1>2, PTL DEF SetupSpec

-----------------------------------------------------------------------------
(* How often a piece is on a list *)

\* A finite sequence, of whatever.
IsList(s) == \E n \in Nat : s = [k \in 1..n |-> s[k]]

\* Its length, and that its rows can be counted.
LEMMA ListFacts ==
  ASSUME NEW s, IsList(s)
  PROVE  /\ Len(s) \in Nat /\ DOMAIN s = 1..Len(s) /\ s \in Seq({s[k] : k \in DOMAIN s})
         /\ \A q : RowsOf(s, q) \subseteq 1..Len(s) /\ IsFiniteSet(RowsOf(s, q))
         /\ \A q : Count(s, q) \in Nat
<1>1. PICK n \in Nat : s = [k \in 1..n |-> s[k]]
  BY DEF IsList
<1>2. DOMAIN s = 1..n
  BY <1>1
<1> DEFINE S == {s[k] : k \in DOMAIN s}
<1>3. s \in [1..n -> S]
  BY <1>1, <1>2
<1>4. s \in Seq(S)
  BY <1>3, SeqDef
<1>5. Len(s) = n
  BY <1>2, <1>4, LenProperties
<1>6. ASSUME NEW q PROVE RowsOf(s, q) \subseteq 1..n /\ IsFiniteSet(RowsOf(s, q))
  <2>1. RowsOf(s, q) \subseteq 1..n
    BY <1>2 DEF RowsOf
  <2>2. IsFiniteSet(1..n)
    BY FS_Interval
  <2> QED BY <2>1, <2>2, FS_Subset
<1>7. \A q : Count(s, q) \in Nat
  BY <1>6, FS_CardinalityType DEF Count
<1> QED BY <1>2, <1>4, <1>5, <1>6, <1>7

\* One row more.
LEMMA CountAdded ==
  ASSUME NEW s, IsList(s), NEW r
  PROVE  /\ IsList(Append(s, r))
         /\ \A q : Count(Append(s, r), q) = IF r.is = q THEN Count(s, q) + 1 ELSE Count(s, q)
<1> DEFINE n == Len(s)
           a == Append(s, r)
<1>1. /\ n \in Nat /\ DOMAIN s = 1..n
      /\ s \in Seq({s[k] : k \in DOMAIN s})
  BY ListFacts
<1>2. /\ a = [k \in 1..n + 1 |-> a[k]]
      /\ \A k \in 1..n : a[k] = s[k]
      /\ a[n + 1] = r
  <2> DEFINE S == {s[k] : k \in DOMAIN s} \cup {r}
  <2>1. s \in Seq(S) /\ r \in S
    BY <1>1, SeqMonotonic
  <2>2. /\ a \in Seq(S) /\ Len(a) = n + 1 /\ a[n + 1] = r
        /\ \A k \in 1..n : a[k] = s[k]
    BY <2>1, AppendProperties
  <2>3. a \in [1..Len(a) -> S]
    BY <2>2, LenProperties
  <2> HIDE DEF a, S
  <2> QED BY <2>2, <2>3
<1>3. /\ IsList(a) /\ DOMAIN a = 1..n + 1
      /\ \A k \in 1..n : a[k] = s[k]
      /\ a[n + 1] = r
  <2> HIDE DEF a, n
  <2>1. n + 1 \in Nat
    BY <1>1
  <2> QED BY <1>2, <2>1 DEF IsList
<1>4. ASSUME NEW q PROVE Count(a, q) = IF r.is = q THEN Count(s, q) + 1 ELSE Count(s, q)
  <2>0. n \in Nat /\ DOMAIN s = 1..n /\ IsFiniteSet(RowsOf(s, q))
    BY ListFacts
  <2> HIDE DEF a, n
  <2>1. n + 1 \notin RowsOf(s, q)
    BY <2>0 DEF RowsOf
  <2>2. CASE r.is = q
    <3>1. RowsOf(a, q) = RowsOf(s, q) \cup {n + 1}
      BY <1>3, <2>0, <2>2 DEF RowsOf
    <3> QED BY <2>0, <2>1, <2>2, <3>1, FS_AddElement DEF Count
  <2>3. CASE r.is # q
    <3>1. RowsOf(a, q) = RowsOf(s, q)
      BY <1>3, <2>0, <2>3 DEF RowsOf
    <3> QED BY <2>3, <3>1 DEF Count
  <2> QED BY <2>2, <2>3
<1> QED BY <1>3, <1>4

\* Two rows exchanged.
LEMMA CountSwapped ==
  ASSUME NEW s, IsList(s), NEW n \in 1..Len(s), n < Len(s)
  PROVE  LET a == [s EXCEPT ![n] = s[n + 1], ![n + 1] = s[n]]
         IN  IsList(a) /\ \A q : Count(a, q) = Count(s, q)
<1> DEFINE a == [s EXCEPT ![n] = s[n + 1], ![n + 1] = s[n]]
<1>1. Len(s) \in Nat /\ DOMAIN s = 1..Len(s) /\ n \in Nat /\ n + 1 \in 1..Len(s)
  BY ListFacts
<1>2. PICK m \in Nat : s = [k \in 1..m |-> s[k]]
  BY DEF IsList
<1>3. a = [k \in 1..m |-> IF k = n + 1 THEN s[n] ELSE IF k = n THEN s[n + 1] ELSE s[k]]
  BY <1>1, <1>2
<1>4. /\ a = [k \in 1..m |-> a[k]] /\ DOMAIN a = DOMAIN s
      /\ \A k \in DOMAIN s : a[k] = IF k = n + 1 THEN s[n] ELSE IF k = n THEN s[n + 1] ELSE s[k]
  <2>1. DOMAIN s = 1..m
    BY <1>2
  <2> HIDE DEF a
  <2> QED BY <1>3, <2>1
<1>5. IsList(a)
  BY <1>4 DEF IsList
<1>6. ASSUME NEW q PROVE Count(a, q) = Count(s, q)
  <2> HIDE DEF a
  <2> DEFINE R == RowsOf(s, q)
  <2>1. IsFiniteSet(R)
    BY ListFacts
  <2>2. CASE (n \in R) <=> (n + 1 \in R)
    <3>1. RowsOf(a, q) = R
      BY <1>1, <1>4, <2>2 DEF RowsOf
    <3> QED BY <3>1 DEF Count
  <2>3. CASE n \in R /\ n + 1 \notin R
    <3>1. RowsOf(a, q) = (R \ {n}) \cup {n + 1}
      BY <1>1, <1>4, <2>3 DEF RowsOf
    <3>2. /\ IsFiniteSet(R \ {n}) /\ Cardinality(R \ {n}) = Cardinality(R) - 1
          /\ Cardinality(R) \in Nat
      BY <2>1, <2>3, FS_RemoveElement, FS_CardinalityType
    <3>3. Cardinality((R \ {n}) \cup {n + 1}) = Cardinality(R \ {n}) + 1
      BY <2>3, <3>2, FS_AddElement
    <3> QED BY <3>1, <3>2, <3>3 DEF Count
  <2>4. CASE n \notin R /\ n + 1 \in R
    <3>1. RowsOf(a, q) = (R \ {n + 1}) \cup {n}
      BY <1>1, <1>4, <2>4 DEF RowsOf
    <3>2. /\ IsFiniteSet(R \ {n + 1}) /\ Cardinality(R \ {n + 1}) = Cardinality(R) - 1
          /\ Cardinality(R) \in Nat
      BY <2>1, <2>4, FS_RemoveElement, FS_CardinalityType
    <3>3. Cardinality((R \ {n + 1}) \cup {n}) = Cardinality(R \ {n + 1}) + 1
      BY <2>4, <3>2, FS_AddElement
    <3> QED BY <3>1, <3>2, <3>3 DEF Count
  <2> QED BY <2>2, <2>3, <2>4
<1> QED BY <1>5, <1>6

\* One row less: those after it move up.
LEMMA CountDeleted ==
  ASSUME NEW s, IsList(s), NEW n \in 1..Len(s)
  PROVE  LET a == SubSeq(s, 1, n - 1) \o SubSeq(s, n + 1, Len(s))
         IN  /\ IsList(a)
             /\ \A q : Count(a, q) = IF s[n].is = q THEN Count(s, q) - 1 ELSE Count(s, q)
<1> DEFINE m == Len(s)
           a == SubSeq(s, 1, n - 1) \o SubSeq(s, n + 1, m)
           S == {s[k] : k \in DOMAIN s}
<1>1. m \in Nat /\ DOMAIN s = 1..m /\ s \in Seq(S) /\ n \in 1..m
  BY ListFacts
<1>2. /\ DOMAIN a = 1..m - 1 /\ IsList(a)
      /\ \A k \in 1..m - 1 : a[k] = IF k < n THEN s[k] ELSE s[k + 1]
  <2> DEFINE b == SubSeq(s, 1, n - 1)
             c == SubSeq(s, n + 1, m)
  <2>1. /\ b \in Seq(S) /\ Len(b) = n - 1
        /\ \A k \in 1..n - 1 : b[k] = s[k]
    <3>1. \A k \in 1..n - 1 : s[k] \in S
      BY <1>1
    <3>2. /\ b \in Seq(S) /\ Len(b) = IF 1 <= n - 1 THEN n - 1 - 1 + 1 ELSE 0
          /\ \A k \in 1..n - 1 - 1 + 1 : b[k] = s[1 + k - 1]
      BY <1>1, <3>1, SubSeqProperties
    <3> HIDE DEF b
    <3> QED BY <1>1, <3>2
  <2>2. /\ c \in Seq(S) /\ Len(c) = m - n
        /\ \A k \in 1..m - n : c[k] = s[n + k]
    <3>1. \A k \in n + 1..m : s[k] \in S
      BY <1>1
    <3>2. /\ c \in Seq(S) /\ Len(c) = IF n + 1 <= m THEN m - (n + 1) + 1 ELSE 0
          /\ \A k \in 1..m - (n + 1) + 1 : c[k] = s[n + 1 + k - 1]
      BY <1>1, <3>1, SubSeqProperties
    <3>3. m \in Nat /\ n \in 1..m
      BY <1>1
    <3> HIDE DEF c, S, m
    <3>4. /\ Len(c) = m - n
          /\ \A k \in 1..m - n : k \in 1..m - (n + 1) + 1 /\ n + 1 + k - 1 = n + k
      BY <3>2, <3>3
    <3> QED BY <3>2, <3>4
  <2> HIDE DEF b, c, S, m
  <2>3. /\ b \o c \in Seq(S) /\ Len(b \o c) = m - 1
        /\ \A k \in 1..m - 1 : (b \o c)[k] = IF k <= n - 1 THEN b[k] ELSE c[k - (n - 1)]
    <3>1. m \in Nat /\ n \in 1..m
      BY <1>1
    <3>2. /\ b \o c \in Seq(S) /\ Len(b \o c) = Len(b) + Len(c)
          /\ \A k \in 1..Len(b) + Len(c) :
               (b \o c)[k] = IF k <= Len(b) THEN b[k] ELSE c[k - Len(b)]
      <4>1. b \in Seq(S) /\ c \in Seq(S)
        BY <2>1, <2>2
      <4> QED BY <4>1, ConcatProperties
    <3>3. Len(b) = n - 1 /\ Len(c) = m - n /\ n - 1 + (m - n) = m - 1
      BY <2>1, <2>2, <3>1
    <3>4. /\ Len(b \o c) = m - 1
          /\ \A k \in 1..m - 1 : (b \o c)[k] = IF k <= n - 1 THEN b[k] ELSE c[k - (n - 1)]
      <4> DEFINE e == b \o c
      <4> HIDE DEF e
      <4>1. /\ Len(e) = Len(b) + Len(c)
            /\ \A k \in 1..Len(b) + Len(c) : e[k] = IF k <= Len(b) THEN b[k] ELSE c[k - Len(b)]
        BY <3>2 DEF e
      <4>2. /\ Len(e) = m - 1
            /\ \A k \in 1..m - 1 : e[k] = IF k <= n - 1 THEN b[k] ELSE c[k - (n - 1)]
        BY <3>3, <4>1
      <4> QED BY <4>2 DEF e
    <3> QED BY <3>2, <3>4
  <2>4. \A k \in 1..m - 1 : (b \o c)[k] = IF k < n THEN s[k] ELSE s[k + 1]
    <3> SUFFICES ASSUME NEW k \in 1..m - 1 PROVE (b \o c)[k] = IF k < n THEN s[k] ELSE s[k + 1]
      OBVIOUS
    <3>1. CASE k < n
      BY <1>1, <2>1, <2>3, <3>1
    <3>2. CASE ~(k < n)
      <4>1. k - (n - 1) \in 1..m - n /\ n + (k - (n - 1)) = k + 1 /\ ~(k <= n - 1)
        BY <1>1, <3>2
      <4> QED BY <2>2, <2>3, <3>2, <4>1
    <3> QED BY <3>1, <3>2
  <2>5. b \o c \in [1..m - 1 -> S] /\ m - 1 \in Nat
    BY <1>1, <2>3, LenProperties
  <2>6. a = b \o c
    BY DEF b, c
  <2> QED BY <2>4, <2>5, <2>6 DEF IsList
<1>3. ASSUME NEW q PROVE Count(a, q) = IF s[n].is = q THEN Count(s, q) - 1 ELSE Count(s, q)
  <2> DEFINE R == RowsOf(s, q) \ {n}
             T == RowsOf(a, q)
             f == [k \in R |-> IF k < n THEN k ELSE k - 1]
  <2> HIDE DEF a, m
  <2>1. IsFiniteSet(R) /\ Cardinality(R) = IF s[n].is = q THEN Count(s, q) - 1 ELSE Count(s, q)
    <3>1. n \in RowsOf(s, q) <=> s[n].is = q
      BY <1>1 DEF RowsOf
    <3>2. IsFiniteSet(RowsOf(s, q))
      BY ListFacts
    <3> QED BY <3>1, <3>2, FS_RemoveElement DEF Count
  <2>2. \A k \in R : k \in 1..m /\ k # n /\ s[k].is = q
    BY <1>1 DEF RowsOf
  <2>8. \A k \in R : f[k] = IF k < n THEN k ELSE k - 1
    OBVIOUS
  <2>3. f \in [R -> T]
    <3>1. ASSUME NEW k \in R PROVE f[k] \in T
      <4>1. k \in 1..m /\ k # n /\ s[k].is = q
        BY <2>2
      <4>2. CASE k < n
        <5>1. k \in 1..m - 1 /\ a[k] = s[k] /\ f[k] = k
          BY <1>1, <1>2, <4>1, <4>2
        <5> QED BY <1>2, <4>1, <5>1 DEF RowsOf
      <4>3. CASE ~(k < n)
        <5>1. k - 1 \in 1..m - 1 /\ ~(k - 1 < n) /\ k - 1 + 1 = k /\ f[k] = k - 1
          BY <1>1, <4>1, <4>3
        <5>2. a[k - 1].is = q
          BY <1>2, <4>1, <5>1
        <5> QED BY <1>2, <5>1, <5>2 DEF RowsOf
      <4> QED BY <4>2, <4>3
    <3> QED BY <3>1
  <2>4. ASSUME NEW k \in R, NEW l \in R, f[k] = f[l] PROVE k = l
    <3>1. k \in 1..m /\ k # n /\ l \in 1..m /\ l # n
      BY <2>2
    <3>2. (IF k < n THEN k ELSE k - 1) = (IF l < n THEN l ELSE l - 1)
      BY <2>4
    <3> QED BY <1>1, <3>1, <3>2
  <2>5. ASSUME NEW t \in T PROVE \E k \in R : f[k] = t
    <3>1. t \in 1..m - 1 /\ a[t].is = q
      BY <1>2 DEF RowsOf
    <3>2. CASE t < n
      <4>1. t \in R
        BY <1>1, <1>2, <3>1, <3>2 DEF RowsOf
      <4> QED BY <3>2, <4>1
    <3>3. CASE ~(t < n)
      <4>1. t + 1 \in R /\ ~(t + 1 < n) /\ t + 1 - 1 = t
        BY <1>1, <1>2, <3>1, <3>3 DEF RowsOf
      <4>2. f[t + 1] = t
        <5>1. t \in Int
          BY <1>1, <3>1
        <5> HIDE DEF f, R, T
        <5> QED BY <2>8, <4>1, <5>1
      <4> QED BY <4>1, <4>2
    <3> QED BY <3>2, <3>3
  <2>6. ExistsBijection(R, T)
    <3> HIDE DEF f
    <3>1. f \in Injection(R, T)
      BY <2>3, <2>4 DEF Injection, IsInjective
    <3>2. f \in Surjection(R, T)
      BY <2>3, <2>5 DEF Surjection
    <3> QED BY <3>1, <3>2 DEF Bijection, ExistsBijection
  <2>7. Cardinality(T) = Cardinality(R)
    BY <2>1, <2>6, FS_Bijection
  <2> QED BY <2>1, <2>7 DEF Count
<1> QED BY <1>2, <1>3

\* A record with the two fields that the edits change.
IsEditor(e) == e = [f \in DOMAIN e |-> e[f]] /\ {"setlist", "wanted"} \subseteq DOMAIN e

\* Lists are what the row, the card and the editor hold, and the editor's
\* history counts all its rows.
EditorIInv ==
  /\ IsList(itemRows)
  /\ \A s \in card : IsList(s)
  /\ \A e \in editor :
       /\ IsEditor(e)
       /\ IsList(e.setlist)
       /\ e.wanted \in [Piece \cup {Break} -> Int]
       /\ \A p \in Piece \cup {Break} : Count(e.setlist, p) = e.wanted[p]

\* An edit that changes the list and the history alike keeps it.
LEMMA EditKeeps ==
  ASSUME EditorIInv, NEW e \in editor, NEW s, NEW w, Edits(e, s, w), IsList(s),
         w \in [Piece \cup {Break} -> Int],
         \A p \in Piece \cup {Break} : Count(s, p) = w[p]
  PROVE  EditorIInv'
<1> DEFINE f == [e EXCEPT !.setlist = s, !.wanted = w]
<1>1. IsEditor(e)
  BY DEF EditorIInv
<1>2. f.setlist = s /\ f.wanted = w /\ IsEditor(f)
  BY <1>1 DEF IsEditor
<1>3. /\ editor' = {f} /\ itemRows' = itemRows /\ card' = card
      /\ f.setlist = s /\ f.wanted = w
      /\ IsEditor(f)
  BY <1>2 DEF Edits, IsEditor
<1> HIDE DEF f
<1> QED BY <1>3 DEF EditorIInv

\* An editor that opens begins to count.
LEMMA OpenKeeps ==
  ASSUME EditorIInv, NEW new, NEW s, Opens(new, s), IsList(s)
  PROVE  EditorIInv'
<1> DEFINE w == [p \in Piece \cup {Break} |-> Count(s, p)]
           f == [new |-> new, scores |-> library, setlist |-> s, wanted |-> w]
<1>1. \A p : Count(s, p) \in Int
  <2>1. \A p : Count(s, p) \in Nat
    BY ListFacts
  <2> QED BY <2>1
<1>2. w \in [Piece \cup {Break} -> Int] /\ \A p \in Piece \cup {Break} : Count(s, p) = w[p]
  BY <1>1
<1>3. editor' = {f} /\ itemRows' = itemRows /\ card' = card
  BY DEF Opens
<1>4. /\ f.setlist = s /\ f.wanted = w
      /\ IsEditor(f)
  BY DEF IsEditor
<1> HIDE DEF f, w
<1> QED BY <1>2, <1>3, <1>4 DEF EditorIInv

\* It is inductive.
THEOREM EditorInvariance == SetupSpec => []EditorIInv
<1>0. IsList(<<>>) /\ \A n \in Nat : \A s : s = [k \in 1..n |-> s[k]] => IsList(s)
  <2>1. <<>> = [k \in 1..0 |-> <<>>[k]] /\ 0 \in Nat
    OBVIOUS
  <2> QED BY <2>1 DEF IsList
<1>1. SetupInit => EditorIInv
  BY <1>0 DEF SetupInit, EditorIInv
<1>2. EditorIInv /\ [SetupNext]_setupVars => EditorIInv'
  <2> SUFFICES ASSUME EditorIInv, [SetupNext]_setupVars PROVE EditorIInv'
    OBVIOUS
  <2>1. CASE UNCHANGED <<itemRows, card, editor>>
    BY <2>1 DEF EditorIInv, Count, RowsOf, IsList
  <2>2. CASE LibraryChanges \/ Removed \/ UNCHANGED setupVars
    BY <2>1, <2>2 DEF LibraryChanges, Removed, setupVars
  <2>3. CASE UpdateGrid \/ MarkDeleted \/ GoBack
    <3>1. /\ itemRows' = itemRows /\ card' \subseteq {Contents(itemRows)}
          /\ editor' \subseteq editor
      BY <2>3 DEF UpdateGrid, MarkDeleted, GoBack, Shown
    <3>2. IsList(Contents(itemRows))
      <4>1. PICK n \in Nat : itemRows = [k \in 1..n |-> itemRows[k]]
        BY DEF EditorIInv, IsList
      <4>2. Contents(itemRows) = [k \in 1..n |-> Contents(itemRows)[k]]
        BY <4>1 DEF Contents
      <4> QED BY <1>0, <4>2
    <3> QED BY <3>1, <3>2 DEF EditorIInv
  <2>4. ASSUME NEW m \in 0..MaxItems, NEW s \in [1..m -> Item], SyncFromServer(s)
        PROVE  EditorIInv'
    <3>1. IsList(itemRows') /\ card' = card /\ editor' = editor
      <4>1. PICK kept :
              /\ itemRows' = [n \in 1..m |->
                   [is |-> s[n].is, order |-> s[n].order, title |-> kept[s[n].order]]]
              /\ card' = card /\ editor' = editor
        BY <2>4 DEF SyncFromServer
      <4>2. itemRows' = [k \in 1..m |-> itemRows'[k]]
        BY <4>1
      <4> QED BY <1>0, <4>1, <4>2
    <3> QED BY <3>1 DEF EditorIInv, IsList
  <2>5. CASE OpenNew
    BY <1>0, <2>5, OpenKeeps DEF OpenNew
  <2>6. CASE OpenEdit
    <3>1. PICK s \in card :
            LET kept == {n \in DOMAIN s : s[n].is \in library \cup {Break}}
                Nth(m) == CHOOSE n \in kept : Cardinality({k \in kept : k <= n}) = m
            IN Opens(FALSE, [m \in 1..Cardinality(kept) |->
                 LET item == s[Nth(m)]
                 IN IF item.is = Break THEN item ELSE [item EXCEPT !.title = NoTitle]])
      BY <2>6 DEF OpenEdit
    <3> DEFINE kept == {n \in DOMAIN s : s[n].is \in library \cup {Break}}
               Nth(m) == CHOOSE n \in kept : Cardinality({k \in kept : k <= n}) = m
               opened == [m \in 1..Cardinality(kept) |->
                            LET item == s[Nth(m)]
                            IN IF item.is = Break THEN item ELSE [item EXCEPT !.title = NoTitle]]
    <3>2. Cardinality(kept) \in Nat
      <4>1. IsList(s)
        BY DEF EditorIInv
      <4>2. kept \subseteq 1..Len(s) /\ Len(s) \in Nat
        BY <4>1, ListFacts
      <4> HIDE DEF kept
      <4>3. IsFiniteSet(1..Len(s))
        BY <4>2, FS_Interval
      <4>4. IsFiniteSet(kept)
        BY <4>2, <4>3, FS_Subset
      <4> QED BY <4>4, FS_CardinalityType
    <3>3. opened = [k \in 1..Cardinality(kept) |-> opened[k]]
      OBVIOUS
    <3>4. Opens(FALSE, opened)
      BY <3>1
    <3> HIDE DEF opened
    <3> QED BY <1>0, <3>2, <3>3, <3>4, OpenKeeps
  <2>7. CASE SaveConcert
    <3>1. PICK e \in editor :
            /\ itemRows' = [n \in DOMAIN e.setlist |->
                 [is |-> e.setlist[n].is, title |-> e.setlist[n].title, order |-> n]]
            /\ card' \subseteq {e.setlist} /\ editor' = {}
      BY <2>7 DEF SaveConcert
    <3>2. IsList(e.setlist) /\ IsList(itemRows')
      <4>1. PICK n \in Nat : e.setlist = [k \in 1..n |-> e.setlist[k]]
        BY DEF EditorIInv, IsList
      <4>2. itemRows' = [k \in 1..n |-> itemRows'[k]]
        BY <3>1, <4>1
      <4> QED BY <1>0, <4>1, <4>2
    <3> QED BY <3>1, <3>2 DEF EditorIInv
  <2>8. ASSUME NEW p \in Piece \cup {Break}, NEW t \in Title \cup {NoTitle}, AddItem(p, t)
        PROVE  EditorIInv'
    <3> DEFINE r == [is |-> p, title |-> t]
    <3>1. PICK e \in editor : Edits(e, Append(e.setlist, r), Wants(e, p))
      BY <2>8 DEF AddItem
    <3>2. /\ IsList(e.setlist) /\ e.wanted \in [Piece \cup {Break} -> Int]
          /\ \A q \in Piece \cup {Break} : Count(e.setlist, q) = e.wanted[q]
      BY DEF EditorIInv
    <3>3. r.is = p
      OBVIOUS
    <3> HIDE DEF r
    <3>4. /\ IsList(Append(e.setlist, r))
          /\ \A q : Count(Append(e.setlist, r), q) =
                      IF p = q THEN Count(e.setlist, q) + 1 ELSE Count(e.setlist, q)
      BY <3>2, <3>3, CountAdded
    <3>5. /\ Wants(e, p) \in [Piece \cup {Break} -> Int]
          /\ \A q \in Piece \cup {Break} :
               Wants(e, p)[q] = IF p = q THEN e.wanted[q] + 1 ELSE e.wanted[q]
      BY <3>2 DEF Wants
    <3>6. \A q \in Piece \cup {Break} : Count(Append(e.setlist, r), q) = Wants(e, p)[q]
      BY <3>2, <3>4, <3>5
    <3> QED BY <3>1, <3>4, <3>5, <3>6, EditKeeps
  <2>9. ASSUME NEW n \in 1..MaxItems, MoveDown(n) PROVE EditorIInv'
    <3>1. PICK e \in editor :
            /\ n < Len(e.setlist)
            /\ Edits(e, [e.setlist EXCEPT ![n] = e.setlist[n + 1], ![n + 1] = e.setlist[n]],
                     e.wanted)
      BY <2>9 DEF MoveDown
    <3>2. /\ IsList(e.setlist) /\ e.wanted \in [Piece \cup {Break} -> Int]
          /\ \A q \in Piece \cup {Break} : Count(e.setlist, q) = e.wanted[q]
      BY DEF EditorIInv
    <3> DEFINE a == [e.setlist EXCEPT ![n] = e.setlist[n + 1], ![n + 1] = e.setlist[n]]
    <3>3. n \in 1..Len(e.setlist)
      BY <3>1, <3>2, ListFacts, ConcertSetupAssumption
    <3>4. IsList(a) /\ \A q : Count(a, q) = Count(e.setlist, q)
      BY <3>1, <3>2, <3>3, CountSwapped
    <3> HIDE DEF a
    <3>5. Edits(e, a, e.wanted)
      BY <3>1 DEF a
    <3> QED BY <3>2, <3>4, <3>5, EditKeeps
  <2>10. ASSUME NEW n \in 1..MaxItems, DeleteItem(n) PROVE EditorIInv'
    <3>1. PICK e \in editor :
            /\ n <= Len(e.setlist)
            /\ Edits(e, SubSeq(e.setlist, 1, n - 1) \o SubSeq(e.setlist, n + 1, Len(e.setlist)),
                     [e.wanted EXCEPT ![e.setlist[n].is] = @ - 1])
      BY <2>10 DEF DeleteItem
    <3>2. /\ IsList(e.setlist) /\ e.wanted \in [Piece \cup {Break} -> Int]
          /\ \A q \in Piece \cup {Break} : Count(e.setlist, q) = e.wanted[q]
      BY DEF EditorIInv
    <3> DEFINE a == SubSeq(e.setlist, 1, n - 1) \o SubSeq(e.setlist, n + 1, Len(e.setlist))
               w == [e.wanted EXCEPT ![e.setlist[n].is] = @ - 1]
    <3>3. n \in 1..Len(e.setlist)
      BY <3>1, <3>2, ListFacts, ConcertSetupAssumption
    <3>4. /\ IsList(a)
          /\ \A q : Count(a, q) = IF e.setlist[n].is = q THEN Count(e.setlist, q) - 1
                                  ELSE Count(e.setlist, q)
      BY <3>2, <3>3, CountDeleted
    <3>5. /\ w \in [Piece \cup {Break} -> Int]
          /\ \A q \in Piece \cup {Break} :
               w[q] = IF e.setlist[n].is = q THEN e.wanted[q] - 1 ELSE e.wanted[q]
      <4> DEFINE x == e.setlist[n].is
                 g == e.wanted
                 P == Piece \cup {Break}
      <4>1. w = [g EXCEPT ![x] = g[x] - 1] /\ g \in [P -> Int]
        BY <3>2
      <4> HIDE DEF w, x, g, P
      <4>2. \A q \in P : g[q] \in Int /\ g[q] - 1 \in Int
        BY <4>1
      <4>3. w = [q \in P |-> IF q = x THEN g[q] - 1 ELSE g[q]]
        BY <4>1
      <4>4. /\ w \in [P -> Int]
            /\ \A q \in P : w[q] = IF x = q THEN g[q] - 1 ELSE g[q]
        BY <4>2, <4>3
      <4> QED BY <4>4 DEF x, g, P
    <3>6. Edits(e, a, w)
      BY <3>1
    <3> HIDE DEF a, w
    <3>7. \A q \in Piece \cup {Break} : Count(a, q) = w[q]
      BY <3>2, <3>4, <3>5
    <3> QED BY <3>4, <3>5, <3>6, <3>7, EditKeeps
  <2> QED
    BY <2>2, <2>3, <2>4, <2>5, <2>6, <2>7, <2>8, <2>9, <2>10 DEF SetupNext
<1> QED
  BY <1>1, <1>2, PTL DEF SetupSpec

\* However long the list, and whatever is added, moved and deleted, and on
\* whatever concert the editor is opened: every piece is on it as often as the
\* user put it (the buttons of rightList in concert_setup.go).
THEOREM NoItemIsLost == SetupSpec => []EditorKeepsItems
<1>1. EditorIInv => EditorKeepsItems
  BY DEF EditorIInv, EditorKeepsItems
<1> QED
  BY <1>1, EditorInvariance, PTL
=============================================================================
