----------------------------- MODULE Access_proofs -----------------------------
(***************************************************************************)
(* Proofs about Access, for any cards, any databases, and any number of    *)
(* cards read, databases opened, commands and restarts.                    *)
(***************************************************************************)
EXTENDS Access, TLAPS

-----------------------------------------------------------------------------
(* The inductive invariant *)

Swapping == {"forgetQuery", "forgetDB", "open", "prepare", "failed"}

\* Of the statements only that of the database opened last may be live, and it is
\* finalized before a database is opened.
DBInv ==
  /\ setup => sqlitedb = NULL /\ dbquery = NULL /\ live = {} /\ mqtt \notin Swapping
  /\ live \subseteq {Len(opened)}
  /\ mqtt \in Swapping => live = {}
  /\ mqtt \in Swapping \ {"forgetQuery"} => dbquery = NULL
  /\ mqtt \in {"prepare", "failed"} => sqlitedb = Len(opened) /\ sqlitedb # NULL
  /\ mqtt \notin Swapping /\ dbquery # NULL => dbquery \in live /\ sqlitedb # NULL

\* Nothing has been done with a statement before it is prepared.
UsedInv ==
  /\ dirty \subseteq 1..Len(opened)
  /\ mqtt = "prepare" => Len(opened) \notin dirty \cup {query, binding[1]}

\* The live statement is not asked about an earlier card.
AskInv ==
  /\ main \in {"check", "copy", "clear", "authorize", "wait", "bind"} => dirty \cap live = {}
  /\ main = "step" /\ dbquery \in live /\ binding[1] = dbquery => binding[2] = id
  /\ main = "result" /\ query # NULL => query >= at /\ (binding[1] = query => binding[2] = id)

\* c may enter with what the databases say from the time of its reading on.
MayEnter(c) == c \in Masters \/ \E n \in 1..Len(opened) : n >= at /\ c \in Auth[opened[n]]

OpenInv ==
  /\ main \in {"open", "opened"} => \E c \in Cards : id = Whole(c) /\ MayEnter(c)
  /\ relay /\ mqtt # "opening" => main = "opened"

\* As long as the database is not touched it is the one that was asked.
ReasonInv ==
  /\ main # "check" /\ ~swapped => mqtt \notin Swapping
  /\ ~swapped /\ dbquery # NULL =>
       /\ main = "step" => binding = <<dbquery, id>>
       /\ main = "result" => query = dbquery /\ binding = <<dbquery, id>>

IInv == TypeOK /\ DBInv /\ UsedInv /\ AskInv /\ OpenInv /\ ReasonInv /\ DeniesWithReason

-----------------------------------------------------------------------------
LEMMA NoneOpened == <<>> \in Seq(Versions) /\ Len(<<>>) = 0
  OBVIOUS

LEMMA InvInit == Init => IInv
  <1> SUFFICES ASSUME Init PROVE IInv
    OBVIOUS
  <1>1. opened \in Seq(Versions) /\ Len(opened) = 0
    BY NoneOpened DEF Init
  <1>2. TypeOK
    <2>1. binding[1] = 0
      BY DEF Init, NULL
    <2>2. {sqlitedb, dbquery, query, binding[1], rawAt, at} \subseteq 0..Len(opened)
      BY <1>1, <2>1 DEF Init, NULL
    <2>3. tries \in 0..2
      BY DEF Init
    <2> QED
      BY <1>1, <2>2, <2>3, Zenon DEF Init, TypeOK
  <1>3. DBInv /\ UsedInv /\ AskInv /\ OpenInv /\ ReasonInv /\ DeniesWithReason
    BY <1>1 DEF Init, DBInv, UsedInv, AskInv, OpenInv, ReasonInv, DeniesWithReason, NULL, Swapping
  <1> QED
    BY <1>2, <1>3 DEF IInv

LEMMA RestartInv ==
  ASSUME Restart
  PROVE  IInv'
  <1>1. opened' \in Seq(Versions) /\ Len(opened') = 0
    BY NoneOpened DEF Restart
  <1>2. TypeOK'
    <2>1. binding'[1] = 0
      BY DEF Restart, NULL
    <2>2. {sqlitedb', dbquery', query', binding'[1], rawAt', at'} \subseteq 0..Len(opened')
      BY <1>1, <2>1 DEF Restart, NULL
    <2>3. tries' \in 0..2
      BY DEF Restart
    <2> QED
      BY <1>1, <2>2, <2>3, Zenon DEF Restart, TypeOK
  <1>3. DBInv' /\ UsedInv' /\ AskInv' /\ OpenInv' /\ ReasonInv' /\ DeniesWithReason'
    BY <1>1 DEF Restart, DBInv, UsedInv, AskInv, OpenInv, ReasonInv, DeniesWithReason, NULL, Swapping
  <1> QED
    BY <1>2, <1>3 DEF IInv

\* A use of a finalized statement that crashes is a restart.
LEMMA CrashInv ==
  ASSUME NEW q, UseAfterFinalize(q)
  PROVE  IInv'
  BY RestartInv DEF UseAfterFinalize

-----------------------------------------------------------------------------
(* The card, and the main task *)

LEMMA CardInv ==
  ASSUME IInv,
         CopyFirst \/ CopySecond \/ ClearNewAccess \/ \E c \in Cards : captureIncomingData(c)
  PROVE  IInv'
  <1> USE DEF IInv, TypeOK, DBInv, UsedInv, AskInv, OpenInv, ReasonInv, DeniesWithReason, NULL,
              Swapping, MayEnter, card, locals, statement, db, swap
  <1>1. CASE \E c \in Cards : captureIncomingData(c)
    BY <1>1 DEF captureIncomingData
  <1>2. CASE CopyFirst
    BY <1>2 DEF CopyFirst
  <1>3. CASE CopySecond
    BY <1>3 DEF CopySecond
  <1>4. CASE ClearNewAccess
    BY <1>4 DEF ClearNewAccess
  <1> QED
    BY <1>1, <1>2, <1>3, <1>4

LEMMA AuthorizeInv ==
  ASSUME IInv, CheckMaster \/ WaitForDB \/ Bind \/ Step
  PROVE  IInv'
  <1>5. CASE UseAfterFinalize(dbquery)
    BY <1>5, CrashInv
  <1> USE DEF IInv, TypeOK, DBInv, UsedInv, AskInv, OpenInv, ReasonInv, DeniesWithReason, NULL,
              Swapping, MayEnter, card, locals, statement, db, swap, MainGoes
  <1>1. CASE CheckMaster
    BY <1>1, AccessAssumption DEF CheckMaster
  <1>2. CASE WaitForDB
    BY <1>2 DEF WaitForDB
  <1>3. CASE /\ MainGoes("bind", "step")
             /\ IF dbquery \in live \ dirty
                  THEN binding' = <<dbquery, id>>
                  ELSE UNCHANGED binding
             /\ UNCHANGED <<locals, dirty, relay, swapped, crashes>>
    <2>1. TypeOK'
      BY <1>3
    <2>2. DBInv'
      BY <1>3
    <2>3. UsedInv'
      BY <1>3
    <2>4. AskInv'
      BY <1>3
    <2>5. OpenInv'
      BY <1>3
    <2>6. ReasonInv'
      BY <1>3
    <2>7. DeniesWithReason'
      BY <1>3
    <2> QED
      BY <2>1, <2>2, <2>3, <2>4, <2>5, <2>6, <2>7
  <1>4. CASE /\ MainGoes("step", "result")
             /\ query' = IF dbquery \in live THEN dbquery ELSE NULL
             /\ dirty' = IF dbquery \in live THEN dirty \cup {dbquery} ELSE dirty
             /\ UNCHANGED <<id, at, binding, relay, swapped, crashes>>
    <2>1. TypeOK'
      BY <1>4
    <2>2. DBInv'
      BY <1>4
    <2>3. UsedInv'
      <3>1. dirty' \subseteq dirty \cup live
        BY <1>4
      <3>2. live \subseteq 1..Len(opened)
        BY <1>4
      <3>3. dirty' \subseteq 1..Len(opened)
        BY <3>1, <3>2
      <3> QED
        BY <1>4, <3>3
    <2>4. AskInv'
      BY <1>4
    <2>5. OpenInv'
      BY <1>4
    <2>6. ReasonInv'
      BY <1>4
    <2>7. DeniesWithReason'
      BY <1>4
    <2> QED
      BY <2>1, <2>2, <2>3, <2>4, <2>5, <2>6, <2>7 DEF IInv
  <1> QED
    BY <1>1, <1>2, <1>3, <1>4, <1>5 DEF Bind, Step

LEMMA ResultInv ==
  ASSUME IInv, Result
  PROVE  IInv'
  <1> USE DEF IInv, TypeOK, DBInv, UsedInv, AskInv, OpenInv, ReasonInv, DeniesWithReason, NULL,
              Swapping, MayEnter, card, locals, statement, db, swap, MainGoes
  <1>1. CASE /\ MainGoes("result", IF Finds(query) THEN "open" ELSE "deny")
             /\ UNCHANGED <<locals, statement, relay, swapped, crashes>>
    BY <1>1, AccessAssumption DEF Finds
  <1>2. CASE /\ Dangling(query)
             /\ MainGoes("result", "deny")
             /\ UNCHANGED <<locals, statement, relay, swapped, crashes>>
    BY <1>2 DEF Dangling
  <1> QED
    BY <1>1, <1>2, CrashInv DEF Result

LEMMA DoorInv ==
  ASSUME IInv, openDoor \/ CloseDoor \/ denyToOpenDoor \/ refreshQuery
  PROVE  IInv'
  <1>5. CASE UseAfterFinalize(dbquery)
    BY <1>5, CrashInv
  <1> USE DEF IInv, TypeOK, DBInv, UsedInv, AskInv, OpenInv, ReasonInv, DeniesWithReason, NULL,
              Swapping, MayEnter, card, locals, statement, db, swap, MainGoes
  <1>1. CASE openDoor
    BY <1>1 DEF openDoor
  <1>2. CASE CloseDoor
    BY <1>2 DEF CloseDoor
  <1>3. CASE denyToOpenDoor
    BY <1>3 DEF denyToOpenDoor
  <1>4. CASE BackToReaders /\ dirty' = dirty \ {dbquery}
    <2>1. TypeOK'
      BY <1>4 DEF BackToReaders
    <2>2. DBInv'
      BY <1>4 DEF BackToReaders
    <2>3. UsedInv'
      BY <1>4 DEF BackToReaders
    <2>4. AskInv'
      BY <1>4 DEF BackToReaders
    <2>5. OpenInv'
      BY <1>4 DEF BackToReaders
    <2>6. ReasonInv'
      BY <1>4 DEF BackToReaders
    <2>7. DeniesWithReason'
      BY <1>4 DEF BackToReaders
    <2> QED
      BY <2>1, <2>2, <2>3, <2>4, <2>5, <2>6, <2>7 DEF IInv
  <1> QED
    BY <1>1, <1>2, <1>3, <1>4, <1>5 DEF refreshQuery

-----------------------------------------------------------------------------
(* The MQTT task *)

\* What the databases say of the cards does not change when one more is opened.
LEMMA MayEnterLater ==
  ASSUME IInv, NEW v \in Versions, opened' = Append(opened, v), UNCHANGED at
  PROVE  /\ Len(opened') = Len(opened) + 1 /\ opened' \in Seq(Versions)
         /\ \A n \in 1..Len(opened) : opened'[n] = opened[n]
         /\ \A c : MayEnter(c) => MayEnter(c)'
  BY DEF IInv, TypeOK, MayEnter

LEMMA InitDBInv ==
  ASSUME IInv, NEW v \in Versions, InitDB(v)
  PROVE  IInv'
  BY MayEnterLater DEF InitDB, IInv, TypeOK, DBInv, UsedInv, AskInv, OpenInv, ReasonInv,
     DeniesWithReason, NULL, Swapping, card, locals, statement, swap

LEMMA SwapInv ==
  ASSUME IInv, Swap
  PROVE  IInv'
  <1> USE DEF IInv, TypeOK, DBInv, UsedInv, AskInv, OpenInv, ReasonInv, DeniesWithReason, NULL,
              Swapping, card, locals, statement, MqttGoes
  <1>1. CASE Finalize
    <2>1. TypeOK'
      BY <1>1 DEF Finalize, StartClosing, MayEnter
    <2>2. DBInv'
      BY <1>1 DEF Finalize, StartClosing, MayEnter
    <2>3. UsedInv'
      BY <1>1 DEF Finalize, StartClosing, MayEnter
    <2>4. AskInv'
      BY <1>1 DEF Finalize, StartClosing, MayEnter
    <2>5. OpenInv'
      BY <1>1 DEF Finalize, StartClosing, MayEnter
    <2>6. ReasonInv'
      BY <1>1 DEF Finalize, StartClosing, MayEnter
    <2>7. DeniesWithReason'
      BY <1>1 DEF Finalize, StartClosing, MayEnter
    <2> QED
      BY <2>1, <2>2, <2>3, <2>4, <2>5, <2>6, <2>7 DEF IInv
  <1>2. CASE ForgetQuery \/ ForgetDB
    <2>1. TypeOK'
      BY <1>2 DEF ForgetQuery, ForgetDB, MayEnter
    <2>2. DBInv'
      BY <1>2 DEF ForgetQuery, ForgetDB, MayEnter
    <2>3. UsedInv'
      BY <1>2 DEF ForgetQuery, ForgetDB, MayEnter
    <2>4. AskInv'
      BY <1>2 DEF ForgetQuery, ForgetDB, MayEnter
    <2>5. OpenInv'
      BY <1>2 DEF ForgetQuery, ForgetDB, MayEnter
    <2>6. ReasonInv'
      BY <1>2 DEF ForgetQuery, ForgetDB, MayEnter
    <2>7. DeniesWithReason'
      BY <1>2 DEF ForgetQuery, ForgetDB, MayEnter
    <2> QED
      BY <2>1, <2>2, <2>3, <2>4, <2>5, <2>6, <2>7 DEF IInv
  <1>3. ASSUME NEW v \in Versions, OpenDB(v)
        PROVE  IInv'
    <2>1. TypeOK'
      BY <1>3, MayEnterLater DEF OpenDB
    <2>2. DBInv'
      BY <1>3, MayEnterLater DEF OpenDB
    <2>3. UsedInv'
      BY <1>3, MayEnterLater DEF OpenDB
    <2>4. AskInv'
      BY <1>3, MayEnterLater DEF OpenDB
    <2>5. OpenInv'
      BY <1>3, MayEnterLater DEF OpenDB
    <2>6. ReasonInv'
      BY <1>3, MayEnterLater DEF OpenDB
    <2>7. DeniesWithReason'
      BY <1>3, MayEnterLater DEF OpenDB
    <2> QED
      BY <2>1, <2>2, <2>3, <2>4, <2>5, <2>6, <2>7 DEF IInv
  <1>4. CASE GiveUp \/ PrepareFails
    <2>1. TypeOK'
      BY <1>4 DEF GiveUp, PrepareFails, MayEnter
    <2>2. DBInv'
      BY <1>4 DEF GiveUp, PrepareFails, MayEnter
    <2>3. UsedInv'
      BY <1>4 DEF GiveUp, PrepareFails, MayEnter
    <2>4. AskInv'
      BY <1>4 DEF GiveUp, PrepareFails, MayEnter
    <2>5. OpenInv'
      BY <1>4 DEF GiveUp, PrepareFails, MayEnter
    <2>6. ReasonInv'
      BY <1>4 DEF GiveUp, PrepareFails, MayEnter
    <2>7. DeniesWithReason'
      BY <1>4 DEF GiveUp, PrepareFails, MayEnter
    <2> QED
      BY <2>1, <2>2, <2>3, <2>4, <2>5, <2>6, <2>7 DEF IInv
  <1>5. CASE Prepare
    BY <1>5 DEF Prepare, MayEnter
  <1> QED
    BY <1>1, <1>2, <1>3, <1>4, <1>5 DEF Swap

LEMMA CommandInv ==
  ASSUME IInv, handleCommand \/ CloseAfterCommand
  PROVE  IInv'
  <1>1. CASE Restart
    BY <1>1, RestartInv
  <1>2. CASE /\ mqtt = "idle" /\ mqtt' = "opening" /\ relay' = TRUE
             /\ UNCHANGED <<card, main, locals, statement, db, tries, swapped, swipes, crashes>>
    BY <1>2 DEF IInv, TypeOK, DBInv, UsedInv, AskInv, OpenInv, ReasonInv, DeniesWithReason, NULL,
       Swapping, MayEnter, card, locals, statement, db
  <1>3. CASE CloseAfterCommand
    <2>1. TypeOK'
      BY <1>3 DEF CloseAfterCommand, IInv, TypeOK, DBInv, UsedInv, AskInv, OpenInv, ReasonInv, DeniesWithReason, NULL, Swapping, MayEnter, card, locals, statement, db
    <2>2. DBInv'
      BY <1>3 DEF CloseAfterCommand, IInv, TypeOK, DBInv, UsedInv, AskInv, OpenInv, ReasonInv, DeniesWithReason, NULL, Swapping, MayEnter, card, locals, statement, db
    <2>3. UsedInv'
      BY <1>3 DEF CloseAfterCommand, IInv, TypeOK, DBInv, UsedInv, AskInv, OpenInv, ReasonInv, DeniesWithReason, NULL, Swapping, MayEnter, card, locals, statement, db
    <2>4. AskInv'
      BY <1>3 DEF CloseAfterCommand, IInv, TypeOK, DBInv, UsedInv, AskInv, OpenInv, ReasonInv, DeniesWithReason, NULL, Swapping, MayEnter, card, locals, statement, db
    <2>5. OpenInv'
      BY <1>3 DEF CloseAfterCommand, IInv, TypeOK, DBInv, UsedInv, AskInv, OpenInv, ReasonInv, DeniesWithReason, NULL, Swapping, MayEnter, card, locals, statement, db
    <2>6. ReasonInv'
      BY <1>3 DEF CloseAfterCommand, IInv, TypeOK, DBInv, UsedInv, AskInv, OpenInv, ReasonInv, DeniesWithReason, NULL, Swapping, MayEnter, card, locals, statement, db
    <2>7. DeniesWithReason'
      BY <1>3 DEF CloseAfterCommand, IInv, TypeOK, DBInv, UsedInv, AskInv, OpenInv, ReasonInv, DeniesWithReason, NULL, Swapping, MayEnter, card, locals, statement, db
    <2> QED
      BY <2>1, <2>2, <2>3, <2>4, <2>5, <2>6, <2>7 DEF IInv
  <1> QED
    BY <1>1, <1>2, <1>3 DEF handleCommand

-----------------------------------------------------------------------------
LEMMA InvNext ==
  ASSUME IInv, [Next]_vars
  PROVE  IInv'
  <1>1. CASE checkDoor \/ \E c \in Cards : captureIncomingData(c)
    BY <1>1, CardInv, AuthorizeInv, ResultInv, DoorInv DEF checkDoor
  <1>2. CASE Swap \/ handleCommand \/ CloseAfterCommand \/ Restart \/ \E v \in Versions : InitDB(v)
    BY <1>2, SwapInv, CommandInv, RestartInv, InitDBInv
  <1>3. CASE UNCHANGED vars
    BY <1>3 DEF vars, card, locals, statement, db, swap, IInv, TypeOK, DBInv, UsedInv, AskInv, OpenInv,
       ReasonInv, DeniesWithReason, MayEnter
  <1> QED
    BY <1>1, <1>2, <1>3 DEF Next

LEMMA InvAlways == Spec => []IInv
  BY InvInit, InvNext, PTL DEF Spec

\* Pointers to databases and statements are those of databases that were opened, and
\* no statement is left without being finalized.
THEOREM AccessTypeCorrect == Spec => []TypeOK
  <1>1. IInv => TypeOK
    BY DEF IInv
  <1> QED
    BY <1>1, InvAlways, PTL

\* The door is open for who may enter only, however the two tasks and the interrupt
\* handler interleave (doormanager.cpp, authorizer.cpp).
THEOREM OpensOnlyAuthorizedAlways == Spec => []OpensOnlyAuthorized
  <1>1. IInv => OpensOnlyAuthorized
    BY DEF IInv, OpenInv, MayEnter, OpensOnlyAuthorized
  <1> QED
    BY <1>1, InvAlways, PTL

\* Nobody who is authorized is denied unless the database was being swapped.
THEOREM DeniesWithReasonAlways == Spec => []DeniesWithReason
  <1>1. IInv => DeniesWithReason
    BY DEF IInv
  <1> QED
    BY <1>1, InvAlways, PTL
================================================================================
