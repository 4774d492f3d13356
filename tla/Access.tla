--------------------------------- MODULE Access ---------------------------------
(***************************************************************************)
(* A card at the door: the interrupt handler of the card reader            *)
(* (cardreader.cpp) leaves it for the main task, whose checkDoor()         *)
(* (doormanager.cpp) asks the Authorizer (authorizer.cpp) and opens or     *)
(* denies, while the MQTT task closes the database and opens another one   *)
(* in the same Authorizer (dbmanager.cpp), without a lock.  The MQTT task  *)
(* opens the door too, and reboots the controller, when a command says so  *)
(* (mqttmanager.cpp).                                                      *)
(*                                                                         *)
(* The ID of a card is read in two parts; mixing the parts of two cards    *)
(* never gives the ID of a third one.  The databases are numbered as they  *)
(* are opened: the number stands for the pointers to the database and to   *)
(* its prepared statement, and 0 for NULL.                                 *)
(***************************************************************************)
EXTENDS Naturals, Sequences

CONSTANTS Cards,
          Masters,    \* cards with a master key
          Versions,   \* contents of a database file
          Auth,       \* Auth[v]: the cards that version v authorizes
          Bad,        \* versions for which no statement can be prepared
          MaxSwipes,  \* bound on the cards read
          MaxOpens,   \* bound on the databases opened
          MaxCommands, \* bound on the commands to open the door
          MaxCrashes  \* bound on the restarts

ASSUME AccessAssumption ==
  /\ Masters \subseteq Cards /\ Bad \subseteq Versions
  /\ Auth \in [Versions -> SUBSET Cards]
  /\ {MaxSwipes, MaxOpens, MaxCommands, MaxCrashes} \subseteq Nat

NULL == 0

VARIABLES
  newAccess, cardIDRaw, \* what the interrupt handler leaves
  main,      \* where checkDoor() is
  id,        \* its copy of the card
  query,     \* the statement that sqlite3_step() was called with
  sqlitedb, dbquery, \* of the Authorizer
  live,      \* the statements that are not finalized
  dirty,     \* the statements that were stepped and not reset
  binding,   \* the statement that a card was bound to, and the card
  opened,    \* the versions opened
  setup,     \* initDBMan() is still to come
  relay,     \* the door is open
  mqtt,      \* where the MQTT task is in its swap, or in openDoor()
  tries,     \* the databases that the swap has tried
  rawAt, at, \* databases opened when the card was read (history)
  swapped,   \* the database was touched since the card was copied (history)
  swipes, commands, crashes

card == <<newAccess, cardIDRaw, rawAt>>
locals == <<id, query, at>>
statement == <<dirty, binding>>
db == <<sqlitedb, dbquery, live, opened, setup>>
swap == <<mqtt, tries>>
vars == <<card, main, locals, statement, db, relay, swap, swapped, swipes, commands, crashes>>

Whole(c) == <<c, c>>
NoCard == <<"none", "none">>

Init ==
  /\ newAccess = FALSE /\ cardIDRaw = NoCard /\ rawAt = 0
  /\ main = "check" /\ id = NoCard /\ query = NULL /\ at = 0
  /\ sqlitedb = NULL /\ dbquery = NULL /\ live = {} /\ opened = <<>> /\ setup = TRUE
  /\ dirty = {} /\ binding = <<NULL, NoCard>>
  /\ relay = FALSE
  /\ mqtt = "idle" /\ tries = 0
  /\ swapped = FALSE /\ swipes = 0 /\ commands = 0 /\ crashes = 0

-----------------------------------------------------------------------------
(* The interrupt handler, on the core of the main task *)

captureIncomingData(c) ==
  /\ swipes < MaxSwipes
  /\ swipes' = swipes + 1
  /\ newAccess' = TRUE
  /\ cardIDRaw' = Whole(c)
  /\ rawAt' = Len(opened)
  /\ UNCHANGED <<main, locals, statement, db, relay, swap, swapped, commands, crashes>>

-----------------------------------------------------------------------------
(* checkCardReaders(), in the main task: bitsToNumber() reads byte by byte *)

CopyFirst ==
  /\ main = "check"
  /\ newAccess
  /\ id' = <<cardIDRaw[1], "none">>
  /\ at' = rawAt
  /\ swapped' = (mqtt \notin {"idle", "opening"})
  /\ main' = "copy"
  /\ UNCHANGED <<card, query, statement, db, relay, swap, swipes, commands, crashes>>

CopySecond ==
  /\ main = "copy"
  /\ id' = <<id[1], cardIDRaw[2]>>
  /\ main' = "clear"
  /\ UNCHANGED <<card, query, at, statement, db, relay, swap, swapped, swipes, commands, crashes>>

ClearNewAccess ==
  /\ main = "clear"
  /\ newAccess' = FALSE
  /\ main' = "authorize"
  /\ UNCHANGED <<cardIDRaw, rawAt, locals, statement, db, relay, swap, swapped, swipes, commands, crashes>>

-----------------------------------------------------------------------------
(* userAuthorized() and the rest of checkDoor() *)

MainGoes(from, to) ==
  /\ main = from
  /\ main' = to
  /\ UNCHANGED <<card, db, swap, swipes, commands>>

Restart ==
  /\ crashes < MaxCrashes
  /\ crashes' = crashes + 1
  /\ newAccess' = FALSE /\ cardIDRaw' = NoCard /\ rawAt' = 0
  /\ main' = "check" /\ id' = NoCard /\ query' = NULL /\ at' = 0
  /\ sqlitedb' = NULL /\ dbquery' = NULL /\ live' = {} /\ opened' = <<>> /\ setup' = TRUE
  /\ dirty' = {} /\ binding' = <<NULL, NoCard>>
  /\ relay' = FALSE /\ mqtt' = "idle" /\ tries' = 0
  /\ swapped' = FALSE
  /\ UNCHANGED <<swipes, commands>>

Dangling(q) == q # NULL /\ q \notin live

\* The program may crash when it uses a statement that has been finalized.
UseAfterFinalize(q) == Dangling(q) /\ Restart

CheckMaster ==
  /\ MainGoes("authorize", IF \E c \in Masters : id = Whole(c) THEN "open" ELSE "wait")
  /\ UNCHANGED <<locals, statement, relay, swapped, crashes>>

\* Mutant: it waits until there is a database.
WaitForDB_Forever ==
  /\ sqlitedb # NULL /\ MainGoes("wait", "bind")
  /\ UNCHANGED <<locals, statement, relay, swapped, crashes>>

\* For up to 500 ms.
WaitForDB ==
  /\ MainGoes("wait", IF sqlitedb # NULL THEN "bind" ELSE "deny")
  /\ UNCHANGED <<locals, statement, relay, swapped, crashes>>

\* sqlite3_bind_text() fails for a statement that is NULL, finalized or not reset.
Bind ==
  \/ /\ MainGoes("bind", "step")
     /\ IF dbquery \in live \ dirty
          THEN binding' = <<dbquery, id>>
          ELSE UNCHANGED binding
     /\ UNCHANGED <<locals, dirty, relay, swapped, crashes>>
  \/ main = "bind" /\ UseAfterFinalize(dbquery)

\* sqlite3_step() starts: an error at once if the statement is NULL or finalized.
Step ==
  \/ /\ MainGoes("step", "result")
     /\ query' = IF dbquery \in live THEN dbquery ELSE NULL
     /\ dirty' = IF dbquery \in live THEN dirty \cup {dbquery} ELSE dirty
     /\ UNCHANGED <<id, at, binding, relay, swapped, crashes>>
  \/ main = "step" /\ UseAfterFinalize(dbquery)

\* Mutant: an error counts as an authorization.
Finds_OnError(q) ==
  q # NULL /\ binding[1] = q => \E c \in Auth[opened[q]] : binding[2] = Whole(c)

\* What SELECT EXISTS finds for the card that was bound, if one was.
Finds(q) ==
  q # NULL /\ binding[1] = q /\ \E c \in Auth[opened[q]] : binding[2] = Whole(c)

\* sqlite3_step() ends.  If the statement was finalized under way it gives its
\* answer or an error, or the program crashes.
Result ==
  \/ /\ MainGoes("result", IF Finds(query) THEN "open" ELSE "deny")
     /\ UNCHANGED <<locals, statement, relay, swapped, crashes>>
  \/ /\ Dangling(query)
     /\ MainGoes("result", "deny")
     /\ UNCHANGED <<locals, statement, relay, swapped, crashes>>
  \/ main = "result" /\ UseAfterFinalize(query)

openDoor ==
  /\ MainGoes("open", "opened")
  /\ relay' = TRUE
  /\ UNCHANGED <<locals, statement, swapped, crashes>>

\* After 700 ms, unless these are over before the delay begins: the time left is
\* then negative and unsigned, and the door stays open for weeks.
CloseDoor ==
  /\ MainGoes("opened", "refresh")
  /\ relay' = FALSE
  /\ UNCHANGED <<locals, statement, swapped, crashes>>

denyToOpenDoor ==
  /\ MainGoes("deny", "refresh")
  /\ UNCHANGED <<locals, statement, relay, swapped, crashes>>

BackToReaders ==
  /\ MainGoes("refresh", "check")
  /\ id' = NoCard /\ query' = NULL /\ at' = 0
  /\ swapped' = FALSE
  /\ UNCHANGED <<binding, relay, crashes>>

\* Mutant: the statement is not reset.
refreshQuery_Not == BackToReaders /\ UNCHANGED dirty

refreshQuery ==
  \/ BackToReaders /\ dirty' = dirty \ {dbquery}
  \/ main = "refresh" /\ UseAfterFinalize(dbquery)

\* initDBMan(), between two calls of checkDoor(), opens the database there is.
InitDB(v) ==
  /\ main = "check" /\ setup
  /\ Len(opened) < MaxOpens
  /\ setup' = FALSE
  /\ opened' = Append(opened, v)
  /\ IF v \in Bad
       THEN UNCHANGED <<sqlitedb, dbquery, live>>
       ELSE /\ sqlitedb' = Len(opened')
            /\ dbquery' = Len(opened')
            /\ live' = {Len(opened')}
  /\ UNCHANGED <<card, main, locals, statement, relay, swap, swapped, swipes, commands, crashes>>

-----------------------------------------------------------------------------
(* The MQTT task swaps the database: closeDB() and openDB() *)

MqttGoes(from, to) ==
  /\ mqtt = from
  /\ mqtt' = to
  /\ swapped' = (main # "check")
  /\ UNCHANGED <<card, main, locals, statement, setup, relay, swipes, commands, crashes>>

\* finishDBDownload() closes the database; activateDBFile() closes one that
\* could not be opened.
StartClosing ==
  \/ ~setup /\ Len(opened) < MaxOpens /\ MqttGoes("idle", "forgetQuery") /\ tries' = 0
  \/ MqttGoes("failed", "forgetQuery") /\ UNCHANGED tries

\* Mutant: the statement is not finalized.
Finalize_Not ==
  StartClosing /\ UNCHANGED <<live, sqlitedb, dbquery, opened>>

Finalize ==
  /\ StartClosing
  /\ live' = live \ {dbquery}
  /\ UNCHANGED <<sqlitedb, dbquery, opened>>

ForgetQuery ==
  /\ MqttGoes("forgetQuery", "forgetDB")
  /\ dbquery' = NULL
  /\ UNCHANGED <<tries, sqlitedb, live, opened>>

ForgetDB ==
  /\ MqttGoes("forgetDB", "open")
  /\ sqlitedb' = NULL
  /\ UNCHANGED <<tries, dbquery, live, opened>>

\* The new file, or the old one if the new one could not be opened.
OpenDB(v) ==
  /\ tries < 2 /\ Len(opened) < MaxOpens
  /\ MqttGoes("open", "prepare")
  /\ tries' = tries + 1
  /\ opened' = Append(opened, v)
  /\ sqlitedb' = Len(opened')
  /\ UNCHANGED <<dbquery, live>>

\* There is no old file, or it could not be opened either.
GiveUp ==
  /\ tries > 0
  /\ MqttGoes("open", "idle")
  /\ UNCHANGED <<tries, sqlitedb, dbquery, live, opened>>

PrepareFails ==
  /\ MqttGoes("prepare", "failed")
  /\ opened[sqlitedb] \in Bad
  /\ UNCHANGED <<tries, sqlitedb, dbquery, live, opened>>

Prepare ==
  /\ MqttGoes("prepare", "idle")
  /\ opened[sqlitedb] \notin Bad
  /\ dbquery' = sqlitedb
  /\ live' = live \cup {sqlitedb}
  /\ UNCHANGED <<tries, sqlitedb, opened>>

-----------------------------------------------------------------------------
(* The MQTT task obeys a command *)

\* handleCommand(): whether a command is for this door is up to what was on the
\* stack, as the recipient is copied without its end; one that is taken to be for
\* another door has no effect.
handleCommand ==
  /\ mqtt = "idle"
  /\ \/ /\ commands < MaxCommands
        /\ commands' = commands + 1
        /\ mqtt' = "opening"
        /\ relay' = TRUE
        /\ UNCHANGED <<card, main, locals, statement, db, tries, swapped, swipes, crashes>>
     \/ Restart

CloseAfterCommand ==
  /\ mqtt = "opening"
  /\ mqtt' = "idle"
  /\ relay' = FALSE
  /\ UNCHANGED <<card, main, locals, statement, db, tries, swapped, swipes, commands, crashes>>

-----------------------------------------------------------------------------
checkDoor ==
  \/ CopyFirst \/ CopySecond \/ ClearNewAccess
  \/ CheckMaster \/ WaitForDB \/ Bind \/ Step \/ Result
  \/ openDoor \/ CloseDoor \/ denyToOpenDoor \/ refreshQuery

Swap ==
  Finalize \/ ForgetQuery \/ ForgetDB \/ (\E v \in Versions : OpenDB(v)) \/ GiveUp
  \/ PrepareFails \/ Prepare

Next ==
  \/ \E c \in Cards : captureIncomingData(c)
  \/ checkDoor
  \/ \E v \in Versions : InitDB(v)
  \/ Swap
  \/ handleCommand \/ CloseAfterCommand
  \/ Restart

Spec == Init /\ [][Next]_vars

FairSpec == Spec /\ WF_vars(checkDoor) /\ WF_vars(CloseAfterCommand)

-----------------------------------------------------------------------------
TypeOK ==
  /\ newAccess \in BOOLEAN
  /\ main \in {"check", "copy", "clear", "authorize", "wait", "bind", "step", "result", "open",
               "opened", "deny", "refresh"}
  /\ opened \in Seq(Versions)
  /\ {sqlitedb, dbquery, query, binding[1], rawAt, at} \subseteq 0..Len(opened)
  /\ live \subseteq {dbquery} \ {NULL} \* no statement is left without being finalized
  /\ tries \in 0..2
  /\ mqtt \in {"idle", "forgetQuery", "forgetDB", "open", "prepare", "failed", "opening"}
  /\ relay \in BOOLEAN

\* The door is open for a card with a master key, or one that is authorized by the
\* database in service when it was read or by a later one, or while a command is
\* obeyed: never for a card that had been revoked, for one that was asked about
\* before, or for no card at all, nor when nobody is there to close it.
OpensOnlyAuthorized ==
  relay /\ mqtt # "opening" =>
    /\ main = "opened"
    /\ \E c \in Cards :
         /\ id = Whole(c)
         /\ c \in Masters \/ \E n \in 1..Len(opened) : n >= at /\ c \in Auth[opened[n]]

\* A card that is authorized is denied only if the database was being swapped.
DeniesWithReason ==
  main = "deny" /\ ~swapped /\ dbquery # NULL =>
    \A c \in Cards : id = Whole(c) => c \notin Auth[opened[dbquery]]

\* With no database, during a swap and after a crash alike, the main task always
\* comes back to the readers.
KeepsPolling == []<>(main = "check")
=================================================================================
