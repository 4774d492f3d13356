------------------------------ MODULE DBDownload ------------------------------
(***************************************************************************)
(* How a published database reaches the door: the part of MqttManager      *)
(* (mqttmanager.cpp) that subscribes to /topic/database and hands the      *)
(* slices over, composed with DBManager and with the MQTT broker.          *)
(*                                                                         *)
(* The broker is external.  It keeps one retained version, sends it at     *)
(* each subscription, and has a persistent session for the controller      *)
(* (disable_clean_session): what it owes is delivered in order, again from *)
(* the first slice if the connection is lost before the last.              *)
(***************************************************************************)
EXTENDS DBManager

CONSTANTS MaxPublish,     \* bound on the versions published
          MaxDisconnects, \* bound on the connections lost
          SubscribeFails  \* whether esp_mqtt_client_subscribe() may fail

ASSUME DownloadAssumption ==
  /\ MaxPublish \in Nat
  /\ MaxDisconnects \in Nat
  /\ SubscribeFails \in BOOLEAN

VARIABLES
  connected,   \* MqttManager::connected
  subscribed,  \* MqttManager::subscribed
  kind,        \* MqttManager::downloading: "DB" or "NONE"
  retained,    \* the version the broker retains, or NoDB
  owed,        \* the versions that the broker has yet to deliver
  session,     \* the broker knows a subscription of the controller
  published,   \* number of versions published
  disconnects  \* number of connections lost

\* Auxiliary state, which the properties refer to and no action reads.
VARIABLE faulted \* a call to the disk or to SQLite has failed

mqttVars == <<connected, subscribed, kind>>
brokerVars == <<retained, owed, session, published>>
dlVars == <<vars, mqttVars, brokerVars, disconnects, faulted>>

\* Mutant: sends something even if nothing is retained.
Subscribe_Always(queue) ==
  /\ session' = TRUE
  /\ owed' = Append(queue, retained)
  /\ UNCHANGED <<retained, published>>

\* The broker is asked for the database topic; if it retains a version it
\* sends it, even if there was a subscription already.
Subscribe(queue) ==
  /\ session' = TRUE
  /\ owed' = IF retained = NoDB THEN queue ELSE Append(queue, retained)
  /\ UNCHANGED <<retained, published>>

\* A static object starts zeroed, and the first DownloadType is DB.
DLInit ==
  /\ Init
  /\ connected = FALSE
  /\ subscribed = FALSE
  /\ kind = "DB"
  /\ retained = NoDB
  /\ owed = <<>>
  /\ session = FALSE
  /\ published = 0
  /\ disconnects = 0
  /\ faulted = FALSE

-----------------------------------------------------------------------------
Publish(v) ==
  /\ published < MaxPublish
  /\ published' = published + 1
  /\ retained' = v
  /\ owed' = IF session THEN Append(owed, v) ELSE owed
  /\ UNCHANGED <<vars, mqttVars, session, disconnects, faulted>>

\* Mutant: the topic is taken for subscribed without having been asked for.
Connect_NoSubscribe ==
  /\ ~connected
  /\ pc["mqtt"] = "idle"
  /\ SlowHandshake => pc["main"] = "idle"
  /\ connected' = TRUE
  /\ subscribed' = TRUE
  /\ UNCHANGED <<vars, kind, brokerVars, disconnects, faulted>>

\* MQTT_EVENT_CONNECTED.  If the subscription fails it is tried again at the
\* next connection.
Connect ==
  /\ ~connected
  /\ pc["mqtt"] = "idle"
  /\ SlowHandshake => pc["main"] = "idle"
  /\ connected' = TRUE
  /\ \/ ~subscribed /\ Subscribe(owed) /\ subscribed' = TRUE
     \/ (subscribed \/ SubscribeFails) /\ UNCHANGED <<subscribed, brokerVars>>
  /\ UNCHANGED <<vars, kind, disconnects, faulted>>

\* MQTT_EVENT_DISCONNECTED.
Disconnect ==
  /\ connected
  /\ pc["mqtt"] = "idle"
  /\ disconnects < MaxDisconnects
  /\ disconnects' = disconnects + 1
  /\ connected' = FALSE
  /\ cancelDBDownload \/ (rx = NoSlice /\ UNCHANGED vars)
  /\ UNCHANGED <<subscribed, kind, brokerVars, faulted>>

\* A message that is handed over in one event; downloading is not touched
\* for it.
FullMessage(v) == Slices(v) = 1

\* MQTT_EVENT_DATA on the database topic.
Deliver(v, k) ==
  /\ connected
  /\ owed # <<>> /\ Head(owed) = v
  /\ writeToDatabaseFile(v, k)
  /\ LET ignored == k = Slices(v) /\ ~ready
     IN  /\ owed' = IF ignored THEN Tail(owed) ELSE owed
         /\ kind' = IF FullMessage(v) THEN kind
                    ELSE IF ignored THEN "NONE"
                    ELSE IF k = 1 THEN "DB" ELSE kind
  /\ UNCHANGED <<connected, subscribed, retained, session, published, disconnects, faulted>>

\* forceDBDownload(); queue is what the broker owes once the message being
\* handled is done with.
resubscribe(queue) ==
  \/ /\ ~subscribed \/ kind = "DB"
     /\ owed' = queue
     /\ UNCHANGED <<subscribed, retained, session, published>>
  \/ /\ subscribed /\ kind # "DB" /\ connected
     /\ UNCHANGED subscribed
     /\ \/ Subscribe(queue)
        \/ SubscribeFails /\ owed' = queue /\ UNCHANGED <<retained, session, published>>
  \/ /\ subscribed /\ kind # "DB" /\ ~connected
     /\ subscribed' = FALSE
     /\ owed' = queue
     /\ UNCHANGED <<retained, session, published>>

\* The end of the callback for the last slice: the message is acknowledged,
\* after finishDBDownload() has returned.
EndOfMessage == rx # NoSlice /\ rx' = NoSlice

\* A step of task t in which a call to the disk or to SQLite fails.
Fault(t) ==
  \/ pc[t] = "create" /\ pc'[t] = "idle"
  \/ pc[t] = "write" /\ db' = db
  \/ pc[t] = "validOpen" /\ pc'[t] = "close"
  \/ pc[t] = "prefOpen" /\ pc'[t] = "unprefOpen"
  \/ pc[t] = "unprefOpen" /\ pc'[t] = AfterSwap(t)
  \/ pc[t] \in {"activate", "reopen"} /\ pc'[t] = "clrFile" /\ Openable(db[cur])

Callback ==
  /\ CallbackStep
  /\ LET queue == IF EndOfMessage THEN Tail(owed) ELSE owed
     IN  IF pc["mqtt"] = "force"
           THEN resubscribe(queue)
           ELSE owed' = queue /\ UNCHANGED <<subscribed, retained, session, published>>
  /\ kind' = IF EndOfMessage /\ ~FullMessage(rx[1]) THEN "NONE" ELSE kind
  /\ faulted' = (faulted \/ Fault("mqtt"))
  /\ UNCHANGED <<connected, disconnects>>

Main ==
  /\ MainStep
  /\ IF pc["main"] = "force"
       THEN resubscribe(owed)
       ELSE UNCHANGED <<subscribed, brokerVars>>
  /\ faulted' = (faulted \/ Fault("main"))
  /\ UNCHANGED <<connected, kind, disconnects>>

Restart ==
  /\ Crash
  /\ connected' = FALSE
  /\ subscribed' = FALSE
  /\ kind' = "DB"
  /\ UNCHANGED <<brokerVars, disconnects, faulted>>

DeliverNext == \E v \in Versions, k \in 1..NumSlices : Deliver(v, k)

DLNext ==
  \/ \E v \in Versions : Publish(v)
  \/ Connect
  \/ Disconnect
  \/ DeliverNext
  \/ Callback
  \/ Main
  \/ Restart

DLSpec == DLInit /\ [][DLNext]_dlVars

\* The client reconnects by itself, the broker delivers what it owes, and both
\* tasks run.
DLFairness ==
  WF_dlVars(Connect) /\ WF_dlVars(DeliverNext) /\ WF_dlVars(Callback) /\ WF_dlVars(Main)

DLFairSpec == DLSpec /\ DLFairness

-----------------------------------------------------------------------------
DLTypeOK ==
  /\ TypeOK
  /\ connected \in BOOLEAN
  /\ subscribed \in BOOLEAN
  /\ kind \in {"DB", "NONE"}
  /\ retained \in Versions \cup {NoDB}
  /\ owed \in Seq(Versions)
  /\ session \in BOOLEAN
  /\ published \in 0..MaxPublish
  /\ disconnects \in 0..MaxDisconnects
  /\ faulted \in BOOLEAN

\* As long as the disk has not failed, a version that the broker retains is
\* being served as soon as nothing is on its way: no lost connection, restart or
\* rejected version in between makes the door miss it (mqttmanager.cpp:17-26).
NothingMissed ==
  (Idle /\ subscribed /\ owed = <<>> /\ retained \in Versions \ Bad)
    => faulted \/ Serving = retained

\* Once no more versions are published and the connection is stable, the door
\* settles on the version published last, if it is sound and the disk has not
\* failed.
LastVersionSettles == <>[](retained \in Versions \ Bad => faulted \/ Serving = retained)

\* What mqttmanager.cpp:23-24 and dbmanager.cpp:168, 176 say: when the door is
\* left without a database a fresh copy of the retained one is on its way, or
\* the next connection will ask for it.
FreshCopyAsked ==
  (Idle /\ open = None /\ subscribed /\ retained # NoDB) => owed # <<>>
=============================================================================
