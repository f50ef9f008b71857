------------------------------ MODULE AlertFeed ------------------------------
(***************************************************************************)
(* The fan-out hub (sinks/websocket.py, class Broadcaster) and the          *)
(* coroutines that pump it into WebSocket connections (api/app.py, _pump).  *)
(* An alert or a trade is its number in the order of publication.  All of   *)
(* it runs on one event loop: an action is what runs between two awaits,    *)
(* and the client at the other end may leave between any two.               *)
(***************************************************************************)
EXTENDS Integers, Sequences, SequencesExt

CONSTANTS AlertConns,    (* connections to /ws/alerts                        *)
          TradeConns,    (* connections to /ws/trades                        *)
          Stalled,       (* of these, the ones whose client may stop reading *)
          History,       (* alert_buffer_size: maxlen of the replay ring     *)
          ReplayLimit,   (* recent_alerts(limit=50) of _pump                 *)
          QueueSize,     (* maxsize of a subscriber's queue                  *)
          MaxAlerts, MaxTrades   (* bounds on what the feeds publish         *)

Conns == AlertConns \cup TradeConns

ASSUME FeedAssumption ==
  /\ AlertConns \cap TradeConns = {}
  /\ Stalled \subseteq Conns
  /\ History \in Nat
  /\ ReplayLimit \in Nat \ {0} /\ QueueSize \in Nat \ {0}
  /\ MaxAlerts \in Nat /\ MaxTrades \in Nat

VARIABLES published,   (* how many payloads each feed has published          *)
          recent,      (* _recent                                            *)
          subs,        (* _alert_subs and _trade_subs, by their connection   *)
          queue,       (* the subscriber's asyncio.Queue                     *)
          pc,          (* where its pump is: "new" (accepted, not opened),   *)
                       (* "replaying", in queue.get ("waiting"), in send_json*)
                       (* ("sending"), "closed", or "failed" in the replay   *)
          backlog,     (* what its replay loop has yet to send               *)
          sending,     (* the payload its send_json is at, if any            *)
          connected,   (* the client at the other end is there               *)
          received,    (* history: what the client was sent, in order        *)
          dropped,     (* history: what a full queue made _fan_out drop      *)
          since        (* history: the first payload meant for it            *)

pumps == <<pc, backlog, sending, connected, received, since>>
vars == <<published, recent, subs, queue, dropped, pumps>>

Feeds == {"alerts", "trades"}
Feed(c) == IF c \in AlertConns THEN "alerts" ELSE "trades"
Serving == {"replaying", "waiting", "sending"}
-----------------------------------------------------------------------------
(* Mutant: off by one, the slice is one too short.                          *)
LatestButOne(s, n) == SubSeq(s, IF Len(s) >= n THEN Len(s) - n + 2 ELSE 1, Len(s))

LatestOf(s, n) == SubSeq(s, IF Len(s) > n THEN Len(s) - n + 1 ELSE 1, Len(s))

(* Mutant: newest first, as a list of recent alerts is shown.               *)
RecentNewestFirst(limit) == Reverse(LatestOf(recent, limit))

(* list(_recent)[-limit:] for a limit that is not negative; a slice from -0 *)
(* is the whole list.                                                       *)
RecentAlerts(limit) == IF limit = 0 THEN recent ELSE LatestOf(recent, limit)

(* _fan_out(subs, payload): offered to every queue, dropped where full.     *)
FanOut(f, payload) ==
  LET to == {c \in subs : Feed(c) = f}
  IN  /\ queue' = [c \in Conns |->
                     IF c \in to /\ Len(queue[c]) < QueueSize
                       THEN Append(queue[c], payload) ELSE queue[c]]
      /\ dropped' = [c \in Conns |->
                     IF c \in to /\ Len(queue[c]) >= QueueSize
                       THEN dropped[c] \cup {payload} ELSE dropped[c]]

(* publish_alert: into the ring, then to the subscribers of the feed.       *)
PublishAlert ==
  /\ published["alerts"] < MaxAlerts
  /\ published' = [published EXCEPT !["alerts"] = @ + 1]
  /\ recent' = LatestOf(Append(recent, published'["alerts"]), History)
  /\ FanOut("alerts", published'["alerts"])
  /\ UNCHANGED <<subs, pumps>>

(* publish_trade: to the subscribers only, trades are not kept.             *)
PublishTrade ==
  /\ published["trades"] < MaxTrades
  /\ published' = [published EXCEPT !["trades"] = @ + 1]
  /\ FanOut("trades", published'["trades"])
  /\ UNCHANGED <<recent, subs, pumps>>

(* Mutant: a connection with something to replay is not subscribed yet.     *)
OpenUnsubscribed(c) ==
  LET replay == IF Feed(c) = "alerts" THEN RecentAlerts(ReplayLimit) ELSE << >>
  IN  /\ pc[c] = "new"
      /\ connected' = [connected EXCEPT ![c] = TRUE]
      /\ subs' = IF replay = << >> THEN subs \cup {c} ELSE subs
      /\ backlog' = [backlog EXCEPT ![c] = replay]
      /\ pc' = [pc EXCEPT ![c] = IF replay = << >> THEN "waiting" ELSE "replaying"]
      /\ since' = [since EXCEPT ![c] = published[Feed(c)] - Len(replay) + 1]
      /\ UNCHANGED <<published, recent, queue, dropped, sending, received>>

(* _pump from accept() to its first await: subscribe, and for alerts take   *)
(* the replay list.                                                         *)
Open(c) ==
  LET replay == IF Feed(c) = "alerts" THEN RecentAlerts(ReplayLimit) ELSE << >>
  IN  /\ pc[c] = "new"
      /\ connected' = [connected EXCEPT ![c] = TRUE]
      /\ subs' = subs \cup {c}
      /\ backlog' = [backlog EXCEPT ![c] = replay]
      /\ pc' = [pc EXCEPT ![c] = IF replay = << >> THEN "waiting" ELSE "replaying"]
      /\ since' = [since EXCEPT ![c] = published[Feed(c)] - Len(replay) + 1]
      /\ UNCHANGED <<published, recent, queue, dropped, sending, received>>

(* Mutant: the replay loop ends after its first alert.                      *)
ReplayOnce(c) ==
  /\ pc[c] = "replaying" /\ connected[c]
  /\ received' = [received EXCEPT ![c] = Append(@, Head(backlog[c]))]
  /\ backlog' = [backlog EXCEPT ![c] = Tail(@)]
  /\ pc' = [pc EXCEPT ![c] = "waiting"]
  /\ UNCHANGED <<published, recent, subs, queue, dropped, sending, connected, since>>

(* The replay loop sends its next alert.                                    *)
Replay(c) ==
  /\ pc[c] = "replaying" /\ connected[c]
  /\ received' = [received EXCEPT ![c] = Append(@, Head(backlog[c]))]
  /\ backlog' = [backlog EXCEPT ![c] = Tail(@)]
  /\ pc' = [pc EXCEPT ![c] = IF Len(backlog[c]) = 1 THEN "waiting" ELSE "replaying"]
  /\ UNCHANGED <<published, recent, subs, queue, dropped, sending, connected, since>>

(* The replay loop's send raises.  It is outside the try of _pump: the      *)
(* exception leaves _pump without unsubscribing.                            *)
ReplayFails(c) ==
  /\ pc[c] = "replaying" /\ ~connected[c]
  /\ pc' = [pc EXCEPT ![c] = "failed"]
  /\ backlog' = [backlog EXCEPT ![c] = << >>]
  /\ UNCHANGED <<published, recent, subs, queue, dropped, sending, connected,
                 received, since>>

(* queue.get() returns, send_json starts.                                   *)
Take(c) ==
  /\ pc[c] = "waiting" /\ queue[c] # << >>
  /\ sending' = [sending EXCEPT ![c] = <<Head(queue[c])>>]
  /\ queue' = [queue EXCEPT ![c] = Tail(@)]
  /\ pc' = [pc EXCEPT ![c] = "sending"]
  /\ UNCHANGED <<published, recent, subs, dropped, backlog, connected, received, since>>

Send(c) ==
  /\ pc[c] = "sending" /\ connected[c]
  /\ received' = [received EXCEPT ![c] = @ \o sending[c]]
  /\ sending' = [sending EXCEPT ![c] = << >>]
  /\ pc' = [pc EXCEPT ![c] = "waiting"]
  /\ UNCHANGED <<published, recent, subs, queue, dropped, backlog, connected, since>>

(* Mutant: the pump ends without unsubscribing.                             *)
SendFailsSubscribed(c) ==
  /\ pc[c] = "sending" /\ ~connected[c]
  /\ sending' = [sending EXCEPT ![c] = << >>]
  /\ pc' = [pc EXCEPT ![c] = "closed"]
  /\ UNCHANGED <<published, recent, subs, queue, dropped, backlog, connected,
                 received, since>>

(* Mutant: the exception is swallowed inside the loop, which goes on.       *)
SendFailsOnward(c) ==
  /\ pc[c] = "sending" /\ ~connected[c]
  /\ sending' = [sending EXCEPT ![c] = << >>]
  /\ pc' = [pc EXCEPT ![c] = "waiting"]
  /\ UNCHANGED <<published, recent, subs, queue, dropped, backlog, connected,
                 received, since>>

(* The send raises: the finally of _pump unsubscribes.                      *)
SendFails(c) ==
  /\ pc[c] = "sending" /\ ~connected[c]
  /\ sending' = [sending EXCEPT ![c] = << >>]
  /\ pc' = [pc EXCEPT ![c] = "closed"]
  /\ subs' = subs \ {c}
  /\ UNCHANGED <<published, recent, queue, dropped, backlog, connected, received, since>>

(* The client goes away; the pump learns of it from its next send.          *)
Leave(c) ==
  /\ connected[c]
  /\ connected' = [connected EXCEPT ![c] = FALSE]
  /\ UNCHANGED <<published, recent, subs, queue, dropped, pc, backlog, sending,
                 received, since>>

Init ==
  /\ published = [f \in Feeds |-> 0]
  /\ recent = << >>
  /\ subs = {}
  /\ queue = [c \in Conns |-> << >>]
  /\ pc = [c \in Conns |-> "new"]
  /\ backlog = [c \in Conns |-> << >>]
  /\ sending = [c \in Conns |-> << >>]
  /\ connected = [c \in Conns |-> FALSE]
  /\ received = [c \in Conns |-> << >>]
  /\ dropped = [c \in Conns |-> {}]
  /\ since = [c \in Conns |-> 1]

Pump(c) == Replay(c) \/ ReplayFails(c) \/ Take(c) \/ Send(c) \/ SendFails(c)

Next ==
  \/ PublishAlert
  \/ PublishTrade
  \/ \E c \in Conns : Open(c) \/ Pump(c) \/ Leave(c)

Spec == Init /\ [][Next]_vars

(* The event loop runs every coroutine that can run, and the publishers go  *)
(* on publishing.  Nothing is promised of a send to a stalled client, which *)
(* may wait for its socket for ever, nor that anyone connects or leaves.    *)
FairSpec ==
  /\ Spec
  /\ WF_vars(PublishAlert) /\ WF_vars(PublishTrade)
  /\ \A c \in Conns \ Stalled : WF_vars(Pump(c))
-----------------------------------------------------------------------------
(* What a connection was sent and will be sent, in order.                   *)
Stream(c) == received[c] \o backlog[c] \o sending[c] \o queue[c]

(* A client being served gets every payload once and in the order of        *)
(* publication: the replay joins the live feed with no gap and no repeat    *)
(* although alerts are published while it is being replayed, and the only   *)
(* payloads missing are those its full queue dropped.                       *)
ExactlyOnceInOrder ==
  \A c \in Conns : pc[c] \in Serving =>
    /\ \A i, j \in 1..Len(Stream(c)) : i < j => Stream(c)[i] < Stream(c)[j]
    /\ ToSet(Stream(c)) \cap dropped[c] = {}
    /\ ToSet(Stream(c)) \cup dropped[c] = since[c]..published[Feed(c)]

(* A client that connects is brought up to date: it starts as far back as   *)
(* the ring and the replay limit reach, and no further.                     *)
ReplayReachesBack ==
  [][\A c \in AlertConns : pc[c] = "new" /\ pc'[c] \in Serving =>
       since'[c] = Max({1, published["alerts"] + 1 - Min({History, ReplayLimit})})]_vars

(* A connection that no longer has a pump has no subscription either, and   *)
(* a pump that serves has one - but for the pump that failed in its replay. *)
(* And what a subscriber costs is bounded, whatever it does not read.       *)
SubscribedWhileServing ==
  \A c \in Conns :
    /\ pc[c] # "failed" => (c \in subs <=> pc[c] \in Serving)
    /\ Len(queue[c]) <= QueueSize

(* The feed of alerts implements the abstract delivery: a client gets       *)
(* alerts that were published, in their order and once, from its replay on. *)
Delivery == INSTANCE AlertDelivery
              WITH Receivers <- AlertConns, issued <- published["alerts"],
                   got <- [c \in AlertConns |-> received[c]]
ImplementsDelivery == Delivery!DeliverySpec

(* One client that stops reading, or whose queue is full, holds up no       *)
(* other: whatever is queued for a client that reads and stays is sent to   *)
(* it.                                                                      *)
QueuedIsDelivered ==
  \A c \in Conns \ Stalled : \A n \in 1..(MaxAlerts + MaxTrades) :
    (pc[c] \in Serving /\ n \in ToSet(Stream(c)))
      ~> (n \in ToSet(received[c]) \/ ~connected[c])

(* The subscription of a client that left is given up once there is         *)
(* something to send to it, provided its replay was over.                   *)
LeaversAreForgotten ==
  \A c \in Conns \ Stalled :
    (pc[c] \in {"waiting", "sending"} /\ ~connected[c] /\ queue[c] # << >>)
      ~> (c \notin subs)

(* "pushes new alerts to all live subscribers": whoever is subscribed has a *)
(* pump that serves it.                                                     *)
SubscribersAreServed == \A c \in subs : pc[c] \in Serving
=============================================================================
