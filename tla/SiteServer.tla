----------------------------- MODULE SiteServer -----------------------------
(***************************************************************************)
(* The two request servers over one connection protocol: the site service  *)
(* (serve-site), whose acceptor takes a worker permit before it accepts    *)
(* and gives it to the thread of the connection, and the local daemon      *)
(* (serve), which serves one connection after the other.  A connection     *)
(* reads one frame at a time and writes one reply for it; a dense request  *)
(* also takes a permit of the shared embedder.                             *)
(***************************************************************************)
EXTENDS Integers, Sequences, FiniteSets

CONSTANTS Clients,      \* connections that may be opened
          MaxWorkers,   \* bound: the largest --workers
          MaxEmbeds,    \* --max-concurrent-embeds
          MaxFrames     \* bound: frames sent, over all connections

BoundsAssumption ==
  IsFiniteSet(Clients) /\ MaxWorkers \in Nat /\ MaxEmbeds \in Nat /\ MaxFrames \in Nat

VARIABLES surface,      \* "site" (serve-site) or "local" (serve)
          workers,      \* --workers of this server
          acceptor,     \* "free", or "holding" a permit for the next connection
          backlog,      \* connections the kernel queued
          slots,        \* free worker permits
          embeds,       \* free embedder permits
          stage,        \* client -> where its connection is
          peer,         \* client -> "away", "here" or "gone"
          inbox,        \* client -> frames sent and not read yet
          sent,         \* client -> frames sent so far
          current,      \* client -> the frame being answered
          replies       \* client -> replies written

vars == <<surface, workers, acceptor, backlog, slots, embeds, stage, peer, inbox, sent,
          current, replies>>

(* A request the handler answers from a snapshot (fetch, cite, context,    *)
(* related, status), one that needs a query vector (search, compare), one  *)
(* the dispatcher refuses, exit, an empty line, and the two lines that are *)
(* not a frame.                                                            *)
Kinds == {"lexical", "dense", "refused", "exit", "blank", "malformed", "oversize"}
Frames == [id : 1..MaxFrames, kind : Kinds]
NoFrame == [id |-> 0, kind |-> "blank"]

(* A reply names the request it answers; an undecodable line has no id.    *)
Reply(frame, ok) ==
  [id |-> IF frame.kind \in {"malformed", "oversize"} THEN 0 ELSE frame.id,
   ok |-> ok]

Threads == {c \in Clients : stage[c] \notin {"idle", "queued", "closed"}}
Snapshots == {c \in Clients : stage[c] \in {"snapshot", "embed_wait", "embedding"}}
Workers == IF surface = "site" THEN workers ELSE 1

Init ==
  /\ surface \in {"site", "local"} /\ workers \in 1..MaxWorkers
  /\ acceptor = "free"
  /\ backlog = <<>>
  /\ slots = Workers
  /\ embeds = MaxEmbeds
  /\ stage = [c \in Clients |-> "idle"]
  /\ peer = [c \in Clients |-> "away"]
  /\ inbox = [c \in Clients |-> <<>>]
  /\ sent = [c \in Clients |-> 0]
  /\ current = [c \in Clients |-> NoFrame]
  /\ replies = [c \in Clients |-> <<>>]

Goto(c, s) == stage' = [stage EXCEPT ![c] = s]

----------------------------------------------------------------------------
(* The clients.                                                            *)

Connect(c) ==
  /\ stage[c] = "idle"
  /\ peer' = [peer EXCEPT ![c] = "here"]
  /\ backlog' = Append(backlog, c)
  /\ Goto(c, "queued")
  /\ UNCHANGED <<surface, workers, acceptor, slots, embeds, inbox, sent, current, replies>>

SentFrames == {f \in Clients \X (1..MaxFrames) : f[2] <= sent[f[1]]}

(* A client may send the next request before the last is answered.         *)
Send(c, kind) ==
  /\ peer[c] = "here" /\ Cardinality(SentFrames) < MaxFrames
  /\ sent' = [sent EXCEPT ![c] = @ + 1]
  /\ inbox' = [inbox EXCEPT ![c] = Append(@, [id |-> sent[c] + 1, kind |-> kind])]
  /\ UNCHANGED <<surface, workers, acceptor, backlog, slots, embeds, stage, peer, current,
                 replies>>

(* It hangs up, or its own read timeout ends the call.                     *)
HangUp(c) ==
  /\ peer[c] = "here"
  /\ peer' = [peer EXCEPT ![c] = "gone"]
  /\ UNCHANGED <<surface, workers, acceptor, backlog, slots, embeds, stage, inbox, sent,
                 current, replies>>

----------------------------------------------------------------------------
(* The acceptor: a permit first, then the next connection of the backlog.  *)

AcquireWorker ==
  /\ acceptor = "free" /\ slots > 0
  /\ slots' = slots - 1
  /\ acceptor' = "holding"
  /\ UNCHANGED <<surface, workers, backlog, embeds, stage, peer, inbox, sent, current, replies>>

Accept ==
  /\ acceptor = "holding" /\ backlog # <<>>
  /\ acceptor' = "free"
  /\ backlog' = Tail(backlog)
  /\ Goto(Head(backlog), "reading")
  /\ UNCHANGED <<surface, workers, slots, embeds, peer, inbox, sent, current, replies>>

----------------------------------------------------------------------------
(* Fault: a connection that ends keeps its worker permit.                  *)
Close_KeepsPermit(c) ==
  /\ Goto(c, "closed")
  /\ slots' = IF peer[c] = "gone" /\ current[c] # NoFrame THEN slots ELSE slots + 1
  /\ current' = [current EXCEPT ![c] = NoFrame]

(* The thread of a connection.  Whatever ends it drops the permit.         *)
Close(c) ==
  /\ Goto(c, "closed")
  /\ slots' = slots + 1
  /\ current' = [current EXCEPT ![c] = NoFrame]

Write(c, reply) == replies' = [replies EXCEPT ![c] = Append(@, reply)]

(* Fault: an unreadable frame does not end the connection.                 *)
EndsConnection_Never(frame) == frame.kind = "oversize"

(* A line that is not a frame: on the site surface the stream is no longer *)
(* trusted, one error is written and the connection ends; the local daemon *)
(* answers a malformed line and goes on.                                   *)
EndsConnection(frame) ==
  CASE frame.kind = "oversize" -> TRUE
    [] frame.kind = "malformed" -> surface = "site"
    [] frame.kind = "exit" -> surface = "local"
    [] OTHER -> FALSE

(* The line is read and decoded; an empty one is skipped.                  *)
ReadFrame(c) ==
  /\ stage[c] = "reading" /\ inbox[c] # <<>>
  /\ inbox' = [inbox EXCEPT ![c] = Tail(@)]
  /\ IF Head(inbox[c]).kind = "blank"
     THEN UNCHANGED <<stage, current>>
     ELSE /\ current' = [current EXCEPT ![c] = Head(inbox[c])]
          /\ Goto(c, "dispatch")
  /\ UNCHANGED <<surface, workers, acceptor, backlog, slots, embeds, peer, sent, replies>>

(* End of file, or the read timeout of an idle connection.  The timeout is *)
(* reported like an unreadable line, end of file is not.                   *)
ReadEnds(c) ==
  /\ stage[c] = "reading" /\ inbox[c] = <<>>
  /\ Close(c)
  /\ \/ /\ peer[c] = "gone" /\ UNCHANGED replies
     \/ /\ peer[c] = "here"
        /\ IF surface = "site" THEN Write(c, [id |-> 0, ok |-> FALSE])
                               ELSE UNCHANGED replies
  /\ UNCHANGED <<surface, workers, acceptor, backlog, embeds, peer, inbox, sent>>

(* The closed set of operations the surface answers.                       *)
Answered(frame) == frame.kind \in {"lexical", "dense"}

(* Requests with an index_dir, an unknown command or bad arguments are     *)
(* refused before a snapshot is opened.                                    *)
Dispatch(c) ==
  /\ stage[c] = "dispatch"
  /\ Goto(c, IF Answered(current[c]) THEN "snapshot" ELSE "failed")
  /\ UNCHANGED <<surface, workers, acceptor, backlog, slots, embeds, peer, inbox, sent,
                 current, replies>>

(* The snapshot opens and its readiness stamp is checked: either may fail. *)
Gate(c) ==
  /\ stage[c] = "snapshot"
  /\ \/ Goto(c, "failed")
     \/ Goto(c, IF current[c].kind = "dense" THEN "embed_wait" ELSE "done")
  /\ UNCHANGED <<surface, workers, acceptor, backlog, slots, embeds, peer, inbox, sent,
                 current, replies>>

(* A dense query waits for an embedder permit with its snapshot open; the  *)
(* permit is returned whether the endpoint answers or not.  The local      *)
(* daemon has one connection at a time and no permits.                     *)
AcquireEmbed(c) ==
  /\ stage[c] = "embed_wait" /\ embeds > 0
  /\ embeds' = embeds - 1
  /\ Goto(c, "embedding")
  /\ UNCHANGED <<surface, workers, acceptor, backlog, slots, peer, inbox, sent, current, replies>>

(* Fault: a failed embed call keeps its permit.                            *)
Embed_LeaksOnError(c) ==
  /\ stage[c] = "embedding"
  /\ \/ Goto(c, "done") /\ embeds' = embeds + 1
     \/ Goto(c, "failed") /\ UNCHANGED embeds
  /\ UNCHANGED <<surface, workers, acceptor, backlog, slots, peer, inbox, sent, current, replies>>

Embed(c) ==
  /\ stage[c] = "embedding"
  /\ embeds' = embeds + 1
  /\ \E outcome \in {"done", "failed"} : Goto(c, outcome)
  /\ UNCHANGED <<surface, workers, acceptor, backlog, slots, peer, inbox, sent, current, replies>>

(* The reply is written, or the peer is gone and the write fails.  exit is *)
(* acknowledged by the local daemon.                                       *)
Respond(c) ==
  /\ stage[c] \in {"done", "failed"}
  /\ \/ /\ Write(c, Reply(current[c], stage[c] = "done" \/ (current[c].kind = "exit"
                                                             /\ surface = "local")))
        /\ IF EndsConnection(current[c])
           THEN Close(c)
           ELSE /\ Goto(c, "reading")
                /\ current' = [current EXCEPT ![c] = NoFrame]
                /\ UNCHANGED slots
     \/ /\ peer[c] = "gone"
        /\ Close(c) /\ UNCHANGED replies
  /\ UNCHANGED <<surface, workers, acceptor, backlog, embeds, peer, inbox, sent>>

ThreadStep(c) == \/ ReadFrame(c) \/ ReadEnds(c) \/ Dispatch(c) \/ Gate(c)
                 \/ AcquireEmbed(c) \/ Embed(c) \/ Respond(c)

Next == \/ AcquireWorker \/ Accept
        \/ \E c \in Clients : \/ Connect(c) \/ HangUp(c) \/ ThreadStep(c)
                              \/ \E k \in Kinds : Send(c, k)

----------------------------------------------------------------------------
Spec == Init /\ [][Next]_vars

Stages == {"idle", "queued", "reading", "dispatch", "snapshot", "embed_wait",
           "embedding", "done", "failed", "closed"}

TypeOK ==
  /\ surface \in {"site", "local"} /\ workers \in 1..MaxWorkers
  /\ acceptor \in {"free", "holding"}
  /\ backlog \in Seq(Clients)
  /\ slots \in 0..Workers /\ embeds \in 0..MaxEmbeds
  /\ stage \in [Clients -> Stages]
  /\ peer \in [Clients -> {"away", "here", "gone"}]
  /\ inbox \in [Clients -> Seq(Frames)] /\ sent \in [Clients -> 0..MaxFrames]
  /\ current \in [Clients -> Frames \cup {NoFrame}]
  /\ replies \in [Clients -> Seq([id : 0..MaxFrames, ok : BOOLEAN])]

(* Read connections are bounded by the workers and embed calls by their    *)
(* own permits, and every permit is with a thread, the acceptor or free,   *)
(* on every path a connection can end by (serve.rs:60-75, 176-208).        *)
PermitsAreConserved ==
  /\ slots + Cardinality(Threads) + (IF acceptor = "holding" THEN 1 ELSE 0) = Workers
  /\ embeds + Cardinality({c \in Clients : stage[c] = "embedding"}) = MaxEmbeds
  /\ Cardinality(Snapshots) <= Workers

(* Replies answer the requests of their connection one by one and in order;*)
(* a reply without an id ends a site connection, nothing sent after it is  *)
(* served (listener.rs:30-80), and exit ends a local one.                  *)
Fatal(r) == r.id = 0 /\ surface = "site"
RepliesFollowRequests ==
  \A c \in Clients :
    /\ \A i, j \in 1..Len(replies[c]) :
         i < j /\ replies[c][i].id # 0 /\ replies[c][j].id # 0
           => replies[c][i].id < replies[c][j].id
    /\ \A i \in 1..Len(replies[c]) :
         Fatal(replies[c][i]) => i = Len(replies[c]) /\ stage[c] = "closed"
    /\ surface = "site" => (current[c].id # 0 => Len(replies[c]) < current[c].id)

(* A queued connection is accepted in the end, whoever holds the workers:  *)
(* idle peers run into the read timeout, failing requests release what     *)
(* they hold (serve.rs:100-118, 186).                                      *)
EventuallyAccepted == \A c \in Clients : []<>(stage[c] # "queued")
=============================================================================
