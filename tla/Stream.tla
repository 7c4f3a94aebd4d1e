------------------------------- MODULE Stream -------------------------------
(***************************************************************************)
(* The shared state stream of one server process: the publisher goroutine  *)
(* and the connection handlers of internal/session/stream.go, and the      *)
(* clients of internal/remote/stream.go at the other end of the sockets.   *)
(*                                                                         *)
(* One step is what the code does while it holds statePublisher.mu (the    *)
(* encoding before it included).  A socket keeps the order of messages and *)
(* can break at any time, with what is on the way lost.  The wake channels *)
(* only shorten waits: every handler tries again after one second and the  *)
(* publisher after 50 milliseconds, so a step is enabled without a wake.   *)
(*                                                                         *)
(* A frame is its source (project revision, generation, order contract)    *)
(* and its version.  A delta keeps the frame it was made from: applied to  *)
(* any other frame it gives Corrupt.                                       *)
(***************************************************************************)
EXTENDS Naturals, Sequences, FiniteSets, FiniteSetsExt, SequencesExt

CONSTANTS
  Conns,          \* connections; one client owns each, and reuses it after a break
  Connections,    \* streamConnections, 64 in the code
  HistoryCount,   \* streamHistoryCount, 256 in the code
  HistoryBytes,   \* streamHistoryBytes, 32 MiB in the code
  MaxMessage,     \* MaxStreamMessage
  CreditCount,    \* streamCreditCount, 64 in the code
  CreditBytes,    \* streamCreditBytes, 8 MiB in the code
  MaxCounter,     \* sim.MaxCounter, 2^53 - 1 in the code
  DeltaSizes,     \* sizes of encoded deltas
  FullSizes,      \* sizes of encoded full frames
  Contracts,      \* order contracts
  MaxVersion,     \* bound on the frames of the session
  MaxSource,      \* bound on its project revisions and generations
  MaxStream,      \* bound on stream IDs
  MaxHeartbeat,   \* bound on the heartbeats of a connection
  None

\* Mutant: no slots for full frames.
RetainedHistoryOnly == HistoryBytes

\* Current full encoding and one previous full in flight have separate slots.
RetainedBytes == HistoryBytes + 2 * MaxMessage

ASSUME LimitAssumption ==
  /\ IsFiniteSet(Conns)
  /\ {Connections, HistoryCount, HistoryBytes, MaxMessage, CreditCount, CreditBytes, MaxCounter,
      MaxVersion, MaxSource, MaxStream} \subseteq Nat \ {0}
  /\ MaxHeartbeat \in Nat
ASSUME SizeAssumption == DeltaSizes \cup FullSizes \subseteq 1 .. MaxMessage

Frame ==
  [project : 1 .. MaxSource, generation : 1 .. MaxSource, contract : Contracts, version : 1 .. MaxVersion]

ASSUME NoneAssumption == None \notin Frame /\ None \notin Contracts
Corrupt == [project |-> 0, generation |-> 0, contract |-> None, version |-> 0]

\* Every payload is in the history, the cached full frame, the pending
\* encoding or under write: there are never more than these.
Ids == 1 .. HistoryCount + 2 + Cardinality(Conns)

VARIABLES
  source,     \* the frame that presentationFrame returns now
  stopped,    \* statePublisher.stopped, with its canceled context
  frame,      \* statePublisher.frame, or None
  stream,     \* statePublisher.stream, 0 for the empty ID
  sequence,   \* statePublisher.sequence
  history,    \* statePublisher.history: payload IDs
  full,       \* statePublisher.full: a payload ID, or 0
  needFull,   \* statePublisher.needFull
  retained,   \* statePublisher.retained
  released,   \* the token in statePublisher.released
  payloads,   \* the live payloads, None for a free ID
  streams,    \* stream IDs made so far
  work,       \* where the publisher goroutine is
  subs,       \* the server side of each connection
  writers,    \* connections that write a payload, the oldest first
  peers,      \* the client side of each connection
  inbox,      \* messages on the way to the client
  controls,   \* control messages on the way to the server
  shown       \* the frame of Client.state of each client, or None

publisherVars == <<frame, stream, sequence, history, full, retained, payloads, streams, work>>
socketVars == <<peers, inbox, controls, shown>>
vars == <<source, stopped, needFull, released, subs, writers, publisherVars, socketVars>>

-----------------------------------------------------------------------------
(* Types.                                                                  *)

Payload ==
  [kind : {"delta", "full"}, stream : 1 .. MaxStream, sequence : 1 .. MaxCounter, base : 0 .. MaxCounter,
   from : Frame \cup {None}, frame : Frame, size : 1 .. MaxMessage, refs : Nat \ {0}]

ASSUME PayloadAssumption == None \notin Payload

Sent == [stream : 0 .. MaxStream, sequence : 0 .. MaxCounter, bytes : 0 .. MaxMessage]
NoSent == [stream |-> 0, sequence |-> 0, bytes |-> 0]

\* pc "idle": the select of run; "admit": admitEncoded holds the lock;
\* "wait": it waits for a release; "install": retain returned; "check":
\* publish looks for a full frame that is still needed; "done": run ended.
Kinds == {"delta", "reset", "large", "extra"}
Work ==
  [pc : {"idle", "admit", "wait", "install", "check", "done"}, need : BOOLEAN, kind : Kinds,
   frame : Frame \cup {None}, size : 0 .. MaxMessage, id : Ids \cup {0}]
Idle == [pc |-> "idle", need |-> FALSE, kind |-> "extra", frame |-> None, size |-> 0, id |-> 0]

\* pc "accepting": admitted, the upgrade runs; "hello": upgraded; "ready":
\* the loop of streamHTTP.  broken: the socket is closed or the context of
\* the handler canceled.
Subscriber ==
  [pc : {"off", "accepting", "hello", "ready"}, broken : BOOLEAN, contract : Contracts \cup {None},
   stream : 0 .. MaxStream, sequence : 0 .. MaxCounter, sent : Seq(Sent), bytes : Nat, lastACK : Sent,
   heartbeat : 0 .. MaxHeartbeat, heartbeats : 0 .. MaxHeartbeat, writing : Ids \cup {0}]
NoSubscriber ==
  [pc |-> "off", broken |-> FALSE, contract |-> None, stream |-> 0, sequence |-> 0, sent |-> <<>>,
   bytes |-> 0, lastACK |-> NoSent, heartbeat |-> 0, heartbeats |-> 0, writing |-> 0]

\* What receiveFrames keeps for one connection.
Peer ==
  [on : BOOLEAN, contract : Contracts \cup {None}, stream : 0 .. MaxStream, sequence : 0 .. MaxCounter,
   frame : Frame \cup {None, Corrupt}, topology : 0 .. MaxSource]
NoPeer == [on |-> FALSE, contract |-> None, stream |-> 0, sequence |-> 0, frame |-> None, topology |-> 0]

TypeOK ==
  /\ source \in Frame /\ stopped \in BOOLEAN /\ needFull \in BOOLEAN /\ released \in BOOLEAN
  /\ frame \in Frame \cup {None} /\ stream \in 0 .. MaxStream /\ sequence \in 0 .. MaxCounter
  /\ history \in Seq(Ids) /\ full \in Ids \cup {0} /\ retained \in Nat /\ streams \in 0 .. MaxStream
  /\ payloads \in [Ids -> Payload \cup {None}]
  /\ work \in Work
  /\ subs \in [Conns -> Subscriber] /\ writers \in Seq(Conns)
  /\ peers \in [Conns -> Peer]
  /\ shown \in [Conns -> Frame \cup {None}]

Init ==
  /\ \E c \in Contracts : source = [project |-> 1, generation |-> 1, contract |-> c, version |-> 1]
  /\ stopped = FALSE /\ frame = None /\ stream = 0 /\ sequence = 0 /\ history = <<>> /\ full = 0
  /\ needFull = FALSE /\ retained = 0 /\ released = FALSE /\ streams = 0
  /\ payloads = [i \in Ids |-> None]
  /\ work = Idle
  /\ subs = [c \in Conns |-> NoSubscriber] /\ writers = <<>>
  /\ peers = [c \in Conns |-> NoPeer]
  /\ inbox = [c \in Conns |-> <<>>] /\ controls = [c \in Conns |-> <<>>]
  /\ shown = [c \in Conns |-> None]

-----------------------------------------------------------------------------
(* Payloads.                                                               *)

Clients == {c \in Conns : subs[c].pc # "off"}

Bytes(ids) == MapThenSumSet(LAMBDA i : payloads[i].size, ids)

\* Mutant: a payload without references stays.
ReleaseKept(ids) ==
  [i \in Ids |-> IF i \in ids THEN [payloads[i] EXCEPT !.refs = @ - 1] ELSE payloads[i]]

\* release, for every payload of a set.
Release(ids) ==
  [i \in Ids |-> IF i \notin ids THEN payloads[i]
                 ELSE IF payloads[i].refs = 1 THEN None
                 ELSE [payloads[i] EXCEPT !.refs = @ - 1]]

\* Mutant: the bytes of a payload that another holder keeps are given back.
RetainedWithoutAll(ids) == retained - Bytes(ids)

RetainedWithout(ids) == retained - Bytes({i \in ids : payloads[i].refs = 1})

\* The oldest payloads of the history.
Oldest(n) == ToSet(SubSeq(history, 1, n))
Kept(n) == SubSeq(history, n + 1, Len(history))

CachedFull == {full} \ {0}
Owned == ToSet(history) \cup CachedFull

\* How many payloads admitEncoded evicts for an encoding of this size.
Evictions(size) ==
  Min({n \in 0 .. Len(history) :
         n = Len(history) \/ /\ RetainedWithout(Oldest(n)) + size <= RetainedBytes
                             /\ Bytes(ToSet(Kept(n))) + size <= HistoryBytes
                             /\ Len(history) - n < HistoryCount})

\* What admitEncoded releases: evicted history, then the cached full frame.
Dropped(size) ==
  LET evicted == Oldest(Evictions(size))
  IN  IF full # 0 /\ RetainedWithout(evicted) + size > RetainedBytes THEN evicted \cup {full} ELSE evicted

Admissible(size) == RetainedWithout(Dropped(size)) + size <= RetainedBytes

\* The handlers of these connections fail at their next read or write.
Break(cs) == [c \in Conns |-> IF c \in cs THEN [subs[c] EXCEPT !.broken = TRUE] ELSE subs[c]]

\* A connection that is not upgraded yet has no socket to close.
Upgraded == {c \in Conns : subs[c].pc \in {"hello", "ready"}}

-----------------------------------------------------------------------------
(* The session and its clock.                                              *)

\* A command or a batch of the clock changes the frame; a reset also the
\* generation, a demand change the project, a new project all of them.
Advance ==
  /\ source.version < MaxVersion
  /\ \E generation \in {source.generation, source.generation + 1}, project \in {source.project, source.project + 1},
        contract \in Contracts :
       /\ generation <= MaxSource /\ project <= MaxSource
       /\ contract # source.contract => generation # source.generation /\ project # source.project
       /\ source' = [project |-> project, generation |-> generation, contract |-> contract,
                     version |-> source.version + 1]
  /\ UNCHANGED <<stopped, needFull, released, subs, writers, publisherVars, socketVars>>

\* stopStreams, called by Close.
StopStreams ==
  /\ ~stopped
  /\ stopped' = TRUE
  /\ subs' = Break(Upgraded)
  /\ UNCHANGED <<source, needFull, released, writers, publisherVars, socketVars>>

-----------------------------------------------------------------------------
(* The publisher goroutine.                                                *)

SameChain(a, b) == a.project = b.project /\ a.generation = b.generation /\ a.contract = b.contract

\* run without clients: everything that was published is forgotten.
Forget ==
  /\ work.pc = "idle" /\ ~stopped /\ Clients = {} /\ (sequence # 0 \/ needFull)
  /\ payloads' = Release(Owned)
  /\ retained' = RetainedWithout(Owned)
  /\ history' = <<>> /\ full' = 0 /\ frame' = None /\ stream' = 0 /\ sequence' = 0 /\ needFull' = FALSE
  /\ UNCHANGED <<source, stopped, released, streams, work, subs, writers, socketVars>>

\* The publication of this frame starts a new stream.
NewStream(next) == IF sequence \in {0, MaxCounter} THEN TRUE ELSE ~SameChain(frame, next)

\* publish takes its next frame: a new one, or after an early wake the
\* current one.  An unchanged frame has no publication of its own.
Publish(next) ==
  /\ work.pc = "idle" /\ ~stopped /\ Clients # {}
  /\ LET reset   == NewStream(next)
         changed == reset \/ frame # next
     IN  \/ /\ changed /\ reset /\ streams < MaxStream
            /\ \E size \in FullSizes :
                 work' = [pc |-> "admit", need |-> needFull, kind |-> "reset", frame |-> next, size |-> size, id |-> 0]
            /\ streams' = streams + 1
         \/ /\ changed /\ ~reset
            /\ \E size \in DeltaSizes :
                 work' = [pc |-> "admit", need |-> needFull, kind |-> "delta", frame |-> next, size |-> size, id |-> 0]
            /\ UNCHANGED streams
         \/ /\ ~changed
            /\ work' = [Idle EXCEPT !.pc = "check", !.need = needFull]
            /\ UNCHANGED streams
  /\ UNCHANGED <<source, stopped, needFull, released, subs, writers, frame, stream, sequence, history, full,
                 retained, payloads, socketVars>>

Capture == Publish(source)
EarlyWake == sequence # 0 /\ Publish(frame)

\* The stream and the sequence of the pending encoding.
NextStream == IF work.kind = "reset" THEN streams ELSE stream
NextSequence == IF work.kind = "reset" THEN 1 ELSE IF work.kind = "extra" THEN sequence ELSE sequence + 1

Encoding ==
  IF work.kind = "delta"
  THEN [kind |-> "delta", stream |-> stream, sequence |-> NextSequence, base |-> sequence, from |-> frame,
        frame |-> work.frame, size |-> work.size, refs |-> 1]
  ELSE [kind |-> "full", stream |-> NextStream, sequence |-> NextSequence, base |-> 0, from |-> None,
        frame |-> work.frame, size |-> work.size, refs |-> 1]

\* admitEncoded makes room and takes the encoding.
Admit ==
  /\ work.pc = "admit" /\ Admissible(work.size)
  /\ LET gone  == Dropped(work.size)
         after == Release(gone)
         id    == Min({i \in Ids : after[i] = None})
     IN  /\ payloads' = [after EXCEPT ![id] = Encoding]
         /\ retained' = RetainedWithout(gone) + work.size
         /\ history' = Kept(Evictions(work.size))
         /\ full' = IF full \in gone THEN 0 ELSE full
         /\ needFull' = (needFull \/ full \in gone)
         /\ work' = [work EXCEPT !.pc = "install", !.id = id]
  /\ UNCHANGED <<source, stopped, released, subs, writers, frame, stream, sequence, streams, socketVars>>

\* admitEncoded drops all that the publisher owns and cancels the writers
\* of the payload that is longest under write.
Shed ==
  /\ work.pc = "admit" /\ ~Admissible(work.size) /\ writers # <<>>
  /\ LET gone == Dropped(work.size)
     IN  /\ payloads' = Release(gone)
         /\ retained' = RetainedWithout(gone)
         /\ needFull' = (needFull \/ full \in gone)
  /\ history' = <<>> /\ full' = 0
  /\ subs' = Break({c \in Conns : subs[c].writing = subs[Head(writers)].writing})
  /\ work' = [work EXCEPT !.pc = "wait"]
  /\ UNCHANGED <<source, stopped, released, writers, frame, stream, sequence, streams, socketVars>>

\* A release wakes admitEncoded; a canceled context ends it.
WaitReleased ==
  /\ work.pc = "wait"
  /\ \/ /\ released /\ released' = FALSE
        /\ work' = [work EXCEPT !.pc = "admit"]
        /\ UNCHANGED subs
     \/ /\ stopped /\ UNCHANGED released
        /\ work' = Idle
        /\ subs' = Break(Upgraded)
  /\ UNCHANGED <<source, stopped, needFull, writers, frame, stream, sequence, history, full, retained, payloads,
                 streams, socketVars>>

\* publish returns an error before the admission (the frame cannot be made
\* or is too large): run closes every socket.
PublishFails ==
  /\ work.pc = "admit" \/ (work.pc = "idle" /\ ~stopped /\ Clients # {})
  /\ work' = Idle
  /\ subs' = Break(Upgraded)
  /\ UNCHANGED <<source, stopped, needFull, released, writers, frame, stream, sequence, history, full, retained,
                 payloads, streams, socketVars>>

\* A delta larger than the whole history is replaced by a full frame.
ReplaceLarge ==
  /\ work.pc = "install" /\ work.kind = "delta" /\ work.size > HistoryBytes
  /\ payloads' = Release({work.id})
  /\ retained' = RetainedWithout({work.id})
  /\ \E size \in FullSizes : work' = [work EXCEPT !.pc = "admit", !.kind = "large", !.size = size, !.id = 0]
  /\ UNCHANGED <<source, stopped, needFull, released, subs, writers, frame, stream, sequence, history, full,
                 streams, socketVars>>

\* The new frame is published as a delta.
InstallDelta ==
  /\ work.pc = "install" /\ work.kind = "delta" /\ work.size <= HistoryBytes
  /\ payloads' = Release(CachedFull)
  /\ retained' = RetainedWithout(CachedFull)
  /\ history' = Append(history, work.id)
  /\ full' = 0
  /\ frame' = work.frame /\ sequence' = NextSequence
  /\ work' = [Idle EXCEPT !.pc = "check", !.need = work.need]
  /\ UNCHANGED <<source, stopped, needFull, released, subs, writers, stream, streams, socketVars>>

\* The new frame is published as a full frame: no delta leads to it.
InstallFull ==
  /\ work.pc = "install" /\ work.kind \in {"reset", "large"}
  /\ payloads' = Release(Owned)
  /\ retained' = RetainedWithout(Owned)
  /\ history' = <<>>
  /\ full' = work.id
  /\ frame' = work.frame /\ stream' = NextStream /\ sequence' = NextSequence
  /\ needFull' = FALSE
  /\ work' = [Idle EXCEPT !.pc = "check", !.need = work.need]
  /\ UNCHANGED <<source, stopped, released, subs, writers, streams, socketVars>>

\* The end of publish: does a subscriber still need a full frame?
CheckFull ==
  /\ work.pc = "check"
  /\ needFull' = (needFull /\ full = 0)
  /\ \/ /\ full = 0 /\ (work.need \/ needFull)
        /\ \E size \in FullSizes :
             work' = [work EXCEPT !.pc = "admit", !.kind = "extra", !.frame = frame, !.size = size]
     \/ /\ full # 0 \/ ~(work.need \/ needFull)
        /\ work' = Idle
  /\ UNCHANGED <<source, stopped, released, subs, writers, frame, stream, sequence, history, full, retained,
                 payloads, streams, socketVars>>

InstallExtra ==
  /\ work.pc = "install" /\ work.kind = "extra"
  /\ full' = work.id /\ needFull' = FALSE
  /\ work' = Idle
  /\ UNCHANGED <<source, stopped, released, subs, writers, frame, stream, sequence, history, retained, payloads,
                 streams, socketVars>>

\* run after stopStreams: it waits for the handlers and frees what is left.
EndRun ==
  /\ work.pc = "idle" /\ stopped /\ Clients = {}
  /\ payloads' = Release(Owned)
  /\ retained' = RetainedWithout(Owned)
  /\ history' = <<>> /\ full' = 0
  /\ work' = [Idle EXCEPT !.pc = "done"]
  /\ UNCHANGED <<source, stopped, needFull, released, subs, writers, frame, stream, sequence, streams, socketVars>>

-----------------------------------------------------------------------------
(* Connection handlers of the server.                                      *)

\* streamHTTP reserves admission; the client has dropped its old connection.
Register(c) ==
  /\ subs[c].pc = "off" /\ ~peers[c].on
  /\ ~stopped /\ Cardinality(Clients) < Connections
  /\ subs' = [subs EXCEPT ![c].pc = "accepting"]
  /\ UNCHANGED <<source, stopped, needFull, released, writers, publisherVars, socketVars>>

\* The upgrade succeeds.  A publisher that stopped meanwhile could not close
\* this socket, so the handler looks for itself.
Accept(c) ==
  /\ subs[c].pc = "accepting" /\ ~subs[c].broken
  /\ subs' = [subs EXCEPT ![c].pc = "hello", ![c].broken = stopped]
  /\ needFull' = TRUE
  /\ peers' = [peers EXCEPT ![c] = [NoPeer EXCEPT !.on = TRUE]]
  /\ UNCHANGED <<source, stopped, released, writers, publisherVars, inbox, controls, shown>>

\* The hello names the contract of the session; the client reads it first.
Hello(c) ==
  /\ subs[c].pc = "hello" /\ ~subs[c].broken
  /\ subs' = [subs EXCEPT ![c].pc = "ready", ![c].contract = source.contract]
  /\ peers' = [peers EXCEPT ![c].contract = source.contract]
  /\ UNCHANGED <<source, stopped, needFull, released, writers, publisherVars, inbox, controls, shown>>

Current(c) == subs[c].stream = stream /\ subs[c].sequence = sequence

\* Mutant: a delta of another stream is taken for the next one.
NextDeltasAnyStream(c) == {i \in ToSet(history) : payloads[i].sequence = subs[c].sequence + 1}

\* nextPayload: the next delta, else the cached full frame, else nothing.
NextDeltas(c) ==
  {i \in ToSet(history) : subs[c].stream = stream /\ payloads[i].sequence = subs[c].sequence + 1}
NextPayload(c) == IF NextDeltas(c) # {} THEN NextDeltas(c) ELSE CachedFull

HasCredit(c, size) ==
  subs[c].sent = <<>> \/ subs[c].bytes + size <= CreditBytes

\* The checks of sendAvailable before it chooses a payload.
MaySend(c) ==
  /\ subs[c].pc = "ready" /\ subs[c].writing = 0 /\ ~stopped
  /\ sequence # 0 => frame.contract = subs[c].contract
  /\ Len(subs[c].sent) < CreditCount /\ subs[c].bytes < CreditBytes
  /\ ~Current(c)

\* sendAvailable chooses a payload, accounts for it and starts the write.
\* The client can have the message before the write returns.
StartWrite(c) ==
  /\ MaySend(c)
  /\ \E i \in NextPayload(c) :
       LET b == payloads[i]
       IN  /\ HasCredit(c, b.size)
           /\ payloads' = [payloads EXCEPT ![i].refs = @ + 1]
           /\ subs' = [subs EXCEPT ![c].writing = i, ![c].stream = b.stream, ![c].sequence = b.sequence,
                                   ![c].bytes = @ + b.size,
                                   ![c].sent = Append(@, [stream |-> b.stream, sequence |-> b.sequence, bytes |-> b.size])]
           /\ writers' = Append(writers, c)
           /\ inbox' = IF peers[c].on /\ ~subs[c].broken
                       THEN [inbox EXCEPT ![c] = Append(@, [kind |-> b.kind, stream |-> b.stream, sequence |-> b.sequence,
                                                            base |-> b.base, from |-> b.from, frame |-> b.frame])]
                       ELSE inbox
  /\ UNCHANGED <<source, stopped, needFull, released, frame, stream, sequence, history, full, retained, streams,
                 work, peers, controls, shown>>

\* Mutant: the request for a full frame is forgotten.
AskFullForgotten(c) == MaySend(c) /\ NextPayload(c) = {} /\ UNCHANGED vars

\* nextPayload finds neither a delta nor a full frame and asks for one.
AskFull(c) ==
  /\ MaySend(c) /\ NextPayload(c) = {} /\ ~needFull
  /\ needFull' = TRUE
  /\ UNCHANGED <<source, stopped, released, subs, writers, publisherVars, socketVars>>

\* The write returns: its lease ends also when it failed.
FinishWrite(c) ==
  /\ subs[c].writing # 0
  /\ payloads' = Release({subs[c].writing})
  /\ retained' = RetainedWithout({subs[c].writing})
  /\ \E n \in DOMAIN writers : writers[n] = c /\ writers' = RemoveAt(writers, n)
  /\ released' = TRUE
  /\ \E failed \in BOOLEAN :
       /\ subs[c].broken => failed
       /\ subs' = [subs EXCEPT ![c].writing = 0, ![c].broken = @ \/ failed]
  /\ UNCHANGED <<source, stopped, needFull, frame, stream, sequence, history, full, streams, work, socketVars>>

\* An idle connection gets a heartbeat, at most one at a time.
StartHeartbeat(c) ==
  /\ subs[c].pc = "ready" /\ subs[c].writing = 0 /\ ~subs[c].broken
  /\ subs[c].heartbeat = 0 /\ subs[c].sent = <<>> /\ subs[c].heartbeats < MaxHeartbeat
  /\ subs' = [subs EXCEPT ![c].heartbeats = @ + 1, ![c].heartbeat = subs[c].heartbeats + 1]
  /\ inbox' = IF peers[c].on
              THEN [inbox EXCEPT ![c] = Append(@, [kind |-> "heartbeat", token |-> subs[c].heartbeats + 1])]
              ELSE inbox
  /\ UNCHANGED <<source, stopped, needFull, released, writers, publisherVars, peers, controls, shown>>

\* control: the acknowledgment of one message covers all before it.
SentIndexes(c, ack) ==
  {i \in DOMAIN subs[c].sent : subs[c].sent[i].stream = ack.stream /\ subs[c].sent[i].sequence = ack.sequence}
\* Mutant: an acknowledgment covers all that was sent.
AcknowledgedAll(sub, i) == [sub EXCEPT !.bytes = 0, !.lastACK = sub.sent[i], !.sent = <<>>]

Acknowledged(sub, i) ==
  [sub EXCEPT !.bytes = @ - FoldLeft(LAMBDA n, s : n + s.bytes, 0, SubSeq(sub.sent, 1, i)),
              !.lastACK = sub.sent[i], !.sent = SubSeq(sub.sent, i + 1, Len(sub.sent))]

\* The last acknowledgment once more.
Repeated(c, ack) == subs[c].lastACK.stream = ack.stream /\ subs[c].lastACK.sequence = ack.sequence

\* A control message that the server must refuse ends the connection.
InvalidControl(c, m) ==
  \/ m.kind = "heartbeat" /\ m.token # subs[c].heartbeat
  \/ /\ m.kind = "ack" /\ SentIndexes(c, m) = {}
     /\ ~Repeated(c, m)

ReadControl(c) ==
  /\ subs[c].pc = "ready" /\ ~subs[c].broken /\ controls[c] # <<>>
  /\ LET m == Head(controls[c])
     IN  subs' = [subs EXCEPT ![c] =
                    IF InvalidControl(c, m) THEN [@ EXCEPT !.broken = TRUE]
                    ELSE IF m.kind = "heartbeat" THEN [@ EXCEPT !.heartbeat = 0]
                    ELSE IF Repeated(c, m) THEN @
                    ELSE Acknowledged(@, Min(SentIndexes(c, m)))]
  /\ controls' = [controls EXCEPT ![c] = Tail(@)]
  /\ UNCHANGED <<source, stopped, needFull, released, writers, publisherVars, peers, inbox, shown>>

\* watchProgress and the ticker of streamHTTP: 30 seconds without progress.
Expire(c) ==
  /\ subs[c].pc = "ready" /\ ~subs[c].broken
  /\ subs[c].sent # <<>> \/ subs[c].heartbeat # 0
  /\ subs' = [subs EXCEPT ![c].broken = TRUE]
  /\ UNCHANGED <<source, stopped, needFull, released, writers, publisherVars, socketVars>>

\* Mutant: the handler does not notice its canceled context.
LeaveOnContractOnly(c) ==
  /\ subs[c].pc # "off" /\ subs[c].writing = 0
  /\ \/ subs[c].pc = "accepting"
     \/ subs[c].pc = "ready" /\ (stopped \/ source.contract # subs[c].contract)
  /\ subs' = [subs EXCEPT ![c] = NoSubscriber]
  /\ controls' = [controls EXCEPT ![c] = <<>>]
  /\ UNCHANGED <<source, stopped, needFull, released, writers, publisherVars, peers, inbox, shown>>

\* streamHTTP returns: the connection failed, the server stops or the
\* contract changed.
Leave(c) ==
  /\ subs[c].pc # "off" /\ subs[c].writing = 0
  /\ \/ subs[c].broken
     \/ subs[c].pc = "accepting"
     \/ subs[c].pc = "ready" /\ (stopped \/ source.contract # subs[c].contract \/
                                (sequence # 0 /\ frame.contract # subs[c].contract))
  /\ subs' = [subs EXCEPT ![c] = NoSubscriber]
  /\ controls' = [controls EXCEPT ![c] = <<>>]
  /\ UNCHANGED <<source, stopped, needFull, released, writers, publisherVars, peers, inbox, shown>>

-----------------------------------------------------------------------------
(* Clients.                                                                *)

\* ApplyStream.
Applies(peer, e) ==
  e.kind = "delta" =>
    /\ peer.stream = e.stream /\ peer.sequence = e.base /\ e.sequence = peer.sequence + 1
    /\ SameChain(peer.frame, e.frame)
Applied(peer, e) == IF e.kind = "full" \/ peer.frame = e.from THEN e.frame ELSE Corrupt

\* publish refuses a state older than the one on display.
Stale(c, e) == shown[c] # None /\ e.frame.version < shown[c].version

\* The checks of one publication against the connection.
Acceptable(c, e) == e.frame.contract = peers[c].contract /\ Applies(peers[c], e) /\ ~Stale(c, e)

\* The client gives the connection up: what is on the way is lost.
Disconnect(c) ==
  /\ peers' = [peers EXCEPT ![c] = NoPeer]
  /\ inbox' = [inbox EXCEPT ![c] = <<>>]
  /\ controls' = [controls EXCEPT ![c] = <<>>]
  /\ subs' = IF subs[c].pc = "off" THEN subs ELSE Break({c})
  /\ UNCHANGED <<source, stopped, needFull, released, writers, publisherVars, shown>>

\* receiveFrames: the publication is applied, shown and acknowledged, unless
\* a check fails or the topology of another project is served meanwhile.
Receive(c) ==
  /\ peers[c].on /\ inbox[c] # <<>> /\ Head(inbox[c]).kind # "heartbeat"
  /\ LET e == Head(inbox[c])
         topology == IF peers[c].topology = e.frame.project THEN peers[c].topology ELSE source.project
     IN  IF Acceptable(c, e) /\ topology = e.frame.project
         THEN /\ peers' = [peers EXCEPT ![c].stream = e.stream, ![c].sequence = e.sequence,
                                        ![c].frame = Applied(peers[c], e), ![c].topology = topology]
              /\ shown' = [shown EXCEPT ![c] = e.frame]
              /\ inbox' = [inbox EXCEPT ![c] = Tail(@)]
              /\ controls' = IF subs[c].pc = "ready" /\ ~subs[c].broken
                             THEN [controls EXCEPT ![c] = Append(@, [kind |-> "ack", stream |-> e.stream, sequence |-> e.sequence])]
                             ELSE controls
              /\ UNCHANGED <<source, stopped, needFull, released, subs, writers, publisherVars>>
         ELSE Disconnect(c)

\* answerHeartbeat.
AnswerHeartbeat(c) ==
  /\ peers[c].on /\ inbox[c] # <<>> /\ Head(inbox[c]).kind = "heartbeat"
  /\ inbox' = [inbox EXCEPT ![c] = Tail(@)]
  /\ controls' = IF subs[c].pc = "ready" /\ ~subs[c].broken
                 THEN [controls EXCEPT ![c] = Append(@, Head(inbox[c]))]
                 ELSE controls
  /\ UNCHANGED <<source, stopped, needFull, released, subs, writers, publisherVars, peers, shown>>

\* The network breaks, or a read or a write of the client times out.
LoseConnection(c) == peers[c].on /\ Disconnect(c)

-----------------------------------------------------------------------------

PublisherStep ==
  \/ Forget \/ Capture \/ EarlyWake \/ Admit \/ Shed \/ WaitReleased \/ PublishFails
  \/ ReplaceLarge \/ InstallDelta \/ InstallFull \/ CheckFull \/ InstallExtra \/ EndRun

HandlerStep(c) ==
  \/ Register(c) \/ Accept(c) \/ Hello(c) \/ StartWrite(c) \/ AskFull(c) \/ FinishWrite(c)
  \/ StartHeartbeat(c) \/ ReadControl(c) \/ Expire(c) \/ Leave(c)

ClientStep(c) == Receive(c) \/ AnswerHeartbeat(c) \/ LoseConnection(c)

Next == Advance \/ StopStreams \/ PublisherStep \/ \E c \in Conns : HandlerStep(c) \/ ClientStep(c)

Spec == Init /\ [][Next]_vars

\* The goroutines run, a write returns within its timeout, and the capture
\* deadline is kept across early wakes.  No step of the environment is fair:
\* no change, connection, loss, timeout or stop has to happen.
Fairness ==
  /\ SF_vars(Capture)
  /\ WF_vars(Admit \/ Shed \/ WaitReleased \/ ReplaceLarge \/ InstallDelta \/ InstallFull \/ CheckFull
             \/ InstallExtra \/ EndRun)
  /\ \A c \in Conns :
       /\ WF_vars(Hello(c)) /\ WF_vars(StartWrite(c)) /\ WF_vars(AskFull(c)) /\ WF_vars(FinishWrite(c))
       /\ WF_vars(ReadControl(c)) /\ WF_vars(Leave(c))
       /\ WF_vars(Receive(c)) /\ WF_vars(AnswerHeartbeat(c))

FairSpec == Spec /\ Fairness

-----------------------------------------------------------------------------
(* Properties.                                                             *)

Live == {i \in Ids : payloads[i] # None}
Holders(i) ==
  Cardinality({n \in DOMAIN history : history[n] = i}) + (IF full = i THEN 1 ELSE 0)
  + (IF work.id = i THEN 1 ELSE 0) + Cardinality({c \in Conns : subs[c].writing = i})

\* release and admitEncoded: every payload is counted once per holder, the
\* retained bytes are those of the live payloads, and they stay within the
\* budget of the history and two full frames whatever writes block or fail.
RetentionAccounted ==
  /\ retained = Bytes(Live) /\ retained <= RetainedBytes
  /\ \A i \in Live : payloads[i].refs = Holders(i)

\* admitEncoded: "stream retention has no lease owner" never happens.  When
\* an encoding does not fit after the publisher gave up all it owns, there
\* is a write to cancel.
PressureHasOwner == (work.pc = "admit" /\ ~Admissible(work.size)) => writers # <<>>

\* nextPayload and ApplyStream: a client never has to refuse what the server
\* sends, not after resynchronisations, new streams, evictions, a wrapped
\* sequence or a new connection, and every delta meets the frame it was made
\* from.
PublicationsApply ==
  \A c \in Conns :
    (peers[c].on /\ inbox[c] # <<>> /\ Head(inbox[c]).kind # "heartbeat")
    => Acceptable(c, Head(inbox[c])) /\ Applied(peers[c], Head(inbox[c])) # Corrupt

\* control: the server never refuses an acknowledgment or a heartbeat reply
\* of a client that follows the protocol, also when it arrives before the
\* write it answers returned.
ControlsAccepted ==
  \A c \in Conns :
    (subs[c].pc = "ready" /\ controls[c] # <<>>) => ~InvalidControl(c, Head(controls[c]))

\* The next publication needs a stream ID beyond the bound.
OutOfStreams == work.pc = "idle" /\ streams = MaxStream /\ NewStream(source)

\* publish, nextPayload and sendAvailable: a connection that stays up shows
\* every version of the session, or a later one, in the end.
ConnectedClientsCatchUp ==
  \A c \in Conns, v \in 1 .. MaxVersion :
    (subs[c].pc = "ready" /\ source.version = v)
    ~> (subs[c].pc = "off" \/ (shown[c] # None /\ shown[c].version >= v) \/ OutOfStreams)

\* run and WaitStreams: after Close the publisher ends, although handshakes,
\* writes and an encoding are under way.
StopsEventually == stopped ~> work.pc = "done"
=============================================================================
