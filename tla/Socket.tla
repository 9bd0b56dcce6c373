------------------------------- MODULE Socket -------------------------------
(***************************************************************************)
(* The connection of src/mania/src/core/socket.rs: PacketSender::send and  *)
(* PacketReceiver::recv, two bounded channels, and one task that runs      *)
(* send_loop and recv_loop in a select! and drops the close token when it  *)
(* ends.  A frame of the peer is its number; a packet is its sender and a  *)
(* count.                                                                  *)
(***************************************************************************)
EXTENDS Integers, Sequences, SequencesExt

CONSTANTS
    Senders,    \* tasks that call PacketSender::send
    Sends,      \* how many packets each of them sends
    Frames,     \* how many frames the peer sends
    Oversize,   \* the frames whose length field is above 64 MiB
    Capacity    \* CHANNEL_SIZE

ASSUME SocketAssumption ==
    /\ Sends \in Nat /\ Frames \in Nat /\ Capacity \in Nat \ {0}
    /\ Oversize \subseteq 1 .. Frames

Garbage == 0   \* what is read where no frame begins

VARIABLES
    phase,     \* the task: "running", "dropped" (its channel ends are gone),
               \* "released" (close_sync is dropped as well)
    sendLoop,  \* "recv", "write" (in write_all) or "ended" with Ok
    recvLoop,  \* "read", "forward" (in channel.send) or "ended" with Ok
    outq, inq,         \* the two channels
    outHand, inHand,   \* what each loop holds, a sequence of at most one
    pc,        \* of each sender: "idle", "checked", "broken", "panicked"
    sent,      \* how many packets of each sender were accepted
    rpc,       \* the receiver: "idle", "waiting", "panicked", "gone"
    attached,  \* whether a PacketSender is left
    wireIn,    \* frames of the peer not read yet
    arrived,   \* how many frames the peer has sent
    insync,    \* whether recv_loop is at a frame boundary
    accepted, written, got   \* histories: into outq, to the peer, from recv()

outVars == <<sendLoop, outq, outHand, pc, sent, attached, accepted, written>>
inVars  == <<recvLoop, inq, inHand, rpc, wireIn, arrived, insync, got>>
vars    == <<phase, outVars, inVars>>

Packets == Senders \X (1 .. Sends)

TypeOK ==
    /\ phase \in {"running", "dropped", "released"}
    /\ sendLoop \in {"recv", "write", "ended"}
    /\ recvLoop \in {"read", "forward", "ended"}
    /\ outq \in Seq(Packets) /\ Len(outq) <= Capacity
    /\ inq \in Seq(Garbage .. Frames) /\ Len(inq) <= Capacity
    /\ pc \in [Senders -> {"idle", "checked", "broken", "panicked"}]
    /\ sent \in [Senders -> 0 .. Sends]
    /\ rpc \in {"idle", "waiting", "panicked", "gone"}
    /\ attached \in BOOLEAN /\ insync \in BOOLEAN
    /\ arrived \in 0 .. Frames

Init ==
    /\ phase = "running"
    /\ sendLoop = "recv" /\ recvLoop = "read"
    /\ outq = <<>> /\ inq = <<>> /\ outHand = <<>> /\ inHand = <<>>
    /\ pc = [s \in Senders |-> "idle"]
    /\ sent = [s \in Senders |-> 0]
    /\ rpc = "idle" /\ attached = TRUE
    /\ wireIn = <<>> /\ arrived = 0 /\ insync = TRUE
    /\ accepted = <<>> /\ written = <<>> /\ got = <<>>

-----------------------------------------------------------------------------
(* PacketSender::send.                                                     *)

SendCheck(s) ==
    /\ pc[s] = "idle" /\ sent[s] < Sends /\ attached
    /\ pc' = [pc EXCEPT ![s] = IF phase = "released" THEN "broken" ELSE "checked"]
    /\ UNCHANGED <<phase, sendLoop, outq, outHand, sent, attached, accepted, written, inVars>>

(* Mutant of SendQueue: the channel is a stack.                            *)
SendStack(s) ==
    LET packet == <<s, sent[s] + 1>> IN
    /\ pc[s] = "checked" /\ phase = "running" /\ Len(outq) < Capacity
    /\ outq' = <<packet>> \o outq
    /\ accepted' = Append(accepted, packet)
    /\ sent' = [sent EXCEPT ![s] = @ + 1]
    /\ pc' = [pc EXCEPT ![s] = "idle"]
    /\ UNCHANGED <<phase, sendLoop, outHand, attached, written, inVars>>

(* Mutant of SendQueue: one place too many.                                *)
SendBeyondCapacity(s) ==
    LET packet == <<s, sent[s] + 1>> IN
    /\ pc[s] = "checked" /\ phase = "running" /\ Len(outq) <= Capacity
    /\ outq' = Append(outq, packet)
    /\ accepted' = Append(accepted, packet)
    /\ sent' = [sent EXCEPT ![s] = @ + 1]
    /\ pc' = [pc EXCEPT ![s] = "idle"]
    /\ UNCHANGED <<phase, sendLoop, outHand, attached, written, inVars>>

(* The sender waits until the channel has room.                            *)
SendQueue(s) ==
    LET packet == <<s, sent[s] + 1>> IN
    /\ pc[s] = "checked" /\ phase = "running" /\ Len(outq) < Capacity
    /\ outq' = Append(outq, packet)
    /\ accepted' = Append(accepted, packet)
    /\ sent' = [sent EXCEPT ![s] = @ + 1]
    /\ pc' = [pc EXCEPT ![s] = "idle"]
    /\ UNCHANGED <<phase, sendLoop, outHand, attached, written, inVars>>

(* The receiving half of the channel is gone: expect("channel closed").    *)
SendPanics(s) ==
    /\ pc[s] = "checked" /\ phase # "running"
    /\ pc' = [pc EXCEPT ![s] = "panicked"]
    /\ UNCHANGED <<phase, sendLoop, outq, outHand, sent, attached, accepted, written, inVars>>

(* The last PacketSender is dropped, with no send() under way.             *)
Detach ==
    /\ attached /\ \A s \in Senders : pc[s] # "checked"
    /\ attached' = FALSE
    /\ UNCHANGED <<phase, sendLoop, outq, outHand, pc, sent, accepted, written, inVars>>

-----------------------------------------------------------------------------
(* PacketReceiver::recv.                                                   *)

(* With the token dropped recv() returns an error and nothing changes.     *)
RecvCheck ==
    /\ rpc = "idle" /\ phase # "released"
    /\ rpc' = "waiting"
    /\ UNCHANGED <<phase, recvLoop, inq, inHand, wireIn, arrived, insync, got, outVars>>

RecvTake ==
    /\ rpc = "waiting" /\ inq # <<>>
    /\ got' = Append(got, Head(inq))
    /\ inq' = Tail(inq)
    /\ rpc' = "idle"
    /\ UNCHANGED <<phase, recvLoop, inHand, wireIn, arrived, insync, outVars>>

(* The channel is empty and its sender gone: expect("channel closed").     *)
RecvPanics ==
    /\ rpc = "waiting" /\ inq = <<>> /\ phase # "running"
    /\ rpc' = "panicked"
    /\ UNCHANGED <<phase, recvLoop, inq, inHand, wireIn, arrived, insync, got, outVars>>

(* The receiver is dropped, and what the channel holds with it.            *)
DropReceiver ==
    /\ rpc \in {"idle", "waiting"}
    /\ rpc' = "gone"
    /\ inq' = <<>>
    /\ UNCHANGED <<phase, recvLoop, inHand, wireIn, arrived, insync, got, outVars>>

-----------------------------------------------------------------------------
(* send_loop and recv_loop, polled together by select!.                    *)

(* Mutant of WriteTake: one loop at a time.                                *)
WriteTakeInTurn ==
    /\ phase = "running" /\ sendLoop = "recv" /\ outq # <<>>
    /\ recvLoop # "forward"
    /\ outHand' = <<Head(outq)>>
    /\ outq' = Tail(outq)
    /\ sendLoop' = "write"
    /\ UNCHANGED <<phase, pc, sent, attached, accepted, written, inVars>>

WriteTake ==
    /\ phase = "running" /\ sendLoop = "recv" /\ outq # <<>>
    /\ outHand' = <<Head(outq)>>
    /\ outq' = Tail(outq)
    /\ sendLoop' = "write"
    /\ UNCHANGED <<phase, pc, sent, attached, accepted, written, inVars>>

WriteDone ==
    /\ phase = "running" /\ sendLoop = "write"
    /\ written' = written \o outHand
    /\ outHand' = <<>>
    /\ sendLoop' = "recv"
    /\ UNCHANGED <<phase, outq, pc, sent, attached, accepted, inVars>>

(* No sender is left and the channel is drained: Ok(()).                   *)
SendLoopEnds ==
    /\ phase = "running" /\ sendLoop = "recv" /\ outq = <<>> /\ ~attached
    /\ sendLoop' = "ended"
    /\ UNCHANGED <<phase, outq, outHand, pc, sent, attached, accepted, written, inVars>>

(* Mutant of ReadFrame: the frame is handed over without waiting for room. *)
ReadFrameTry ==
    /\ phase = "running" /\ recvLoop = "read" /\ wireIn # <<>>
    /\ wireIn' = Tail(wireIn)
    /\ insync' = (insync /\ Head(wireIn) \notin Oversize)
    /\ inHand' = IF insync' /\ Len(inq) < Capacity THEN <<Head(wireIn)>> ELSE <<>>
    /\ recvLoop' = IF inHand' = <<>> THEN "read" ELSE "forward"
    /\ UNCHANGED <<phase, inq, rpc, arrived, got, outVars>>

(* A frame above the limit is skipped by its length field only: what is    *)
(* read next begins in its body, which may look like anything.             *)
ReadFrame ==
    /\ phase = "running" /\ recvLoop = "read" /\ wireIn # <<>>
    /\ wireIn' = Tail(wireIn)
    /\ \/ /\ insync /\ Head(wireIn) \notin Oversize
          /\ inHand' = <<Head(wireIn)>> /\ recvLoop' = "forward"
          /\ UNCHANGED insync
       \/ /\ insync /\ Head(wireIn) \in Oversize
          /\ insync' = FALSE
          /\ UNCHANGED <<inHand, recvLoop>>
       \/ /\ ~insync
          /\ \/ inHand' = <<Garbage>> /\ recvLoop' = "forward"
             \/ UNCHANGED <<inHand, recvLoop>>
          /\ UNCHANGED insync
    /\ UNCHANGED <<phase, inq, rpc, arrived, got, outVars>>

(* The loop waits until the channel has room.                              *)
Forward ==
    /\ phase = "running" /\ recvLoop = "forward" /\ rpc # "gone"
    /\ Len(inq) < Capacity
    /\ inq' = inq \o inHand
    /\ inHand' = <<>>
    /\ recvLoop' = "read"
    /\ UNCHANGED <<phase, rpc, wireIn, arrived, insync, got, outVars>>

(* The receiver is gone: Ok(()).                                           *)
RecvLoopEnds ==
    /\ phase = "running" /\ recvLoop = "forward" /\ rpc = "gone"
    /\ inHand' = <<>>
    /\ recvLoop' = "ended"
    /\ UNCHANGED <<phase, inq, rpc, wireIn, arrived, insync, got, outVars>>

(* A loop returns Err (or panics, on a length field below 4), or both have *)
(* returned Ok: both loops are dropped with the stream, their channel ends *)
(* and what they hold.                                                     *)
DropLoops ==
    /\ phase = "running"
    /\ \/ sendLoop = "write" \/ recvLoop = "read"
       \/ sendLoop = "ended" /\ recvLoop = "ended"
    /\ phase' = "dropped"
    /\ outq' = <<>> /\ outHand' = <<>> /\ inHand' = <<>> /\ wireIn' = <<>>
    /\ UNCHANGED <<sendLoop, pc, sent, attached, accepted, written,
                   recvLoop, inq, rpc, arrived, insync, got>>

(* The error is logged, then the task drops close_sync.                    *)
Release ==
    /\ phase = "dropped"
    /\ phase' = "released"
    /\ UNCHANGED <<outVars, inVars>>

(* The peer sends its next frame.                                          *)
PeerSend ==
    /\ phase = "running" /\ arrived < Frames
    /\ arrived' = arrived + 1
    /\ wireIn' = Append(wireIn, arrived + 1)
    /\ UNCHANGED <<phase, recvLoop, inq, inHand, rpc, insync, got, outVars>>

-----------------------------------------------------------------------------
LoopsStep ==
    \/ WriteTake \/ WriteDone \/ SendLoopEnds
    \/ ReadFrame \/ Forward \/ RecvLoopEnds
    \/ DropLoops \/ Release

Next ==
    \/ \E s \in Senders : SendCheck(s) \/ SendQueue(s) \/ SendPanics(s)
    \/ Detach
    \/ RecvCheck \/ RecvTake \/ RecvPanics \/ DropReceiver
    \/ LoopsStep
    \/ PeerSend

Spec == Init /\ [][Next]_vars

(* The runtime polls the senders and both loops, and the peer reads what   *)
(* is written to it.  Nothing is assumed of who calls recv().              *)
Fairness ==
    /\ \A s \in Senders : SF_vars(SendQueue(s)) /\ WF_vars(SendPanics(s))
    /\ WF_vars(WriteTake) /\ WF_vars(WriteDone)
    /\ WF_vars(ReadFrame) /\ WF_vars(Forward)
    /\ WF_vars(Release)

FairSpec == Spec /\ Fairness

-----------------------------------------------------------------------------
(* While the task runs, every packet send() accepted is written, in the    *)
(* loop's hand or queued, in the order of acceptance, and once it has      *)
(* ended the peer was given a prefix of them (send, send_loop).            *)
OutboundInOrder ==
    /\ phase = "running" => accepted = written \o outHand \o outq
    /\ IsPrefix(written, accepted)

(* Up to the first frame above the limit, recv() yields the frames of the  *)
(* peer in order and without a gap (recv_loop, recv); a disconnect only    *)
(* cuts the end off.                                                       *)
InboundInOrder ==
    insync =>
        /\ IsPrefix(got \o inq, [i \in 1 .. arrived |-> i])
        /\ phase = "running" /\ rpc # "gone" /\ recvLoop # "ended" =>
             got \o inq \o inHand \o wireIn = [i \in 1 .. arrived |-> i]

(* A sender that waits for room gets it even if nobody calls recv() and    *)
(* the incoming channel is full: the loops do not wait for each other.     *)
SendersProgress ==
    \A s \in Senders : (pc[s] = "checked") ~> (pc[s] # "checked")

(* While the connection lasts and somebody keeps calling recv(), every     *)
(* frame is handed over.                                                   *)
FramesDelivered ==
    /\ WF_vars(RecvCheck) /\ WF_vars(RecvTake)
    /\ [](phase = "running" /\ rpc # "gone" /\ insync)
    =>
        \A n \in 1 .. Frames : (arrived = n) ~> (Len(got) >= n)

(* expect("channel closed") in send and in recv: the other half of the     *)
(* channel is there whenever the close token said so.                      *)
ChannelOpen == rpc # "panicked" /\ \A s \in Senders : pc[s] # "panicked"

=============================================================================
