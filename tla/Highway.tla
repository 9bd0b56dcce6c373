------------------------------ MODULE Highway ------------------------------
(***************************************************************************)
(* Uploads over the highway: prepare_highway with its guard and the shared *)
(* ticket (src/mania/src/core/operation/highway_op.rs), and the upload of  *)
(* a stream in chunks, over TCP and then over HTTP, with the frame codec   *)
(* (core/highway/hw_client.rs, hw_frame_codec.rs).                         *)
(*                                                                         *)
(* Every task uploads one entity from streams of its own: an image or the  *)
(* silk stream made from a record, or a video and then its thumbnail.  A   *)
(* chunk is the offset in its header with the bounds of the data in its    *)
(* body.                                                                   *)
(***************************************************************************)
EXTENDS Integers, Sequences, FiniteSets

CONSTANTS
    Tasks, NoTask,
    Length,     \* of the streams of each task's entity: one or two
    Declared,   \* the sizes that the entity announces for them
    Chunk       \* highway_chuck_size

ASSUME HighwayAssumption ==
    /\ NoTask \notin Tasks
    /\ Length \in [Tasks -> Seq(Nat)] /\ Declared \in [Tasks -> Seq(Nat)]
    /\ \A t \in Tasks : Len(Length[t]) \in {1, 2} /\ Len(Declared[t]) = Len(Length[t])
    /\ Chunk \in Nat \ {0}

VARIABLES
    guard,      \* who holds prepare_guard
    ticket,     \* whether sig_session holds a ticket
    client,     \* the client stored: "default" or "ready"
    fetched,    \* how many tickets have been fetched
    pc, via,    \* of each task: where it is, and over "tcp" or "http"
    using,      \* the client it has loaded
    part,       \* which of its streams is at hand
    pos,        \* the position of that stream
    offset,     \* of the chunk at hand
    frame,      \* the chunk sent last
    accepted    \* the chunks acknowledged in this attempt

shared == <<guard, ticket, client, fetched>>
upload == <<via, using, part, pos, offset, frame, accepted>>
vars   == <<shared, pc, upload>>

(* Mutant of Smaller: a read past the end.                                 *)
SmallerNever(a, b) == a

Smaller(a, b) == IF a < b THEN a ELSE b

(* What the stream at hand has, and what is announced of it.               *)
Available(t) == Length[t][part[t]]
Size(t) == Declared[t][part[t]]

Chunks == Nat \X Nat \X Nat

PCs == {"prepare", "sig", "ticket", "make", "hash", "request", "load", "connect",
        "chunk", "reply", "spin", "torn", "next", "done", "failed"}

TypeOK ==
    /\ guard \in Tasks \cup {NoTask} /\ ticket \in BOOLEAN
    /\ client \in {"default", "ready"} /\ fetched \in Nat
    /\ pc \in [Tasks -> PCs] /\ via \in [Tasks -> {"none", "tcp", "http"}]
    /\ using \in [Tasks -> {"none", "default", "ready"}]
    /\ pos \in [Tasks -> Nat] /\ offset \in [Tasks -> Nat]
    /\ frame \in [Tasks -> Chunks] /\ accepted \in [Tasks -> Seq(Chunks)]
    /\ part \in [Tasks -> {1, 2}]
    /\ \A t \in Tasks : part[t] \in DOMAIN Length[t] /\ pos[t] <= Available(t)

Init ==
    /\ guard = NoTask /\ ticket = FALSE /\ client = "default" /\ fetched = 0
    /\ pc = [t \in Tasks |-> "prepare"] /\ via = [t \in Tasks |-> "none"]
    /\ using = [t \in Tasks |-> "none"]
    /\ part = [t \in Tasks |-> 1]
    /\ pos = [t \in Tasks |-> 0] /\ offset = [t \in Tasks |-> 0]
    /\ frame = [t \in Tasks |-> <<0, 0, 0>>]
    /\ accepted = [t \in Tasks |-> <<>>]

Goto(t, place) == pc' = [pc EXCEPT ![t] = place]

-----------------------------------------------------------------------------
(* prepare_highway.                                                        *)

(* Mutant of Lock: the guard is not waited for.                            *)
LockWithoutGuard(t) ==
    /\ pc[t] = "prepare"
    /\ Goto(t, "sig")
    /\ UNCHANGED <<shared, upload>>

Lock(t) ==
    /\ pc[t] = "prepare" /\ guard = NoTask
    /\ guard' = t
    /\ Goto(t, "sig")
    /\ UNCHANGED <<ticket, client, fetched, upload>>

LoadTicket(t) ==
    /\ pc[t] = "sig"
    /\ Goto(t, IF ticket THEN "make" ELSE "ticket")
    /\ UNCHANGED <<shared, upload>>

(* fetch_sig_session: the answer is stored.  Until it comes the guard is   *)
(* held.                                                                   *)
FetchTicket(t) ==
    /\ pc[t] = "ticket"
    /\ ticket' = TRUE
    /\ fetched' = fetched + 1
    /\ Goto(t, "make")
    /\ UNCHANGED <<guard, client, upload>>

(* Mutant of FetchFails: the guard is kept.                                *)
FetchFailsKeepingGuard(t) ==
    /\ pc[t] = "ticket"
    /\ Goto(t, "failed")
    /\ UNCHANGED <<shared, upload>>

(* The error leaves prepare_highway, and the guard is dropped.             *)
FetchFails(t) ==
    /\ pc[t] = "ticket"
    /\ guard' = NoTask
    /\ Goto(t, "failed")
    /\ UNCHANGED <<ticket, client, fetched, upload>>

MakeClient(t) ==
    /\ pc[t] = "make"
    /\ client' = "ready"
    /\ guard' = NoTask
    /\ Goto(t, "hash")
    /\ UNCHANGED <<ticket, fetched, upload>>

-----------------------------------------------------------------------------
(* The operations around the upload (upload_group_image and its five       *)
(* siblings).                                                              *)

(* The streams are resolved and read to their ends for the digests; a      *)
(* record is converted first.                                              *)
Hash(t) ==
    /\ pc[t] = "hash"
    /\ pos' = [pos EXCEPT ![t] = Available(t)]
    /\ Goto(t, "request")
    /\ UNCHANGED <<shared, via, using, part, offset, frame, accepted>>

(* The answer to the upload request has a u_key, or none is needed because *)
(* the server knows the file.                                              *)
Request(t) ==
    /\ pc[t] = "request"
    /\ Goto(t, "load") \/ Goto(t, "next")
    /\ UNCHANGED <<shared, upload>>

(* No stream, no image, no sound; the request fails; or the answer lacks   *)
(* the index of a stream that is to be uploaded.                           *)
RequestFails(t) ==
    /\ \/ pc[t] \in {"hash", "request"}
       \/ pc[t] = "next" /\ part[t] < Len(Length[t])
    /\ Goto(t, "failed")
    /\ UNCHANGED <<shared, upload>>

(* After the video comes its thumbnail, if its sub_file_info has a u_key.  *)
NextStream(t) ==
    /\ pc[t] = "next" /\ part[t] < Len(Length[t])
    /\ part' = [part EXCEPT ![t] = @ + 1]
    /\ pos' = [pos EXCEPT ![t] = Length[t][part[t] + 1]]
    /\ via' = [via EXCEPT ![t] = "none"]
    /\ offset' = [offset EXCEPT ![t] = 0]
    /\ accepted' = [accepted EXCEPT ![t] = <<>>]
    /\ Goto(t, "load") \/ Goto(t, "next")
    /\ UNCHANGED <<shared, using, frame>>

(* The entity gets its msg_info.                                           *)
Finish(t) ==
    /\ pc[t] = "next" /\ part[t] = Len(Length[t])
    /\ Goto(t, "done")
    /\ UNCHANGED <<shared, upload>>

(* The client is loaded and tcp_upload begins with a seek.                 *)
StartTcp(t) ==
    /\ pc[t] = "load"
    /\ using' = [using EXCEPT ![t] = client]
    /\ via' = [via EXCEPT ![t] = "tcp"]
    /\ pos' = [pos EXCEPT ![t] = 0]
    /\ Goto(t, "connect")
    /\ UNCHANGED <<shared, part, offset, frame, accepted>>

-----------------------------------------------------------------------------
(* tcp_upload and http_upload.                                             *)

(* The loop over the offsets goes on, or the stream has been uploaded.     *)
NextChunk(t, next) == Goto(t, IF next < Size(t) THEN "chunk" ELSE "next")

Connect(t) ==
    /\ pc[t] = "connect"
    /\ NextChunk(t, 0)
    /\ UNCHANGED <<shared, upload>>

(* build_frame reads at most a chunk from where the stream stands.         *)
SendChunk(t) ==
    /\ pc[t] = "chunk"
    /\ LET end == Smaller(pos[t] + Chunk, Available(t)) IN
       /\ frame' = [frame EXCEPT ![t] = <<offset[t], pos[t], end>>]
       /\ pos' = [pos EXCEPT ![t] = end]
    /\ Goto(t, "reply")
    /\ UNCHANGED <<shared, via, using, part, offset, accepted>>

(* The frame of the response has come whole and parse_frame accepts it.    *)
Reply(t) ==
    /\ pc[t] = "reply"
    /\ accepted' = [accepted EXCEPT ![t] = Append(@, frame[t])]
    /\ offset' = [offset EXCEPT ![t] = @ + Chunk]
    /\ NextChunk(t, offset'[t])
    /\ UNCHANGED <<shared, via, using, part, pos, frame>>

(* Mutant of Restart: the stream is read on from where TCP has left it.    *)
RestartWithoutSeek(t) ==
    /\ via' = [via EXCEPT ![t] = "http"]
    /\ offset' = [offset EXCEPT ![t] = 0]
    /\ accepted' = [accepted EXCEPT ![t] = <<>>]
    /\ NextChunk(t, 0)
    /\ UNCHANGED <<pos, using, part, frame>>

(* http_upload begins with a seek and the first offset.                    *)
Restart(t) ==
    /\ via' = [via EXCEPT ![t] = "http"]
    /\ pos' = [pos EXCEPT ![t] = 0]
    /\ offset' = [offset EXCEPT ![t] = 0]
    /\ accepted' = [accepted EXCEPT ![t] = <<>>]
    /\ NextChunk(t, 0)
    /\ UNCHANGED <<using, part, frame>>

(* No connection in time, a broken one, an error code, an invalid frame,   *)
(* or an end of the stream in the middle of a frame: fall back to HTTP.    *)
TcpFails(t) ==
    /\ via[t] = "tcp" /\ pc[t] \in {"connect", "chunk", "reply", "torn"}
    /\ Restart(t)
    /\ UNCHANGED <<shared>>

HttpFails(t) ==
    /\ via[t] = "http" /\ pc[t] \in {"chunk", "reply"}
    /\ Goto(t, "failed")
    /\ UNCHANGED <<shared, upload>>

(* The server closes the connection between two frames: next() is None,    *)
(* now and for ever, and the loop asks again.                              *)
StreamEnds(t) ==
    /\ via[t] = "tcp" /\ pc[t] = "reply"
    /\ Goto(t, "spin")
    /\ UNCHANGED <<shared, upload>>

(* The head of the response is no RespDataHighwayHead: unwrap panics, and  *)
(* there is no falling back.                                               *)
ReplyPanics(t) ==
    /\ via[t] = "tcp" /\ pc[t] = "reply"
    /\ Goto(t, "failed")
    /\ UNCHANGED <<shared, upload>>

(* The response comes in two pieces and the first holds the header: decode *)
(* consumes it and finds the frame incomplete.  What comes later is read   *)
(* at a wrong place.                                                       *)
ReplyTorn(t) ==
    /\ via[t] = "tcp" /\ pc[t] = "reply"
    /\ Goto(t, "torn")
    /\ UNCHANGED <<shared, upload>>

-----------------------------------------------------------------------------
TaskStep(t) ==
    \/ LoadTicket(t) \/ FetchTicket(t) \/ FetchFails(t) \/ MakeClient(t)
    \/ Hash(t) \/ Request(t) \/ RequestFails(t)
    \/ NextStream(t) \/ Finish(t) \/ StartTcp(t)
    \/ Connect(t) \/ SendChunk(t) \/ Reply(t)
    \/ TcpFails(t) \/ HttpFails(t)

(* What the server does to a connection in the middle of an upload.        *)
ServerBreaks(t) == StreamEnds(t) \/ ReplyPanics(t) \/ ReplyTorn(t)

Next == \E t \in Tasks : Lock(t) \/ TaskStep(t) \/ ServerBreaks(t)

Spec == Init /\ [][Next]_vars

(* Where a task waits for an answer and no timeout bounds the wait: the two *)
(* send_event, neither of which fails when the connection breaks (module    *)
(* Business), and the response to a chunk.  Connecting has a timeout.       *)
Awaiting == {"ticket", "request", "reply", "torn"}

(* The runtime runs every task, streams can be read and connecting fails in *)
(* time; tokio's Mutex serves in the order of asking.  That an answer ever  *)
(* comes is not assumed.                                                    *)
FairSpec ==
    Spec /\ \A t \in Tasks :
               SF_vars(Lock(t)) /\ WF_vars(pc[t] \notin Awaiting /\ TaskStep(t))

-----------------------------------------------------------------------------
(* The chunk that belongs at an offset of the stream.                      *)
ChunkAt(t, from) == <<from, Smaller(from, Available(t)), Smaller(from + Chunk, Available(t))>>

(* A stream that is uploaded has had every chunk acknowledged within one   *)
(* attempt, in order, each with the data that belongs at its offset, up to *)
(* the declared size, whatever an attempt over TCP left behind; and an     *)
(* entity is done with its last stream only (HighwayClient::upload,        *)
(* upload_group_video).  Up to the declared size and no further: a video   *)
(* that the builder got as a stream is declared with size 0, and nothing   *)
(* of it is sent (module Messaging, SentWhole).                            *)
DeliveredWhole ==
    \A t \in Tasks :
        /\ pc[t] \in {"next", "done"} /\ via[t] # "none" =>
              /\ \A i \in DOMAIN accepted[t] : accepted[t][i] = ChunkAt(t, (i - 1) * Chunk)
              /\ Len(accepted[t]) * Chunk >= Size(t)
        /\ pc[t] = "done" => part[t] = Len(Length[t])

(* However many uploads prepare at once, the server is asked for one       *)
(* ticket, and no upload runs with the default client (prepare_highway).   *)
OneTicket ==
    /\ fetched <= 1
    /\ \A t \in Tasks : using[t] # "default"

(* The invariants behind the two.  Exactly the holder of the guard is in   *)
(* prepare_highway, a ticket is asked for only while there is none, and    *)
(* whoever has left it has a client to load.                               *)
PrepareInv ==
    /\ fetched = IF ticket THEN 1 ELSE 0
    /\ \A t \in Tasks :
        /\ guard = t <=> pc[t] \in {"sig", "ticket", "make"}
        /\ pc[t] = "ticket" => ~ticket
        /\ pc[t] \notin {"prepare", "sig", "ticket", "make", "failed"} => client = "ready"
        /\ using[t] # "default"

(* The offset counts the chunks accepted, all of them right; the stream    *)
(* stands at the offset whenever a chunk is about to be read, and at the   *)
(* end of the chunk while its response is awaited.                         *)
TaskChunks(t) ==
    /\ offset[t] = Len(accepted[t]) * Chunk
    /\ \A i \in DOMAIN accepted[t] : accepted[t][i] = ChunkAt(t, (i - 1) * Chunk)
    /\ pc[t] \in {"prepare", "sig", "ticket", "make", "hash", "request", "load"} =>
         via[t] = "none" /\ accepted[t] = <<>>
    /\ pc[t] = "connect" => accepted[t] = <<>> /\ pos[t] = 0
    /\ pc[t] \in {"chunk", "reply", "spin", "torn"} => offset[t] < Size(t)
    /\ pc[t] = "chunk" => pos[t] = Smaller(offset[t], Available(t))
    /\ pc[t] = "reply" =>
         /\ frame[t] = ChunkAt(t, offset[t])
         /\ pos[t] = Smaller(offset[t] + Chunk, Available(t))
    /\ pc[t] \in {"next", "done"} /\ via[t] # "none" => offset[t] >= Size(t)
    /\ pc[t] = "done" => part[t] = Len(Length[t])

ChunkInv == \A t \in Tasks : TaskChunks(t)

(* The requests for a ticket return, with one or with an error, and so do  *)
(* the requests of an upload and the waits for its chunks.                 *)
TicketsReturn    == \A u \in Tasks : []<>(pc[u] # "ticket")
AnswersReturn(t) == []<>(pc[t] \notin {"request", "reply"})

(* An upload ends although others fail to get a ticket, or wait for ever   *)
(* for their upload request or a chunk.  They must not wait for ever for a *)
(* ticket: prepare_guard is held across that send_event, which has no      *)
(* timeout, and one unanswered ticket request stops every later upload     *)
(* (prepare_highway).  The upload's own requests must return, and its      *)
(* server neither close the connection between two frames nor split a      *)
(* response (tcp_upload).                                                  *)
UploadEnds ==
    \A t \in Tasks :
        TicketsReturn /\ AnswersReturn(t) /\ [](pc[t] \notin {"spin", "torn"})
            => <>(pc[t] \in {"done", "failed"})

(* "Tcp upload failed: {:?} fallback to http upload..." (hw_client.rs): an *)
(* upload whose connection the server has closed goes on over HTTP.        *)
FallsBack == \A t \in Tasks : (pc[t] = "spin") ~> (via[t] = "http")

=============================================================================
